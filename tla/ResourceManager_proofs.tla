----------------------- MODULE ResourceManager_proofs -----------------------
(***************************************************************************)
(* The safety of ResourceManager for every number of tokens, handles,      *)
(* loaders, slots, nested callbacks and cached values.                     *)
(***************************************************************************)
EXTENDS ResourceManager, FiniteSetTheorems, SequenceTheorems, TLAPS

-----------------------------------------------------------------------------
(***************************************************************************)
(* What runs.                                                              *)
(***************************************************************************)
Request == [gen : 1..MaxRequest, load : BOOLEAN, queued : BOOLEAN, detached : BOOLEAN]
HandleState == [token : Tokens, shown : Ages \cup {None, Fallback}]
RunningCall ==
  [token : Tokens, gen : 1..MaxRequest, age : Ages, probe : BOOLEAN, meta : {None},
   ready : BOOLEAN, linked : BOOLEAN]

PollFrame == [op : {"poll"}, through : 0..MaxRequest, loader : 1..LoaderCount + 1, slot : Slots]
FactoryFrame ==
  [op : {"factory"}, token : Tokens, gen : 1..MaxRequest, age : Ages,
   handle : Handles \cup {None}, fresh : BOOLEAN]
CallFrame ==
  [op : {"call"}, by : {"resolve", "probe", "slot", "queued", "next"}, call : RunningCall,
   loader : Loaders, handle : Handles \cup {None}, fresh : BOOLEAN,
   held : {<< >>} \cup {<<c>> : c \in [loader : Loaders, call : RunningCall]}]
Frame == PollFrame \cup FactoryFrame \cup CallFrame

\* The token and the generation a frame works for.
TokenOf(f) == IF f.op = "call" THEN f.call.token ELSE f.token
GenOf(f) == IF f.op = "call" THEN f.call.gen ELSE f.gen
AgeOf(f) == IF f.op = "call" THEN f.call.age ELSE f.age

\* Only a walk of poll_pending holds a call that follows; nobody waits for its
\* answer, nor for a probe's.
CallSound(f) ==
  /\ f.by = "next" <=> f.held # << >>
  /\ f.by = "next" => f.held[1].loader < f.loader /\ f.held[1].call.gen = f.call.gen
  /\ f.by # "resolve" => f.handle = None
  /\ f.by \in {"resolve", "queued"} => ~f.call.probe
  /\ f.by = "probe" => f.call.probe

\* A frame at depth i, when n requests were made and H are the handles.
FrameSound(f, i, n, H) ==
  /\ f.op = "poll" => i = 1
  /\ f.op # "poll" =>
       /\ GenOf(f) <= n
       /\ f.fresh => f.handle # None
       /\ f.handle # None => H[f.handle] # None /\ H[f.handle].token = TokenOf(f)
  /\ f.op = "call" => CallSound(f)

StackSound(stack, n, H) ==
  /\ stack \in Seq(Frame) /\ Len(stack) <= MaxDepth + 1
  /\ \A i \in DOMAIN stack : FrameSound(stack[i], i, n, H)

Row == [Slots -> CallState \cup {Leased}]
Grid == [Loaders -> Row]

GridSound(S, n) ==
  /\ S \in Grid
  /\ \A l \in Loaders, s \in Slots : S[l][s] # Leased => S[l][s].gen <= n

LeasedIn(row) == {s \in Slots : row[s] = Leased}
Out(row) == Cardinality(LeasedIn(row))

\* The frames that have a lease of loader l, and those that hold one back.
Lenders(l) == {f \in Frame : f.op = "call" /\ f.loader = l}
Keepers(l) == {f \in Frame : f.op = "call" /\ f.held # << >> /\ f.held[1].loader = l}
Among(stack, X) == {i \in DOMAIN stack : stack[i] \in X}
LentIn(stack, l) ==
  Cardinality(Among(stack, Lenders(l))) + Cardinality(Among(stack, Keepers(l)))

Balanced(S, stack) == \A l \in Loaders : Out(S[l]) = LentIn(stack, l)

RequestsSound(R, n) ==
  /\ R \in [Tokens -> Request \cup {None}]
  /\ \A t \in Tokens : R[t] # None => R[t].gen <= n

Basics ==
  /\ value \in [Tokens -> Ages \cup {None}]
  /\ entry \in [Tokens -> Kinds \cup {None}]
  /\ failed \subseteq Tokens
  /\ handles \in [Handles -> HandleState \cup {None}]
  /\ managerReady \in BOOLEAN /\ managerLinked \in BOOLEAN /\ hostWoken \in BOOLEAN
  /\ nextRequest \in 0..MaxRequest
  /\ age \in [Tokens -> Ages]

TypeInv ==
  /\ Basics
  /\ RequestsSound(request, nextRequest)
  /\ GridSound(slots, nextRequest)
  /\ StackSound(frames, nextRequest, handles)
  /\ Balanced(slots, frames)

-----------------------------------------------------------------------------
(***************************************************************************)
(* Who works for a request.                                                *)
(***************************************************************************)
WaitsFor(c, t, g) == Waits(c) /\ c.token = t /\ c.gen = g
Waiting(S, t, g) == {p \in Loaders \X Slots : WaitsFor(S[p[1]][p[2]], t, g)}
RunsFor(f, t, g) == f.op # "poll" /\ TokenOf(f) = t /\ GenOf(f) = g
Running(stack, t, g) == {i \in DOMAIN stack : RunsFor(stack[i], t, g)}

Alone(W, R) == \/ R = {} /\ \E p \in W : W = {p}
               \/ W = {} /\ \E i \in R : R = {i}

\* What works for request r of token t, in slots S and stack: nobody while it is
\* queued, exactly one call or factory otherwise, on the token as it is at age a.
Works(S, stack, r, a, t) ==
  LET W == Waiting(S, t, r.gen)
      R == Running(stack, t, r.gen)
  IN  r # None =>
        /\ IF r.queued THEN W = {} /\ R = {} ELSE Alone(W, R)
        /\ \A p \in W : S[p[1]][p[2]].age = a
        /\ \A i \in R : AgeOf(stack[i]) = a

ServeInv == \A t \in Tokens : Works(slots, frames, request[t], age[t], t)

-----------------------------------------------------------------------------
(***************************************************************************)
(* Least elements.                                                         *)
(***************************************************************************)
LEMMA LeastNatural ==
  ASSUME NEW T \in SUBSET Nat, T # {}
  PROVE  \E x \in T : \A y \in T : x <= y
<1> DEFINE R == {ss \in Nat \X Nat : ss[1] < ss[2]}
<1>1. IsWellFoundedOn(R, Nat)
  BY NatLessThanWellFounded DEF OpToRel
<1>2. \A x, y \in Nat : y < x => <<y, x>> \in R
  OBVIOUS
<1> HIDE DEF R
<1>3. PICK x \in T : \A y \in T : <<y, x>> \notin R
  BY <1>1, WFMin
<1>4. \A y \in T : ~(y < x)
  BY <1>2, <1>3
<1> QED BY <1>3, <1>4

LEMMA MinOf ==
  ASSUME NEW T \in SUBSET Nat, T # {}
  PROVE  Min(T) \in T /\ \A y \in T : Min(T) <= y
<1>1. \E x \in T : \A y \in T : x <= y
  BY LeastNatural
<1> QED BY <1>1 DEF Min

-----------------------------------------------------------------------------
(***************************************************************************)
(* The slots of a loader.                                                  *)
(***************************************************************************)
LEMMA Sizes ==
  /\ LoaderCount \in Nat /\ LoaderCount > 0 /\ Capacity \in Nat /\ Capacity > 0
  /\ MaxDepth \in Nat /\ MaxDepth > 0 /\ MaxRequest \in Nat /\ MaxAge \in Nat
  /\ Loaders \subseteq Nat /\ Slots \subseteq Nat
BY SizesAssumption DEF Loaders, Slots

LEMMA CallsAreNotLeases ==
  ASSUME NEW c \in CallState
  PROVE  c # Leased
BY NobodyAssumption, Sizes DEF CallState, Ages

LEMMA CallTypes ==
  /\ Free \in CallState
  /\ \A c \in CallState : Woken(c) \in CallState
  /\ RunningCall \subseteq CallState
<1>1. 0 \in Ages /\ 0 \in 0..MaxRequest
  BY Sizes DEF Ages
<1>2. 1..MaxRequest \subseteq 0..MaxRequest
  BY Sizes
<1> QED BY <1>1, <1>2 DEF Free, CallState, Woken, RunningCall

LEMMA OutIsCount ==
  ASSUME NEW row
  PROVE  IsFiniteSet(LeasedIn(row)) /\ Out(row) \in Nat
         /\ (Out(row) = 0 <=> LeasedIn(row) = {})
<1>1. IsFiniteSet(Slots)
  BY Sizes, FS_Interval DEF Slots
<1>2. IsFiniteSet(LeasedIn(row))
  BY <1>1, FS_Subset DEF LeasedIn
<1> QED BY <1>2, FS_CardinalityType, FS_EmptySet DEF Out

\* One slot is taken or given back.
LEMMA SlotSet ==
  ASSUME NEW row \in Row, NEW s \in Slots, NEW c \in CallState \cup {Leased}
  PROVE  /\ [row EXCEPT ![s] = c] \in Row
         /\ row[s] # Leased /\ c = Leased => Out([row EXCEPT ![s] = c]) = Out(row) + 1
         /\ row[s] = Leased /\ c # Leased => Out([row EXCEPT ![s] = c]) + 1 = Out(row)
         /\ (row[s] = Leased <=> c = Leased) => Out([row EXCEPT ![s] = c]) = Out(row)
<1>1. [row EXCEPT ![s] = c] \in Row
  BY DEF Row
<1>2. ASSUME row[s] # Leased, c = Leased
      PROVE  Out([row EXCEPT ![s] = c]) = Out(row) + 1
  <2>1. LeasedIn([row EXCEPT ![s] = c]) = LeasedIn(row) \cup {s} /\ s \notin LeasedIn(row)
    BY <1>2 DEF LeasedIn, Row
  <2> QED BY <2>1, OutIsCount, FS_AddElement DEF Out
<1>3. ASSUME row[s] = Leased, c # Leased
      PROVE  Out([row EXCEPT ![s] = c]) + 1 = Out(row)
  <2>1. LeasedIn([row EXCEPT ![s] = c]) = LeasedIn(row) \ {s} /\ s \in LeasedIn(row)
    BY <1>3 DEF LeasedIn, Row
  <2>2. Out([row EXCEPT ![s] = c]) = Out(row) - 1
    BY <2>1, OutIsCount, FS_RemoveElement DEF Out
  <2> QED BY <2>2, OutIsCount
<1>4. ASSUME row[s] = Leased <=> c = Leased
      PROVE  Out([row EXCEPT ![s] = c]) = Out(row)
  <2>1. LeasedIn([row EXCEPT ![s] = c]) = LeasedIn(row)
    BY <1>4 DEF LeasedIn, Row
  <2> QED BY <2>1 DEF Out
<1> QED BY <1>1, <1>2, <1>3, <1>4

WithSlot(row, s, c) == [row EXCEPT ![s] = c]

LEMMA GivenBack ==
  ASSUME NEW row \in Row, NEW s \in Slots, row[s] = Leased, NEW c \in CallState,
         NEW r, r = WithSlot(row, s, c)
  PROVE  /\ r \in Row /\ Out(r) + 1 = Out(row)
         /\ r[s] = c /\ c # Leased /\ \A x \in Slots : x # s => r[x] = row[x]
<1>1. c # Leased /\ c \in CallState \cup {Leased}
  BY CallsAreNotLeases
<1>2. r \in Row /\ Out(r) + 1 = Out(row)
  BY <1>1, SlotSet DEF WithSlot
<1> QED BY <1>1, <1>2 DEF Row, WithSlot

LEMMA TakenOut ==
  ASSUME NEW row \in Row, NEW s \in Slots, row[s] # Leased,
         NEW r, r = WithSlot(row, s, Leased)
  PROVE  /\ r \in Row /\ Out(r) = Out(row) + 1
         /\ r[s] = Leased /\ \A x \in Slots : x # s => r[x] = row[x]
<1>1. Leased \in CallState \cup {Leased}
  OBVIOUS
<1>2. r \in Row /\ Out(r) = Out(row) + 1
  BY <1>1, SlotSet DEF WithSlot
<1> QED BY <1>2 DEF Row, WithSlot

LEMMA Exchanged ==
  ASSUME NEW row \in Row, NEW s \in Slots, row[s] # Leased, NEW c \in CallState,
         NEW r, r = WithSlot(row, s, c)
  PROVE  /\ r \in Row /\ Out(r) = Out(row)
         /\ r[s] = c /\ c # Leased /\ \A x \in Slots : x # s => r[x] = row[x]
<1>1. c # Leased /\ c \in CallState \cup {Leased}
  BY CallsAreNotLeases
<1>2. r \in Row /\ Out(r) = Out(row)
  BY <1>1, SlotSet DEF WithSlot
<1> QED BY <1>1, <1>2 DEF Row, WithSlot

\* A call goes to a slot that is out.
LEMMA PutSlot ==
  ASSUME NEW row \in Row, NEW c \in CallState, LeasedIn(row) # {}
  PROVE  \E s \in Slots : /\ row[s] = Leased /\ \A x \in Slots : row[x] = Leased => s <= x
                         /\ Put(row, c) = WithSlot(row, s, c)
<1>1. LeasedIn(row) \in SUBSET Nat
  BY Sizes DEF LeasedIn
<1>2. Min(LeasedIn(row)) \in LeasedIn(row) /\ \A y \in LeasedIn(row) : Min(LeasedIn(row)) <= y
  BY <1>1, MinOf
<1>3. Put(row, c) = [row EXCEPT ![Min(LeasedIn(row))] = c]
  BY DEF Put, LeasedIn
<1> QED BY <1>2, <1>3 DEF LeasedIn, WithSlot

LEMMA TakeSlotFacts ==
  ASSUME NEW row \in Row, NEW t \in Tokens, NEW g, TakeSlot(row, t, g) # 0
  PROVE  LET s == TakeSlot(row, t, g)
         IN  /\ s \in Slots /\ row[s] \in CallState /\ row[s] # Leased
             /\ Waits(row[s]) => row[s].token = t /\ row[s].gen = g
<1> DEFINE own == {s \in Slots : Holds(row[s], t) /\ (row[s].gen = g \/ row[s].meta # None)}
           free == {s \in Slots : Holds(row[s], None)}
           done == {s \in Slots : row[s] # Leased /\ row[s].meta # None}
           s == TakeSlot(row, t, g)
<1>1. own \in SUBSET Nat /\ free \in SUBSET Nat /\ done \in SUBSET Nat
  BY Sizes
<1>2. s = IF own # {} THEN Min(own) ELSE IF free # {} THEN Min(free)
          ELSE IF done # {} THEN Min(done) ELSE 0
  BY DEF TakeSlot
<1> HIDE DEF s
<1>3. \/ s \in own \/ s \in free \/ s \in done
  <2> HIDE DEF own, free, done
  <2>1. CASE own # {}
    BY <1>1, <1>2, <2>1, MinOf
  <2>2. CASE own = {} /\ free # {}
    BY <1>1, <1>2, <2>2, MinOf
  <2>3. CASE own = {} /\ free = {} /\ done # {}
    BY <1>1, <1>2, <2>3, MinOf
  <2>4. CASE own = {} /\ free = {} /\ done = {}
    BY <1>2, <2>4 DEF s
  <2> QED BY <2>1, <2>2, <2>3, <2>4
<1>4. s \in Slots /\ row[s] # Leased
  BY <1>3 DEF Holds
<1>5. row[s] \in CallState
  BY <1>4 DEF Row
<1>6. Waits(row[s]) => row[s].token = t /\ row[s].gen = g
  BY <1>3 DEF Holds, Waits
<1> QED BY <1>4, <1>5, <1>6 DEF s

LEMMA TargetFacts ==
  ASSUME NEW S \in [Loaders -> Row], NEW t \in Tokens, NEW g, NEW probe, NEW start \in Nat,
         start > 0, Target(S, t, g, probe, start) # << >>
  PROVE  \E l \in Loaders, s \in Slots :
           /\ Target(S, t, g, probe, start) = <<l, s>> /\ l >= start
           /\ S[l][s] \in CallState /\ S[l][s] # Leased
           /\ Waits(S[l][s]) => S[l][s].token = t /\ S[l][s].gen = g
<1> DEFINE claims == {l \in start..LoaderCount : Recognises[l][t] # "NoMatch"}
           l == Min(claims)
<1>1. claims # {} /\ TakeSlot(S[l], t, g) # 0
      /\ Target(S, t, g, probe, start) = <<l, TakeSlot(S[l], t, g)>>
  BY DEF Target
<1>2. claims \in SUBSET Nat
  BY Sizes
<1>3. l \in claims
  <2> HIDE DEF claims
  <2> QED BY <1>1, <1>2, MinOf
<1>4. l \in Loaders /\ l >= start
  BY <1>3, Sizes DEF Loaders
<1> HIDE DEF l, claims
<1>5. S[l] \in Row
  BY <1>4
<1> QED BY <1>1, <1>4, <1>5, TakeSlotFacts

-----------------------------------------------------------------------------
(***************************************************************************)
(* invalidate.  Every slot of another token stays as it is; one of the     *)
(* token is out, free, or has a call of it that was woken.                 *)
(***************************************************************************)
WokenFrom(row, t, c) ==
  \E x \in Slots : Holds(row[x], t) /\ row[x].meta = None /\ c = Woken(row[x])

\* The row after the slots up to n were visited.
VisitedTo(row, t, n, r) ==
  /\ r \in Row /\ Out(r) = Out(row)
  /\ \A s \in Slots : row[s] # Leased /\ row[s].token # t => r[s] = row[s]
  /\ \A s \in Slots : s > n => r[s] = row[s]
  /\ \A s \in Slots : s <= n /\ r[s] # Leased =>
       r[s] = Free \/ (r[s] = row[s] /\ row[s].token # t) \/ WokenFrom(row, t, r[s])

LEMMA VisitSlotKeeps ==
  ASSUME NEW row \in Row, NEW t \in Tokens, NEW s \in Slots, NEW r,
         VisitedTo(row, t, s - 1, r)
  PROVE  VisitedTo(row, t, s, VisitSlot(r, s, t))
<1>1. r \in Row /\ r[s] = row[s] /\ s \in Nat
  BY Sizes DEF VisitedTo
<1>2. CASE ~Holds(r[s], t)
  <2>1. VisitSlot(r, s, t) = r
    BY <1>2 DEF VisitSlot
  <2>2. row[s] # Leased => row[s].token # t
    BY <1>1, <1>2 DEF Holds
  <2>3. \A x \in Slots : x > s => x > s - 1
    BY <1>1, Sizes
  <2>4. \A x \in Slots : x <= s => x <= s - 1 \/ x = s
    BY <1>1, Sizes
  <2> QED BY <1>1, <2>1, <2>2, <2>3, <2>4 DEF VisitedTo
<1>3. CASE Holds(r[s], t)
  <2>1. PICK c : c = IF r[s].meta # None THEN Free ELSE Woken(r[s])
    OBVIOUS
  <2>2. PICK q : q = WithSlot(r, s, Leased)
    OBVIOUS
  <2>3. VisitSlot(r, s, t) = Put(q, c) /\ r[s] # Leased /\ r[s].token = t /\ r[s] \in CallState
    BY <1>1, <1>3, <2>1, <2>2 DEF VisitSlot, Holds, Row, WithSlot
  <2>4. c \in CallState /\ c # Leased /\ (c = Free \/ WokenFrom(row, t, c))
    BY <1>1, <1>3, <2>1, <2>3, CallTypes, CallsAreNotLeases DEF WokenFrom
  <2>5. q \in Row /\ Out(q) = Out(r) + 1 /\ q[s] = Leased /\ \A y \in Slots : y # s => q[y] = r[y]
    BY <1>1, <2>2, <2>3, TakenOut
  <2>6. PICK x \in Slots : /\ q[x] = Leased /\ \A y \in Slots : q[y] = Leased => x <= y
                           /\ Put(q, c) = WithSlot(q, x, c)
    BY <2>4, <2>5, PutSlot DEF LeasedIn
  <2>7. PICK p : p = WithSlot(q, x, c)
    OBVIOUS
  <2>8. p \in Row /\ Out(p) + 1 = Out(q) /\ p[x] = c /\ \A y \in Slots : y # x => p[y] = q[y]
    BY <2>4, <2>5, <2>6, <2>7, GivenBack
  <2>9. Out(p) = Out(row)
    BY <2>5, <2>8, OutIsCount DEF VisitedTo
  <2>10. x <= s
    BY <2>5, <2>6
  <2>11. ASSUME NEW y \in Slots, row[y] # Leased, row[y].token # t PROVE p[y] = row[y]
    <3>1. r[y] = row[y] /\ y # s
      BY <1>1, <2>3, <2>11 DEF VisitedTo
    <3>2. q[y] = row[y] /\ y # x
      BY <2>5, <2>6, <2>11, <3>1
    <3> QED BY <2>8, <3>2
  <2>12. ASSUME NEW y \in Slots, y > s PROVE p[y] = row[y]
    <3>1. y # s /\ y # x /\ y > s - 1
      BY <1>1, <2>10, <2>12, Sizes
    <3> QED BY <2>5, <2>8, <3>1 DEF VisitedTo
  <2>13. ASSUME NEW y \in Slots, y <= s, p[y] # Leased
        PROVE  p[y] = Free \/ (p[y] = row[y] /\ row[y].token # t) \/ WokenFrom(row, t, p[y])
    <3>1. CASE y = x
      BY <2>4, <2>8, <3>1
    <3>2. CASE y # x
      <4>1. y # s /\ p[y] = r[y]
        BY <2>5, <2>8, <2>13, <3>2
      <4>2. y <= s - 1
        BY <1>1, <2>13, <4>1, Sizes
      <4> QED BY <2>13, <4>1, <4>2 DEF VisitedTo
    <3> QED BY <3>1, <3>2
  <2>14. VisitedTo(row, t, s, p)
    BY <2>8, <2>9, <2>11, <2>12, <2>13 DEF VisitedTo
  <2> QED BY <2>3, <2>6, <2>7, <2>14
<1> QED BY <1>2, <1>3

Visits(row, t, n, rows) ==
  rows = [s \in 0..n |-> IF s = 0 THEN row ELSE VisitSlot(rows[s - 1], s, t)]

LEMMA VisitsExist ==
  ASSUME NEW row, NEW t
  PROVE  \E rows : Visits(row, t, Capacity, rows)
<1> DEFINE T == {n \in Nat : ~ \E rows : Visits(row, t, n, rows)}
<1>1. T = {}
  <2> SUFFICES ASSUME T # {} PROVE FALSE
    OBVIOUS
  <2>1. PICK n \in T : \A y \in T : n <= y
    <3> HIDE DEF T
    <3>1. T \in SUBSET Nat
      BY DEF T
    <3> QED BY <3>1, LeastNatural
  <2>2. n # 0
    <3>1. Visits(row, t, 0, [s \in 0..0 |-> row])
      BY DEF Visits
    <3> QED BY <2>1, <3>1
  <2>3. n - 1 \in Nat /\ n - 1 \notin T
    BY <2>1, <2>2
  <2>4. PICK rows : Visits(row, t, n - 1, rows)
    BY <2>3
  <2> DEFINE more == [s \in 0..n |-> IF s < n THEN rows[s] ELSE VisitSlot(rows[n - 1], n, t)]
  <2>5. \A s \in 0..n : more[s] = IF s = 0 THEN row ELSE VisitSlot(more[s - 1], s, t)
    <3> TAKE s \in 0..n
    <3>1. CASE s = n
      BY <2>2, <2>3, <3>1
    <3>2. CASE s < n
      <4>1. s \in 0..n - 1 /\ more[s] = rows[s] /\ (s # 0 => s - 1 \in 0..n - 1 /\ more[s - 1] = rows[s - 1])
        BY <2>3, <3>2
      <4> QED BY <2>4, <4>1 DEF Visits
    <3> QED BY <2>3, <3>1, <3>2
  <2>6. Visits(row, t, n, more)
    <3>1. more = [s \in 0..n |-> more[s]]
      OBVIOUS
    <3> HIDE DEF more
    <3> QED BY <2>5, <3>1 DEF Visits
  <2> QED BY <2>1, <2>6
<1> QED BY <1>1, Sizes

LEMMA InvalidatedFacts ==
  ASSUME NEW row \in Row, NEW t \in Tokens
  PROVE  VisitedTo(row, t, Capacity, Invalidated(row, t))
<1> DEFINE rows == CHOOSE r : r = [s \in 0..Capacity |-> IF s = 0 THEN row ELSE VisitSlot(r[s - 1], s, t)]
<1>1. Invalidated(row, t) = rows[Capacity]
  BY DEF Invalidated
<1>2. rows = [s \in 0..Capacity |-> IF s = 0 THEN row ELSE VisitSlot(rows[s - 1], s, t)]
  <2>1. PICK r : Visits(row, t, Capacity, r)
    BY VisitsExist
  <2>2. r = [s \in 0..Capacity |-> IF s = 0 THEN row ELSE VisitSlot(r[s - 1], s, t)]
    BY <2>1 DEF Visits
  <2> QED BY <2>2
<1> HIDE DEF rows
<1> DEFINE T == {n \in Nat : n <= Capacity /\ ~VisitedTo(row, t, n, rows[n])}
<1>3. T = {}
  <2> SUFFICES ASSUME T # {} PROVE FALSE
    OBVIOUS
  <2>1. PICK n \in T : \A y \in T : n <= y
    <3> HIDE DEF T
    <3>1. T \in SUBSET Nat
      BY DEF T
    <3> QED BY <3>1, LeastNatural
  <2>2. n # 0
    <3>1. rows[0] = row
      BY <1>2, Sizes
    <3>2. \A s \in Slots : ~(s <= 0)
      BY Sizes DEF Slots
    <3>3. VisitedTo(row, t, 0, row)
      BY <3>2 DEF VisitedTo
    <3> QED BY <2>1, <3>1, <3>3
  <2>3. n - 1 \in Nat /\ n - 1 \notin T /\ n \in Slots /\ n \in 0..Capacity
    BY <2>1, <2>2, Sizes DEF Slots
  <2>4. VisitedTo(row, t, n - 1, rows[n - 1])
    BY <2>1, <2>3, Sizes
  <2>5. rows[n] = VisitSlot(rows[n - 1], n, t)
    BY <1>2, <2>2, <2>3
  <2>6. VisitedTo(row, t, n, rows[n])
    BY <2>3, <2>4, <2>5, VisitSlotKeeps
  <2> QED BY <2>1, <2>6
<1> QED BY <1>1, <1>3, Sizes

\* What that means for whoever looks at the row afterwards.
LEMMA InvalidatedRow ==
  ASSUME NEW row \in Row, NEW t \in Tokens
  PROVE  LET r == Invalidated(row, t)
         IN  /\ r \in Row /\ Out(r) = Out(row)
             /\ \A s \in Slots : row[s] # Leased /\ row[s].token # t => r[s] = row[s]
             /\ \A s \in Slots : r[s] # Leased =>
                  r[s] = Free \/ (r[s] = row[s] /\ row[s].token # t) \/ WokenFrom(row, t, r[s])
<1>1. \A s \in Slots : s <= Capacity
  BY Sizes DEF Slots
<1> QED BY <1>1, InvalidatedFacts DEF VisitedTo

-----------------------------------------------------------------------------
(***************************************************************************)
(* The slots of all loaders.                                               *)
(***************************************************************************)
WithCall(S, l, s, c) == [S EXCEPT ![l][s] = c]
WithReturned(S, l, c) == [S EXCEPT ![l] = Put(@, c)]

SameBut(S, T, l, s) ==
  /\ \A x \in Slots : x # s => T[l][x] = S[l][x]
  /\ \A m \in Loaders : m # l => T[m] = S[m]

\* Slot s of loader l is taken, is given back with call c, has another call.
Taken(S, T, l, s) ==
  /\ T \in Grid /\ S[l][s] # Leased /\ T[l][s] = Leased /\ SameBut(S, T, l, s)
  /\ Out(T[l]) = Out(S[l]) + 1
Given(S, T, l, s, c) ==
  /\ T \in Grid /\ S[l][s] = Leased /\ T[l][s] = c /\ c \in CallState /\ c # Leased
  /\ SameBut(S, T, l, s)
  /\ Out(T[l]) + 1 = Out(S[l])
Replaced(S, T, l, s, c) ==
  /\ T \in Grid /\ S[l][s] # Leased /\ T[l][s] = c /\ c \in CallState /\ c # Leased
  /\ SameBut(S, T, l, s)
  /\ Out(T[l]) = Out(S[l])

LEMMA WithCallFacts ==
  ASSUME NEW S \in Grid, NEW l \in Loaders, NEW s \in Slots, NEW c \in CallState \cup {Leased},
         NEW T, T = WithCall(S, l, s, c)
  PROVE  /\ T[l] = WithSlot(S[l], s, c) /\ T[l] \in Row
         /\ \A m \in Loaders : m # l => T[m] = S[m]
         /\ T \in Grid
<1>1. S[l] \in Row
  BY DEF Grid
<1>2. WithSlot(S[l], s, c) \in Row
  BY <1>1, SlotSet DEF WithSlot
<1>3. T = [S EXCEPT ![l] = WithSlot(S[l], s, c)]
  BY DEF WithCall, WithSlot
<1> QED BY <1>2, <1>3 DEF Grid

LEMMA TakenFacts ==
  ASSUME NEW S \in Grid, NEW l \in Loaders, NEW s \in Slots, S[l][s] # Leased,
         NEW T, T = WithCall(S, l, s, Leased)
  PROVE  Taken(S, T, l, s)
<1>1. S[l] \in Row /\ Leased \in CallState \cup {Leased}
  BY DEF Grid
<1>2. /\ T[l] = WithSlot(S[l], s, Leased) /\ T \in Grid
      /\ \A m \in Loaders : m # l => T[m] = S[m]
  BY <1>1, WithCallFacts
<1>3. /\ Out(T[l]) = Out(S[l]) + 1 /\ T[l][s] = Leased
      /\ \A x \in Slots : x # s => T[l][x] = S[l][x]
  BY <1>1, <1>2, TakenOut
<1> QED BY <1>2, <1>3 DEF Taken, SameBut

LEMMA ReplacedFacts ==
  ASSUME NEW S \in Grid, NEW l \in Loaders, NEW s \in Slots, S[l][s] # Leased,
         NEW c \in CallState, NEW T, T = WithCall(S, l, s, c)
  PROVE  Replaced(S, T, l, s, c)
<1>1. S[l] \in Row /\ c \in CallState \cup {Leased}
  BY DEF Grid
<1>2. /\ T[l] = WithSlot(S[l], s, c) /\ T \in Grid
      /\ \A m \in Loaders : m # l => T[m] = S[m]
  BY <1>1, WithCallFacts
<1>3. /\ Out(T[l]) = Out(S[l]) /\ T[l][s] = c /\ c # Leased
      /\ \A x \in Slots : x # s => T[l][x] = S[l][x]
  BY <1>1, <1>2, Exchanged
<1> QED BY <1>2, <1>3 DEF Replaced, SameBut

LEMMA GivenFacts ==
  ASSUME NEW S \in Grid, NEW l \in Loaders, NEW c \in CallState, Out(S[l]) > 0,
         NEW T, T = WithReturned(S, l, c)
  PROVE  \E s \in Slots : Given(S, T, l, s, c)
<1>1. S[l] \in Row
  BY DEF Grid
<1>2. LeasedIn(S[l]) # {}
  BY OutIsCount
<1>3. PICK s \in Slots : S[l][s] = Leased /\ Put(S[l], c) = WithSlot(S[l], s, c)
  BY <1>1, <1>2, PutSlot
<1>4. T \in [Loaders -> {S[m] : m \in Loaders} \cup {Put(S[l], c)}] /\ T[l] = Put(S[l], c)
      /\ \A m \in Loaders : m # l => T[m] = S[m]
  BY DEF WithReturned, Grid
<1>5. /\ T[l] \in Row /\ Out(T[l]) + 1 = Out(S[l]) /\ T[l][s] = c /\ c # Leased
      /\ \A x \in Slots : x # s => T[l][x] = S[l][x]
  BY <1>1, <1>3, <1>4, GivenBack
<1>6. T \in Grid
  BY <1>4, <1>5 DEF Grid
<1> QED BY <1>3, <1>4, <1>5, <1>6 DEF Given, SameBut

-----------------------------------------------------------------------------
(***************************************************************************)
(* The stack of what runs.                                                 *)
(***************************************************************************)
LEMMA AmongFinite ==
  ASSUME NEW stack \in Seq(Frame), NEW X
  PROVE  IsFiniteSet(Among(stack, X)) /\ Cardinality(Among(stack, X)) \in Nat
<1>1. IsFiniteSet(1..Len(stack))
  BY FS_Interval
<1>2. Among(stack, X) \subseteq 1..Len(stack)
  BY DEF Among
<1> QED BY <1>1, <1>2, FS_Subset, FS_CardinalityType

LEMMA Pushed ==
  ASSUME NEW stack \in Seq(Frame), NEW f \in Frame, NEW X
  PROVE  LET more == Append(stack, f)
         IN  /\ more \in Seq(Frame) /\ Len(more) = Len(stack) + 1
             /\ \A i \in DOMAIN stack : more[i] = stack[i]
             /\ more[Len(more)] = f /\ Len(more) \notin DOMAIN stack
             /\ DOMAIN more = DOMAIN stack \cup {Len(more)}
             /\ Among(more, X) = Among(stack, X) \cup (IF f \in X THEN {Len(more)} ELSE {})
             /\ Cardinality(Among(more, X)) =
                  Cardinality(Among(stack, X)) + (IF f \in X THEN 1 ELSE 0)
<1> DEFINE more == Append(stack, f)
<1>1. /\ more \in Seq(Frame) /\ Len(more) = Len(stack) + 1
      /\ \A i \in DOMAIN stack : more[i] = stack[i]
      /\ more[Len(more)] = f /\ Len(more) \notin DOMAIN stack
      /\ DOMAIN more = DOMAIN stack \cup {Len(more)}
  OBVIOUS
<1> HIDE DEF more
<1>2. Among(more, X) = Among(stack, X) \cup (IF f \in X THEN {Len(more)} ELSE {})
  BY <1>1 DEF Among
<1>3. Len(more) \notin Among(stack, X)
  BY <1>1 DEF Among
<1>4. Cardinality(Among(more, X)) = Cardinality(Among(stack, X)) + (IF f \in X THEN 1 ELSE 0)
  <2>1. CASE f \in X
    BY <1>2, <1>3, <2>1, AmongFinite, FS_AddElement
  <2>2. CASE f \notin X
    BY <1>2, <2>2, AmongFinite
  <2> QED BY <2>1, <2>2
<1> QED BY <1>1, <1>2, <1>4 DEF more

LEMMA Popped ==
  ASSUME NEW stack \in Seq(Frame), stack # << >>
  PROVE  /\ Front(stack) \in Seq(Frame) /\ Last(stack) \in Frame
         /\ stack = Append(Front(stack), Last(stack))
         /\ Len(Front(stack)) = Len(stack) - 1 /\ Last(stack) = stack[Len(stack)]
         /\ \A i \in DOMAIN Front(stack) : Front(stack)[i] = stack[i]
<1> DEFINE n == Len(stack)
<1>1. n \in Nat /\ n > 0 /\ DOMAIN stack = 1..n /\ \A i \in 1..n : stack[i] \in Frame
  OBVIOUS
<1>2. /\ SubSeq(stack, 1, n - 1) \in Seq(Frame) /\ Len(SubSeq(stack, 1, n - 1)) = n - 1
      /\ \A i \in 1..n - 1 : SubSeq(stack, 1, n - 1)[i] = stack[i]
  <2>1. 1 \in Int /\ n - 1 \in Int /\ \A i \in 1..n - 1 : stack[i] \in Frame
    BY <1>1
  <2> HIDE DEF n
  <2>2. SubSeq(stack, 1, n - 1) \in Seq(Frame)
        /\ Len(SubSeq(stack, 1, n - 1)) = (IF 1 <= n - 1 THEN n - 1 - 1 + 1 ELSE 0)
        /\ \A i \in 1..n - 1 - 1 + 1 : SubSeq(stack, 1, n - 1)[i] = stack[1 + i - 1]
    BY <2>1, SubSeqProperties
  <2> QED BY <1>1, <2>2
<1>3. PICK rest \in Seq(Frame) : rest = Front(stack)
  BY <1>2 DEF Front
<1>4. Len(rest) = n - 1 /\ \A i \in 1..n - 1 : rest[i] = stack[i]
  BY <1>2, <1>3 DEF Front
<1>5. Append(rest, stack[n]) = stack
  <2>1. PICK x \in Frame : x = stack[n]
    BY <1>1
  <2>2. PICK all : all = Append(rest, x)
    OBVIOUS
  <2> HIDE DEF n
  <2>3. all \in Seq(Frame) /\ Len(all) = n
    BY <1>1, <1>4, <2>2
  <2>4. \A i \in 1..n : all[i] = stack[i]
    BY <1>1, <1>4, <2>1, <2>2
  <2>5. all = stack
    BY <1>1, <2>3, <2>4, SeqEqual DEF n
  <2> QED BY <2>1, <2>2, <2>5
<1> QED BY <1>1, <1>3, <1>4, <1>5 DEF Last

One(b) == IF b THEN 1 ELSE 0

LEMMA PushedLends ==
  ASSUME NEW stack \in Seq(Frame), NEW f \in Frame, NEW l
  PROVE  /\ LentIn(stack, l) \in Nat
         /\ LentIn(Append(stack, f), l) =
              LentIn(stack, l) + One(f \in Lenders(l)) + One(f \in Keepers(l))
BY Pushed, AmongFinite DEF LentIn, One

\* A frame that changes nothing but whether its answer is fresh or who woke it.
Alike(f, g) ==
  /\ f.op = g.op
  /\ f.op # "poll" =>
       /\ TokenOf(f) = TokenOf(g) /\ GenOf(f) = GenOf(g) /\ AgeOf(f) = AgeOf(g)
       /\ f.handle = g.handle
  /\ f.op = "call" =>
       /\ f.by = g.by /\ f.loader = g.loader /\ f.held = g.held
       /\ f.call.probe = g.call.probe

StacksAlike(stack, other) ==
  /\ other \in Seq(Frame) /\ Len(other) = Len(stack) /\ DOMAIN other = DOMAIN stack
  /\ \A i \in DOMAIN stack : Alike(stack[i], other[i])

LEMMA AlikeLends ==
  ASSUME NEW stack \in Seq(Frame), NEW other, StacksAlike(stack, other), NEW l
  PROVE  LentIn(other, l) = LentIn(stack, l)
<1>1. \A i \in DOMAIN stack : stack[i] \in Frame /\ other[i] \in Frame
  BY DEF StacksAlike
<1>2. Among(other, Lenders(l)) = Among(stack, Lenders(l))
  BY <1>1 DEF StacksAlike, Alike, Among, Lenders
<1>3. Among(other, Keepers(l)) = Among(stack, Keepers(l))
  BY <1>1 DEF StacksAlike, Alike, Among, Keepers
<1> QED BY <1>2, <1>3 DEF LentIn

LEMMA FrameKinds ==
  ASSUME NEW f \in Frame
  PROVE  /\ f.op \in {"poll", "factory", "call"}
         /\ f.op = "poll" => f \in PollFrame
         /\ f.op = "factory" => f \in FactoryFrame
         /\ f.op = "call" => f \in CallFrame
BY DEF Frame, PollFrame, FactoryFrame, CallFrame

LEMMA AgedFacts ==
  ASSUME NEW stack \in Seq(Frame)
  PROVE  /\ StacksAlike(stack, Aged(stack))
         /\ \A i \in DOMAIN stack : stack[i].op # "poll" => ~Aged(stack)[i].fresh
<1>1. ASSUME NEW i \in DOMAIN stack
      PROVE  /\ Aged(stack)[i] \in Frame /\ Alike(stack[i], Aged(stack)[i])
             /\ stack[i].op # "poll" => ~Aged(stack)[i].fresh
  <2>1. stack[i] \in Frame
    OBVIOUS
  <2>2. CASE stack[i].op = "poll"
    BY <2>1, <2>2 DEF Aged, Alike
  <2>3. CASE stack[i].op = "factory"
    <3>1. stack[i] \in FactoryFrame /\ Aged(stack)[i] = [stack[i] EXCEPT !.fresh = FALSE]
      BY <2>1, <2>3, FrameKinds DEF Aged
    <3> QED BY <3>1 DEF FactoryFrame, Frame, Alike, TokenOf, GenOf, AgeOf
  <2>4. CASE stack[i].op = "call"
    <3>1. stack[i] \in CallFrame /\ Aged(stack)[i] = [stack[i] EXCEPT !.fresh = FALSE]
      BY <2>1, <2>4, FrameKinds DEF Aged
    <3> QED BY <3>1 DEF CallFrame, Frame, Alike, TokenOf, GenOf, AgeOf
  <2> QED BY <2>1, <2>2, <2>3, <2>4, FrameKinds
<1>2. Aged(stack) \in Seq(Frame) /\ Len(Aged(stack)) = Len(stack)
      /\ DOMAIN Aged(stack) = DOMAIN stack
  <2>1. Aged(stack) = [i \in 1..Len(stack) |-> Aged(stack)[i]]
    BY DEF Aged
  <2>2. \A i \in 1..Len(stack) : Aged(stack)[i] \in Frame
    BY <1>1
  <2> QED BY <2>1, <2>2
<1> QED BY <1>1, <1>2 DEF StacksAlike

-----------------------------------------------------------------------------
(***************************************************************************)
(* What keeps the stack and the handles sound.                             *)
(***************************************************************************)
LEMMA NotNone ==
  /\ \A r \in Request : r # None
  /\ \A h \in HandleState : h # None
  /\ None \notin Tokens /\ None \notin Handles /\ None \notin Ages /\ Fallback \notin Ages
  /\ None \notin {"ok", "err"} /\ Fallback # None
<1>1. Request \subseteq [gen : Nat, load : BOOLEAN, queued : BOOLEAN, detached : BOOLEAN]
  BY Sizes DEF Request
<1>2. HandleState \subseteq [token : Tokens, shown : Nat \cup {None, Fallback}]
  BY Sizes DEF HandleState, Ages
<1>3. Ages \subseteq Nat
  BY Sizes DEF Ages
<1> QED BY <1>1, <1>2, <1>3, NamesAssumption, NobodyAssumption

\* No handle goes or changes its token.
HandlesAlike(H, K) ==
  /\ K \in [Handles -> HandleState \cup {None}]
  /\ \A h \in Handles : H[h] # None => K[h] # None /\ K[h].token = H[h].token

LEMMA OutdatedAlike ==
  ASSUME handles \in [Handles -> HandleState \cup {None}]
  PROVE  HandlesAlike(handles, Outdated)
         /\ \A h \in Handles : Outdated[h] # None => Outdated[h].shown = None
<1>1. ASSUME NEW h \in Handles
      PROVE  /\ Outdated[h] \in HandleState \cup {None}
             /\ handles[h] # None => Outdated[h] # None /\ Outdated[h].token = handles[h].token
             /\ Outdated[h] # None => Outdated[h].shown = None
  <2>1. CASE handles[h] = None
    BY <2>1 DEF Outdated
  <2>2. CASE handles[h] # None
    <3>1. handles[h] \in HandleState
      BY <2>2
    <3>2. Outdated[h] = [handles[h] EXCEPT !.shown = None]
      BY <2>2 DEF Outdated
    <3>3. Outdated[h] \in HandleState /\ Outdated[h].token = handles[h].token
          /\ Outdated[h].shown = None
      BY <3>1, <3>2 DEF HandleState
    <3> QED BY <3>3, NotNone
  <2> QED BY <2>1, <2>2
<1>2. Outdated = [h \in Handles |-> Outdated[h]]
  BY DEF Outdated
<1> QED BY <1>1, <1>2 DEF HandlesAlike

LEMMA AnswerAlike ==
  ASSUME NEW H \in [Handles -> HandleState \cup {None}], NEW h \in Handles \cup {None},
         h # None => H[h] # None, NEW v \in Ages \cup {None, Fallback}
  PROVE  /\ HandlesAlike(H, Answer(H, h, v))
         /\ \A k \in Handles : k # h => Answer(H, h, v)[k] = H[k]
         /\ h # None => Answer(H, h, v)[h].shown = v
<1>1. CASE h = None
  BY <1>1 DEF Answer, HandlesAlike
<1>2. CASE h # None
  <2>1. h \in Handles /\ H[h] \in HandleState
    BY <1>2
  <2>2. PICK state : state = [H[h] EXCEPT !.shown = v]
    OBVIOUS
  <2>3. state \in HandleState /\ state.token = H[h].token /\ state.shown = v
    BY <2>1, <2>2 DEF HandleState
  <2>4. Answer(H, h, v) = [H EXCEPT ![h] = state]
    BY <1>2, <2>2 DEF Answer
  <2>5. state # None
    BY <2>3, NotNone
  <2> QED BY <1>2, <2>1, <2>3, <2>4, <2>5 DEF HandlesAlike
<1> QED BY <1>1, <1>2

LEMMA AlikeTransitive ==
  ASSUME NEW H, NEW K, NEW L, HandlesAlike(H, K), HandlesAlike(K, L)
  PROVE  HandlesAlike(H, L)
BY DEF HandlesAlike

LEMMA FrameTypes ==
  ASSUME NEW f \in Frame
  PROVE  /\ f.op # "poll" =>
              /\ TokenOf(f) \in Tokens /\ GenOf(f) \in 1..MaxRequest /\ AgeOf(f) \in Ages
              /\ f.handle \in Handles \cup {None} /\ f.fresh \in BOOLEAN
         /\ f.op = "call" =>
              /\ f.loader \in Loaders /\ f.call \in RunningCall
              /\ f.by \in {"resolve", "probe", "slot", "queued", "next"}
              /\ f.held # << >> => /\ f.held[1].loader \in Loaders /\ f.held[1].call \in RunningCall
                                   /\ f.held = << f.held[1] >>
<1>1. CASE f.op = "poll"
  BY <1>1
<1>2. CASE f.op = "factory"
  <2>1. f \in FactoryFrame
    BY <1>2, FrameKinds
  <2> QED BY <1>2, <2>1 DEF FactoryFrame, TokenOf, GenOf, AgeOf
<1>3. CASE f.op = "call"
  <2>1. f \in CallFrame
    BY <1>3, FrameKinds
  <2>2. f.call \in RunningCall /\ f.loader \in Loaders /\ f.handle \in Handles \cup {None}
        /\ f.fresh \in BOOLEAN /\ f.by \in {"resolve", "probe", "slot", "queued", "next"}
    BY <2>1 DEF CallFrame
  <2>3. f.held # << >> => \E c \in [loader : Loaders, call : RunningCall] : f.held = <<c>>
    BY <2>1 DEF CallFrame
  <2>4. f.call.token \in Tokens /\ f.call.gen \in 1..MaxRequest /\ f.call.age \in Ages
    BY <2>2 DEF RunningCall
  <2>5. f.held # << >> => /\ f.held[1].loader \in Loaders /\ f.held[1].call \in RunningCall
                          /\ f.held = << f.held[1] >>
    BY <2>3
  <2> QED BY <1>3, <2>2, <2>4, <2>5 DEF TokenOf, GenOf, AgeOf
<1> QED BY <1>1, <1>2, <1>3, FrameKinds

LEMMA StackKept ==
  ASSUME NEW stack, NEW n \in Nat, NEW m \in Nat, NEW H, NEW K,
         StackSound(stack, n, H), n <= m, HandlesAlike(H, K)
  PROVE  StackSound(stack, m, K)
<1>1. ASSUME NEW i \in DOMAIN stack PROVE FrameSound(stack[i], i, m, K)
  <2>1. stack[i] \in Frame /\ FrameSound(stack[i], i, n, H)
    BY DEF StackSound
  <2>2. stack[i].op # "poll" => /\ GenOf(stack[i]) \in Nat
                                /\ stack[i].handle # None => stack[i].handle \in Handles
    BY <2>1, FrameTypes, Sizes
  <2> QED BY <2>1, <2>2 DEF FrameSound, HandlesAlike
<1> QED BY <1>1 DEF StackSound

LEMMA StackAlike ==
  ASSUME NEW stack, NEW other, NEW n, NEW H, StackSound(stack, n, H), StacksAlike(stack, other),
         \A i \in DOMAIN stack : other[i].op # "poll" /\ other[i].fresh => stack[i].fresh
  PROVE  StackSound(other, n, H)
<1>1. ASSUME NEW i \in DOMAIN stack PROVE FrameSound(other[i], i, n, H)
  <2>1. FrameSound(stack[i], i, n, H) /\ Alike(stack[i], other[i])
    BY DEF StackSound, StacksAlike
  <2>2. stack[i].op = "call" => CallSound(other[i])
    BY <2>1 DEF FrameSound, Alike, CallSound, GenOf
  <2> QED BY <2>1, <2>2 DEF FrameSound, Alike
<1> QED BY <1>1 DEF StackSound, StacksAlike

LEMMA StackAged ==
  ASSUME NEW stack, NEW n, NEW H, StackSound(stack, n, H)
  PROVE  StackSound(Aged(stack), n, H)
<1>1. stack \in Seq(Frame)
  BY DEF StackSound
<1>2. \A i \in DOMAIN stack : Aged(stack)[i].op # "poll" => ~Aged(stack)[i].fresh
  BY <1>1, AgedFacts DEF StacksAlike, Alike
<1> QED BY <1>1, <1>2, AgedFacts, StackAlike

LEMMA StackPushed ==
  ASSUME NEW stack, NEW n, NEW H, StackSound(stack, n, H), Len(stack) <= MaxDepth,
         NEW f \in Frame, FrameSound(f, Len(stack) + 1, n, H)
  PROVE  StackSound(Append(stack, f), n, H)
<1>1. stack \in Seq(Frame) /\ Len(stack) \in Nat
  BY DEF StackSound
<1>2. PICK more : more = Append(stack, f)
  OBVIOUS
<1>3. /\ more \in Seq(Frame) /\ Len(more) = Len(stack) + 1
      /\ \A i \in DOMAIN stack : more[i] = stack[i]
      /\ more[Len(more)] = f
      /\ DOMAIN more = DOMAIN stack \cup {Len(more)}
  BY <1>1, <1>2, Pushed
<1>4. \A i \in DOMAIN more : FrameSound(more[i], i, n, H)
  BY <1>3 DEF StackSound
<1> QED BY <1>1, <1>2, <1>3, <1>4, Sizes DEF StackSound

LEMMA StackPopped ==
  ASSUME NEW stack, NEW n, NEW H, StackSound(stack, n, H), stack # << >>
  PROVE  /\ StackSound(Front(stack), n, H)
         /\ FrameSound(Last(stack), Len(stack), n, H) /\ Last(stack) \in Frame
         /\ Len(stack) = Len(Front(stack)) + 1 /\ Len(Front(stack)) <= MaxDepth
<1>1. stack \in Seq(Frame) /\ Len(stack) \in Nat /\ Len(stack) > 0
  BY DEF StackSound
<1>2. PICK rest : rest = Front(stack)
  OBVIOUS
<1>3. /\ rest \in Seq(Frame) /\ Last(stack) \in Frame /\ Len(rest) = Len(stack) - 1
      /\ Last(stack) = stack[Len(stack)] /\ \A i \in DOMAIN rest : rest[i] = stack[i]
  BY <1>1, <1>2, Popped
<1>4. DOMAIN rest \subseteq DOMAIN stack /\ Len(stack) \in DOMAIN stack
  BY <1>1, <1>3
<1>5. \A i \in DOMAIN rest : FrameSound(rest[i], i, n, H)
  BY <1>3, <1>4 DEF StackSound
<1> QED BY <1>1, <1>2, <1>3, <1>4, <1>5, Sizes DEF StackSound

LEMMA GridKept ==
  ASSUME NEW S, NEW n \in Nat, NEW m \in Nat, n <= m, GridSound(S, n)
  PROVE  GridSound(S, m)
<1>1. ASSUME NEW l \in Loaders, NEW s \in Slots, S[l][s] # Leased PROVE S[l][s].gen <= m
  <2>1. S[l][s] \in CallState
    BY <1>1 DEF GridSound, Grid, Row
  <2> QED BY <1>1, <2>1, Sizes DEF GridSound, CallState
<1> QED BY <1>1 DEF GridSound

LEMMA GridMoves ==
  ASSUME NEW S, NEW n, GridSound(S, n), NEW T, NEW l \in Loaders, NEW s \in Slots
  PROVE  /\ Taken(S, T, l, s) => GridSound(T, n)
         /\ \A c : Given(S, T, l, s, c) /\ c.gen <= n => GridSound(T, n)
         /\ \A c : Replaced(S, T, l, s, c) /\ c.gen <= n => GridSound(T, n)
BY DEF GridSound, Taken, Given, Replaced, SameBut

\* invalidate_calls, loader by loader.
InvalidatedGrid(S, t) == [l \in Loaders |-> Invalidated(S[l], t)]

LEMMA InvalidatedGridFacts ==
  ASSUME NEW S, NEW n \in Nat, GridSound(S, n), NEW t \in Tokens, NEW T, T = InvalidatedGrid(S, t)
  PROVE  /\ GridSound(T, n) /\ \A l \in Loaders : Out(T[l]) = Out(S[l])
         /\ \A l \in Loaders, s \in Slots :
              /\ S[l][s] # Leased /\ S[l][s].token # t => T[l][s] = S[l][s]
              /\ T[l][s] # Leased =>
                   T[l][s] = Free \/ (T[l][s] = S[l][s] /\ S[l][s].token # t)
                   \/ WokenFrom(S[l], t, T[l][s])
<1>1. ASSUME NEW l \in Loaders
      PROVE  /\ T[l] \in Row /\ Out(T[l]) = Out(S[l])
             /\ \A s \in Slots : S[l][s] # Leased /\ S[l][s].token # t => T[l][s] = S[l][s]
             /\ \A s \in Slots : T[l][s] # Leased =>
                  T[l][s] = Free \/ (T[l][s] = S[l][s] /\ S[l][s].token # t)
                  \/ WokenFrom(S[l], t, T[l][s])
  <2>1. S[l] \in Row /\ T[l] = Invalidated(S[l], t)
    BY DEF GridSound, Grid, InvalidatedGrid
  <2> QED BY <2>1, InvalidatedRow
<1>2. T \in Grid
  <2>1. T = [l \in Loaders |-> T[l]]
    BY DEF InvalidatedGrid
  <2> QED BY <1>1, <2>1 DEF Grid
<1>3. ASSUME NEW l \in Loaders, NEW s \in Slots, T[l][s] # Leased PROVE T[l][s].gen <= n
  <2>1. CASE T[l][s] = Free
    BY <2>1 DEF Free
  <2>2. CASE T[l][s] = S[l][s]
    BY <1>3, <2>2 DEF GridSound
  <2>3. CASE WokenFrom(S[l], t, T[l][s])
    <3>1. PICK x \in Slots : Holds(S[l][x], t) /\ T[l][s] = Woken(S[l][x])
      BY <2>3 DEF WokenFrom
    <3>2. S[l][x] # Leased /\ S[l][x] \in CallState
      BY <3>1 DEF Holds, GridSound, Grid, Row
    <3>3. T[l][s].gen = S[l][x].gen
      BY <3>1, <3>2 DEF Woken, CallState
    <3> QED BY <3>2, <3>3 DEF GridSound
  <2> QED BY <1>1, <1>3, <2>1, <2>2, <2>3
<1> QED BY <1>1, <1>2, <1>3 DEF GridSound

-----------------------------------------------------------------------------
(***************************************************************************)
(* Types.                                                                  *)
(***************************************************************************)
LEMMA TypeInvTyped == TypeInv => TypeOK
<1> SUFFICES ASSUME TypeInv PROVE TypeOK
  OBVIOUS
<1>1. \A t \in Tokens : request[t] # None =>
        request[t] \in [gen : 1..nextRequest, load : BOOLEAN, queued : BOOLEAN, detached : BOOLEAN]
  <2> TAKE t \in Tokens
  <2> HAVE request[t] # None
  <2>1. request[t] \in Request /\ request[t].gen <= nextRequest /\ nextRequest \in Nat
    BY Sizes DEF TypeInv, RequestsSound, Basics
  <2> QED BY <2>1, Sizes DEF Request
<1>2. \A h \in Handles : handles[h] # None => handles[h] \in HandleState
  BY DEF TypeInv, Basics
<1>3. \A l \in Loaders, s \in Slots : slots[l][s] = Leased \/ slots[l][s] \in CallState
  BY DEF TypeInv, GridSound, Grid, Row
<1>4. ASSUME NEW l \in Loaders
      PROVE  Cardinality({s \in Slots : slots[l][s] = Leased}) = Lent(l)
  <2>1. \A i \in DOMAIN frames : frames[i] \in Frame
    BY DEF TypeInv, StackSound
  <2>2. Among(frames, Lenders(l)) = {i \in DOMAIN frames : frames[i].op = "call" /\ frames[i].loader = l}
    BY <2>1 DEF Among, Lenders
  <2>3. Among(frames, Keepers(l)) =
          {i \in DOMAIN frames : frames[i].op = "call" /\ frames[i].held # << >>
                                 /\ frames[i].held[1].loader = l}
    BY <2>1 DEF Among, Keepers
  <2> QED BY <2>2, <2>3 DEF Lent, LentIn, TypeInv, Balanced, Out, LeasedIn
<1> QED BY <1>1, <1>2, <1>3, <1>4 DEF TypeInv, Basics, StackSound, TypeOK, HandleState

LEMMA InitTyped == Init => TypeInv
<1> SUFFICES ASSUME Init PROVE TypeInv
  OBVIOUS
<1>1. 0 \in Ages /\ 0 \in 0..MaxRequest
  BY Sizes DEF Ages
<1>2. Basics
  BY <1>1 DEF Init, Basics
<1>3. RequestsSound(request, nextRequest)
  BY DEF Init, RequestsSound
<1>4. GridSound(slots, nextRequest)
  BY CallTypes DEF Init, GridSound, Grid, Row, Free
<1>5. StackSound(frames, nextRequest, handles)
  BY Sizes DEF Init, StackSound
<1>6. ASSUME NEW l \in Loaders PROVE Out(slots[l]) = LentIn(frames, l)
  <2>1. LeasedIn(slots[l]) = {}
    BY CallTypes, CallsAreNotLeases DEF Init, LeasedIn
  <2>2. Among(frames, Lenders(l)) = {} /\ Among(frames, Keepers(l)) = {}
    BY DEF Init, Among
  <2> QED BY <2>1, <2>2, FS_EmptySet DEF Out, LentIn
<1> QED BY <1>2, <1>3, <1>4, <1>5, <1>6 DEF TypeInv, Balanced

LEMMA Typed ==
  ASSUME TypeInv
  PROVE  /\ nextRequest \in Nat /\ nextRequest <= MaxRequest
         /\ handles \in [Handles -> HandleState \cup {None}]
         /\ request \in [Tokens -> Request \cup {None}]
         /\ \A t \in Tokens : request[t] # None =>
              /\ request[t] \in Request /\ request[t].gen \in Nat /\ request[t].gen > 0
              /\ request[t].gen <= nextRequest
         /\ value \in [Tokens -> Ages \cup {None}] /\ age \in [Tokens -> Ages]
         /\ slots \in Grid /\ frames \in Seq(Frame)
<1>1. ASSUME NEW t \in Tokens, request[t] # None
      PROVE  /\ request[t] \in Request /\ request[t].gen \in Nat /\ request[t].gen > 0
             /\ request[t].gen <= nextRequest
  <2>1. request[t] \in Request /\ request[t].gen <= nextRequest
    BY <1>1 DEF TypeInv, RequestsSound
  <2> QED BY <2>1, Sizes DEF Request
<1> QED BY <1>1, Sizes DEF TypeInv, Basics, RequestsSound, GridSound, StackSound

LEMMA WakeTyped ==
  ASSUME Basics, NEW woken, WakeManager(woken)
  PROVE  managerReady' \in BOOLEAN /\ managerLinked' \in BOOLEAN /\ hostWoken' \in BOOLEAN
BY DEF Basics, WakeManager, wake

\* The stack stays as it is, or its answers are outdated, or its top goes.
LEMMA StackStays ==
  ASSUME TypeInv, NEW n \in Nat, nextRequest <= n, NEW K, HandlesAlike(handles, K)
  PROVE  /\ StackSound(frames, n, K) /\ StackSound(Aged(frames), n, K)
         /\ \A l : LentIn(Aged(frames), l) = LentIn(frames, l)
<1>1. StackSound(frames, nextRequest, handles) /\ nextRequest \in Nat /\ frames \in Seq(Frame)
  BY Typed DEF TypeInv
<1>2. StackSound(frames, n, K)
  BY <1>1, StackKept
<1> QED BY <1>1, <1>2, StackAged, AgedFacts, AlikeLends

LEMMA StackReturns ==
  ASSUME TypeInv, frames # << >>, NEW K, HandlesAlike(handles, K)
  PROVE  /\ StackSound(Callers, nextRequest, K) /\ StackSound(Aged(Callers), nextRequest, K)
         /\ Len(Callers) <= MaxDepth
         /\ \A l : /\ LentIn(Aged(Callers), l) = LentIn(Callers, l) /\ LentIn(Callers, l) \in Nat
                   /\ LentIn(frames, l) =
                        LentIn(Callers, l) + One(Top \in Lenders(l)) + One(Top \in Keepers(l))
         /\ FrameSound(Top, Len(frames), nextRequest, handles) /\ Top \in Frame
         /\ Callers \in Seq(Frame) /\ frames = Append(Callers, Top)
<1> PICK rest : rest = Callers
  OBVIOUS
<1> PICK top : top = Top
  OBVIOUS
<1>1. StackSound(frames, nextRequest, handles) /\ nextRequest \in Nat /\ frames \in Seq(Frame)
  BY Typed DEF TypeInv
<1>2. /\ StackSound(rest, nextRequest, handles) /\ Len(rest) <= MaxDepth
      /\ FrameSound(top, Len(frames), nextRequest, handles) /\ top \in Frame
  BY <1>1, StackPopped DEF Callers, Top
<1>3. rest \in Seq(Frame) /\ frames = Append(rest, top)
  BY <1>1, Popped DEF Callers, Top
<1>4. StackSound(rest, nextRequest, K)
  BY <1>1, <1>2, StackKept
<1>5. StackSound(Aged(rest), nextRequest, K)
  BY <1>4, StackAged
<1>6. \A l : LentIn(Aged(rest), l) = LentIn(rest, l)
  BY <1>3, AgedFacts, AlikeLends
<1>7. \A l : /\ LentIn(rest, l) \in Nat
             /\ LentIn(Append(rest, top), l) =
                  LentIn(rest, l) + One(top \in Lenders(l)) + One(top \in Keepers(l))
  BY <1>2, <1>3, PushedLends
<1> QED BY <1>2, <1>3, <1>4, <1>5, <1>6, <1>7

\* Nothing happens to the slots, and what runs has the same leases.
LEMMA SlotsStay ==
  ASSUME TypeInv, nextRequest' \in 0..MaxRequest, nextRequest <= nextRequest', slots' = slots,
         StackSound(frames', nextRequest', handles'), \A l : LentIn(frames', l) = LentIn(frames, l),
         RequestsSound(request', nextRequest'), Basics'
  PROVE  TypeInv'
<1>1. GridSound(slots', nextRequest')
  BY Typed, Sizes, GridKept DEF TypeInv
<1>2. Balanced(slots', frames')
  BY DEF TypeInv, Balanced
<1> QED BY <1>1, <1>2 DEF TypeInv

\* A request is forgotten, or takes a new one's place.
WithRequest(R, t, r) == [R EXCEPT ![t] = r]

LEMMA RequestSet ==
  ASSUME NEW R, NEW n \in Nat, NEW m \in Nat, n <= m, RequestsSound(R, n), NEW t \in Tokens, NEW r,
         r = None \/ (r \in Request /\ r.gen <= m), NEW Q, Q = WithRequest(R, t, r)
  PROVE  RequestsSound(Q, m) /\ Q[t] = r /\ \A u \in Tokens : u # t => Q[u] = R[u]
<1>1. ASSUME NEW u \in Tokens, u # t, R[u] # None PROVE R[u].gen <= m
  <2>1. R[u] \in Request /\ R[u].gen <= n
    BY <1>1 DEF RequestsSound
  <2> QED BY <2>1, Sizes DEF Request
<1> QED BY <1>1 DEF RequestsSound, WithRequest


\* What the cache keeps when a value is inserted.
LEMMA InsertedFacts ==
  ASSUME value \in [Tokens -> Ages \cup {None}], NEW t \in Tokens, NEW v \in Ages,
         NEW w \in Inserted(t, v)
  PROVE  /\ w \in [Tokens -> Ages \cup {None}]
         /\ w[t] = v \/ w[t] = None
         /\ \A u \in Tokens : u # t => w[u] = value[u] \/ w[u] = None
<1> DEFINE others == {u \in Tokens \ {t} : value[u] # None}
<1>1. \/ w = [value EXCEPT ![t] = None] \/ w = [value EXCEPT ![t] = v]
      \/ \E u \in others : w = [value EXCEPT ![t] = v, ![u] = None]
  BY DEF Inserted
<1>2. CASE w = [value EXCEPT ![t] = None]
  BY <1>2
<1>3. CASE w = [value EXCEPT ![t] = v]
  BY <1>3
<1>4. ASSUME NEW u \in others, w = [value EXCEPT ![t] = v, ![u] = None]
      PROVE  /\ w \in [Tokens -> Ages \cup {None}]
             /\ w[t] = v \/ w[t] = None
             /\ \A x \in Tokens : x # t => w[x] = value[x] \/ w[x] = None
  BY <1>4
<1> QED BY <1>1, <1>2, <1>3, <1>4

LEMMA PublishTyped ==
  ASSUME Basics, NEW t \in Tokens, NEW v \in Ages, NEW h \in Handles \cup {None},
         h # None => handles[h] # None, Publish(t, v, h)
  PROVE  /\ value' \in [Tokens -> Ages \cup {None}] /\ failed' \subseteq Tokens
         /\ HandlesAlike(handles, handles')
         /\ \A k \in Handles : handles'[k] # None =>
              handles'[k].shown = None \/ (k = h /\ handles'[k].shown = v)
<1>1. HandlesAlike(handles, Outdated)
      /\ \A k \in Handles : Outdated[k] # None => Outdated[k].shown = None
  BY OutdatedAlike DEF Basics
<1>2. h # None => Outdated[h] # None
  BY <1>1 DEF HandlesAlike
<1>3. /\ HandlesAlike(Outdated, handles')
      /\ \A k \in Handles : k # h => handles'[k] = Outdated[k]
      /\ h # None => handles'[h].shown = v
  <2>1. PICK H : H = Outdated
    OBVIOUS
  <2>2. H \in [Handles -> HandleState \cup {None}] /\ (h # None => H[h] # None)
    BY <1>1, <1>2, <2>1 DEF HandlesAlike
  <2>3. handles' = Answer(H, h, v) /\ v \in Ages \cup {None, Fallback}
    BY <2>1 DEF Publish
  <2>4. /\ HandlesAlike(H, Answer(H, h, v))
        /\ \A k \in Handles : k # h => Answer(H, h, v)[k] = H[k]
        /\ h # None => Answer(H, h, v)[h].shown = v
    BY <2>2, <2>3, AnswerAlike
  <2> QED BY <2>1, <2>3, <2>4
<1>4. HandlesAlike(handles, handles')
  BY <1>1, <1>3, AlikeTransitive
<1>5. ASSUME NEW k \in Handles, handles'[k] # None
      PROVE  handles'[k].shown = None \/ (k = h /\ handles'[k].shown = v)
  BY <1>1, <1>3, <1>5, NotNone
<1> QED BY <1>4, <1>5, InsertedFacts DEF Publish, Basics

-----------------------------------------------------------------------------
(***************************************************************************)
(* Types: registration and handles.                                        *)
(***************************************************************************)
LEMMA RegisterTyped ==
  ASSUME TypeInv, NEW t \in Tokens, NEW kind \in Offered, Register(t, kind)
  PROVE  TypeInv'
<1>1. HandlesAlike(handles, handles') /\ nextRequest' = nextRequest
  BY Typed, OutdatedAlike DEF Register
<1>2. Basics'
  <2>1. age' \in [Tokens -> Ages]
    BY Typed, Sizes DEF Register, Ages
  <2>2. kind \in Kinds \cup {None}
    BY LoadersAssumption
  <2>3. managerReady' \in BOOLEAN /\ managerLinked' \in BOOLEAN /\ hostWoken' \in BOOLEAN
    BY WakeTyped DEF TypeInv, Register, Invalidate
  <2> QED BY <1>1, <2>1, <2>2, <2>3 DEF TypeInv, Basics, Register, HandlesAlike
<1>3. RequestsSound(request', nextRequest')
  <2>1. request' = WithRequest(request, t, None)
    BY DEF Register, WithRequest
  <2> QED BY <1>1, <2>1, Typed, RequestSet DEF TypeInv
<1>4. GridSound(slots', nextRequest') /\ \A l \in Loaders : Out(slots'[l]) = Out(slots[l])
  BY <1>1, Typed, InvalidatedGridFacts DEF TypeInv, Register, Invalidate, InvalidatedGrid
<1>5. StackSound(frames', nextRequest', handles') /\ \A l : LentIn(frames', l) = LentIn(frames, l)
  BY <1>1, Typed, StackStays DEF Register
<1> QED BY <1>2, <1>3, <1>4, <1>5 DEF TypeInv, Balanced

LEMMA ClearFailedTyped ==
  ASSUME TypeInv, NEW t \in Tokens, ClearFailed(t)
  PROVE  TypeInv'
<1>1. HandlesAlike(handles, handles') /\ nextRequest' = nextRequest
  BY Typed, OutdatedAlike DEF ClearFailed
<1>2. Basics'
  BY <1>1 DEF TypeInv, Basics, ClearFailed, HandlesAlike, wake
<1>3. StackSound(frames', nextRequest', handles') /\ \A l : LentIn(frames', l) = LentIn(frames, l)
  BY <1>1, Typed, StackStays DEF ClearFailed
<1>4. RequestsSound(request', nextRequest') /\ slots' = slots /\ nextRequest' \in 0..MaxRequest
  BY <1>1 DEF ClearFailed, TypeInv, Basics
<1> QED BY <1>1, <1>2, <1>3, <1>4, Typed, SlotsStay

LEMMA LoadTyped ==
  ASSUME TypeInv, NEW h \in Handles, NEW t \in Tokens, Load(h, t)
  PROVE  TypeInv'
<1> PICK state : state = [token |-> t, shown |-> None]
  OBVIOUS
<1>1. HandlesAlike(handles, handles') /\ nextRequest' = nextRequest
  <2>1. state \in HandleState
    BY DEF HandleState
  <2>2. handles' = [handles EXCEPT ![h] = state] /\ handles[h] = None
    BY DEF Load
  <2> QED BY <2>1, <2>2, Typed DEF Load, HandlesAlike
<1>2. Basics'
  BY <1>1 DEF TypeInv, Basics, Load, HandlesAlike, wake
<1>3. StackSound(frames', nextRequest', handles') /\ \A l : LentIn(frames', l) = LentIn(frames, l)
  BY <1>1, Typed, StackStays DEF Load
<1>4. RequestsSound(request', nextRequest') /\ slots' = slots /\ nextRequest' \in 0..MaxRequest
  BY <1>1 DEF Load, TypeInv, Basics
<1> QED BY <1>1, <1>2, <1>3, <1>4, Typed, SlotsStay

LEMMA CloneHandleTyped ==
  ASSUME TypeInv, NEW h \in Handles, NEW copy \in Handles, CloneHandle(h, copy)
  PROVE  TypeInv'
<1>1. HandlesAlike(handles, handles') /\ nextRequest' = nextRequest
  BY Typed DEF CloneHandle, HandlesAlike
<1>2. Basics'
  BY <1>1 DEF TypeInv, Basics, CloneHandle, HandlesAlike, wake
<1>3. StackSound(frames', nextRequest', handles') /\ \A l : LentIn(frames', l) = LentIn(frames, l)
  BY <1>1, Typed, StackStays DEF CloneHandle
<1>4. RequestsSound(request', nextRequest') /\ slots' = slots /\ nextRequest' \in 0..MaxRequest
  BY <1>1 DEF CloneHandle, TypeInv, Basics
<1> QED BY <1>1, <1>2, <1>3, <1>4, Typed, SlotsStay

LEMMA DropHandleTyped ==
  ASSUME TypeInv, NEW h \in Handles, DropHandle(h)
  PROVE  TypeInv'
<1> PICK t : t = handles[h].token
  OBVIOUS
<1>1. /\ t \in Tokens /\ nextRequest' = nextRequest /\ frames' = frames
      /\ handles' \in [Handles -> HandleState \cup {None}]
      /\ \A k \in Handles : k # h => handles'[k] = handles[k]
  BY Typed DEF DropHandle, HandleState
<1>2. /\ request' = request \/ request' = WithRequest(request, t, None)
      /\ slots' = slots \/ slots' = InvalidatedGrid(slots, t)
      /\ UNCHANGED wake \/ \E woken : WakeManager(woken)
  BY DEF DropHandle, Invalidate, InvalidatedGrid, WithRequest
<1>3. Basics'
  <2>1. managerReady' \in BOOLEAN /\ managerLinked' \in BOOLEAN /\ hostWoken' \in BOOLEAN
    BY <1>2, WakeTyped DEF TypeInv, Basics, wake
  <2> QED BY <1>1, <2>1 DEF TypeInv, Basics, DropHandle
<1>4. RequestsSound(request', nextRequest')
  BY <1>1, <1>2, Typed, RequestSet DEF TypeInv
<1>5. GridSound(slots', nextRequest') /\ \A l \in Loaders : Out(slots'[l]) = Out(slots[l])
  BY <1>1, <1>2, Typed, InvalidatedGridFacts DEF TypeInv
<1>6. StackSound(frames', nextRequest', handles')
  <2>1. \A i \in DOMAIN frames : frames[i].op # "poll" => frames[i].handle # h
    BY DEF DropHandle
  <2>2. ASSUME NEW i \in DOMAIN frames PROVE FrameSound(frames[i], i, nextRequest, handles')
    <3>1. FrameSound(frames[i], i, nextRequest, handles) /\ frames[i] \in Frame
      BY DEF TypeInv, StackSound
    <3>2. frames[i].op # "poll" => frames[i].handle \in Handles \cup {None}
      BY <3>1, FrameTypes
    <3> QED BY <1>1, <2>1, <3>1, <3>2 DEF FrameSound
  <2> QED BY <1>1, <2>2 DEF TypeInv, StackSound
<1> QED BY <1>1, <1>3, <1>4, <1>5, <1>6 DEF TypeInv, Balanced

LEMMA ReloadTyped ==
  ASSUME TypeInv, NEW t \in Tokens, Reload(t)
  PROVE  TypeInv'
<1> PICK r : r = [gen |-> nextRequest + 1, load |-> TRUE, queued |-> TRUE, detached |-> TRUE]
  OBVIOUS
<1>1. /\ HandlesAlike(handles, handles) /\ handles' = handles
      /\ nextRequest' = nextRequest + 1 /\ nextRequest + 1 \in 1..MaxRequest
  BY Typed, Sizes DEF Reload, HandlesAlike
<1>2. r \in Request /\ request' = WithRequest(request, t, r) /\ r.gen <= nextRequest'
  BY <1>1 DEF Request, Reload, WithRequest
<1>3. RequestsSound(request', nextRequest')
  BY <1>1, <1>2, Typed, RequestSet DEF TypeInv
<1>4. Basics'
  <2>1. age' \in [Tokens -> Ages]
    BY Typed, Sizes DEF Reload, Ages
  <2>2. managerReady' \in BOOLEAN /\ managerLinked' \in BOOLEAN /\ hostWoken' \in BOOLEAN
    BY WakeTyped DEF TypeInv, Reload
  <2>3. nextRequest' \in 0..MaxRequest
    BY <1>1, Sizes
  <2> QED BY <2>1, <2>2, <2>3 DEF TypeInv, Basics, Reload
<1>5. GridSound(slots', nextRequest) /\ \A l \in Loaders : Out(slots'[l]) = Out(slots[l])
  BY <1>1, Typed, InvalidatedGridFacts DEF TypeInv, Reload, InvalidatedGrid
<1>6. GridSound(slots', nextRequest')
  BY <1>1, <1>5, Typed, Sizes, GridKept
<1>7. frames' = frames /\ StackSound(frames', nextRequest', handles')
  BY <1>1, Typed, Sizes, StackStays DEF Reload
<1> QED BY <1>3, <1>4, <1>5, <1>6, <1>7 DEF TypeInv, Balanced
-----------------------------------------------------------------------------
(***************************************************************************)
(* Calls and answers.                                                      *)
(***************************************************************************)
LEMMA CallIsFrame ==
  ASSUME NEW by \in {"resolve", "probe", "slot", "queued", "next"}, NEW c \in RunningCall,
         NEW l \in Loaders, NEW h \in Handles \cup {None}, NEW fresh \in BOOLEAN,
         NEW held \in {<< >>} \cup {<<d>> : d \in [loader : Loaders, call : RunningCall]},
         NEW f, f = Call(by, c, l, h, fresh, held)
  PROVE  /\ f \in Frame /\ f.op = "call" /\ f.by = by /\ f.call = c /\ f.loader = l
         /\ f.handle = h /\ f.fresh = fresh /\ f.held = held
         /\ TokenOf(f) = c.token /\ GenOf(f) = c.gen /\ AgeOf(f) = c.age
<1>1. /\ f.op = "call" /\ f.by = by /\ f.call = c /\ f.loader = l
      /\ f.handle = h /\ f.fresh = fresh /\ f.held = held
  BY DEF Call
<1>2. f \in CallFrame
  BY DEF Call, CallFrame
<1> QED BY <1>1, <1>2 DEF Frame, TokenOf, GenOf, AgeOf

LEMMA LeaseFacts ==
  ASSUME age \in [Tokens -> Ages], NEW t \in Tokens, NEW g \in 1..MaxRequest,
         NEW probe \in BOOLEAN, NEW c, c = Lease(t, g, probe)
  PROVE  /\ c \in RunningCall /\ c.token = t /\ c.gen = g /\ c.age = age[t] /\ c.probe = probe
         /\ ~c.ready /\ c.linked
BY DEF Lease, Free, RunningCall

LEMMA TargetIs ==
  ASSUME TypeInv, NEW t \in Tokens, NEW g, NEW probe, NEW target,
         target = Target(slots, t, g, probe, 1), target # << >>
  PROVE  \E l \in Loaders, s \in Slots :
           /\ target = <<l, s>> /\ slots[l][s] \in CallState /\ slots[l][s] # Leased
           /\ Waits(slots[l][s]) => slots[l][s].token = t /\ slots[l][s].gen = g
BY Typed, TargetFacts DEF Grid

\* A loader is called: what runs so far has the leases that are out, but for the
\* one that the new call holds back.
LEMMA CallMade ==
  ASSUME NEW S, NEW n, GridSound(S, n), NEW stack, NEW H, StackSound(stack, n, H),
         Len(stack) <= MaxDepth, NEW l \in Loaders, NEW s \in Slots, S[l][s] # Leased,
         NEW f \in Frame, f.op = "call", f.loader = l, FrameSound(f, Len(stack) + 1, n, H),
         \A m \in Loaders : Out(S[m]) = LentIn(stack, m) + One(f \in Keepers(m)),
         NEW T, T = WithCall(S, l, s, Leased)
  PROVE  /\ StackSound(Append(stack, f), n, H) /\ GridSound(T, n)
         /\ Balanced(T, Append(stack, f)) /\ Taken(S, T, l, s)
<1>1. StackSound(Append(stack, f), n, H)
  BY StackPushed
<1>2. Taken(S, T, l, s) /\ GridSound(T, n)
  <2>1. Taken(S, T, l, s)
    BY TakenFacts DEF GridSound
  <2> QED BY <2>1, GridMoves
<1>3. ASSUME NEW m \in Loaders PROVE Out(T[m]) = LentIn(Append(stack, f), m)
  <2>1. LentIn(Append(stack, f), m) = LentIn(stack, m) + One(f \in Lenders(m)) + One(f \in Keepers(m))
        /\ LentIn(stack, m) \in Nat
    BY PushedLends DEF StackSound
  <2>2. f \in Lenders(m) <=> m = l
    BY DEF Lenders
  <2>3. Out(T[m]) = Out(S[m]) + One(m = l)
    <3>1. CASE m = l
      BY <1>2, <3>1 DEF Taken, One
    <3>2. CASE m # l
      BY <1>2, <3>2, OutIsCount DEF Taken, SameBut, One
    <3> QED BY <3>1, <3>2
  <2> QED BY <2>1, <2>2, <2>3 DEF One
<1> QED BY <1>1, <1>2, <1>3 DEF Balanced

LEMMA FirstCallMade ==
  ASSUME NEW S, NEW n, GridSound(S, n), NEW stack, NEW H, StackSound(stack, n, H),
         Balanced(S, stack),
         Len(stack) <= MaxDepth, NEW l \in Loaders, NEW s \in Slots, S[l][s] # Leased,
         NEW f \in Frame, f.op = "call", f.loader = l, f.held = << >>,
         FrameSound(f, Len(stack) + 1, n, H),
         NEW T, T = WithCall(S, l, s, Leased)
  PROVE  /\ StackSound(Append(stack, f), n, H) /\ GridSound(T, n)
         /\ Balanced(T, Append(stack, f)) /\ Taken(S, T, l, s)
<1>1. ASSUME NEW m \in Loaders PROVE Out(S[m]) = LentIn(stack, m) + One(f \in Keepers(m))
  <2>1. ~(f \in Keepers(m))
    BY DEF Keepers
  <2> QED BY <2>1, PushedLends DEF Balanced, One, StackSound
<1> QED BY <1>1, CallMade

-----------------------------------------------------------------------------
(***************************************************************************)
(* Types: resolve.                                                         *)
(***************************************************************************)
\* The handle that asks for a token, if any.
Asks(h, t) == h # None => h \in Handles /\ handles[h] # None /\ handles[h].token = t

LEMMA AnsweredTyped ==
  ASSUME TypeInv, NEW t, NEW h, Asks(h, t), NEW v \in Ages \cup {None, Fallback},
         handles' = Answer(handles, h, v)
  PROVE  HandlesAlike(handles, handles')
BY Typed, AnswerAlike DEF Asks

LEMMA ResolveAtOnceTyped ==
  ASSUME TypeInv, NEW t \in Tokens, NEW h, Asks(h, t), ResolveAtOnce(t, h)
  PROVE  TypeInv'
<1>1. HandlesAlike(handles, handles') /\ nextRequest' = nextRequest
  BY Typed, AnsweredTyped DEF ResolveAtOnce
<1>2. Basics'
  BY <1>1 DEF TypeInv, Basics, ResolveAtOnce, HandlesAlike, wake
<1>3. StackSound(frames', nextRequest', handles') /\ \A l : LentIn(frames', l) = LentIn(frames, l)
  BY <1>1, Typed, StackStays DEF ResolveAtOnce
<1>4. RequestsSound(request', nextRequest') /\ slots' = slots /\ nextRequest' \in 0..MaxRequest
  BY <1>1 DEF ResolveAtOnce, TypeInv, Basics
<1> QED BY <1>1, <1>2, <1>3, <1>4, Typed, SlotsStay

LEMMA ResolveStaticTyped ==
  ASSUME TypeInv, NEW t \in Tokens, NEW h, Asks(h, t), ResolveStatic(t, h)
  PROVE  TypeInv'
<1>1. /\ value' \in [Tokens -> Ages \cup {None}] /\ failed' \subseteq Tokens
      /\ HandlesAlike(handles, handles') /\ nextRequest' = nextRequest
  BY Typed, PublishTyped DEF ResolveStatic, Asks, TypeInv
<1>2. Basics'
  BY <1>1 DEF TypeInv, Basics, ResolveStatic, HandlesAlike, wake
<1>3. StackSound(frames', nextRequest', handles') /\ \A l : LentIn(frames', l) = LentIn(frames, l)
  BY <1>1, Typed, StackStays DEF ResolveStatic
<1>4. RequestsSound(request', nextRequest') /\ slots' = slots /\ nextRequest' \in 0..MaxRequest
  BY <1>1 DEF ResolveStatic, TypeInv, Basics
<1> QED BY <1>1, <1>2, <1>3, <1>4, Typed, SlotsStay

\* More is wanted of a request than before: a load, or detached work.
LEMMA Wanted ==
  ASSUME TypeInv, NEW t \in Tokens, request[t] # None, NEW r \in Request,
         r.gen = request[t].gen, NEW Q, Q = WithRequest(request, t, r)
  PROVE  RequestsSound(Q, nextRequest) /\ Q[t] = r /\ r # None
         /\ \A u \in Tokens : u # t => Q[u] = request[u]
<1>1. r.gen <= nextRequest /\ nextRequest \in Nat /\ RequestsSound(request, nextRequest)
  BY Typed DEF TypeInv
<1>2. RequestsSound(Q, nextRequest) /\ Q[t] = r /\ \A u \in Tokens : u # t => Q[u] = request[u]
  BY <1>1, RequestSet
<1> QED BY <1>2, NotNone

\* A request asks for at least as much, and is otherwise the one it was.
Wants(q, r) == r.gen = q.gen /\ r.queued = q.queued /\ (q.load => r.load) /\ (q.detached => r.detached)

LEMMA Joined ==
  ASSUME TypeInv, NEW t \in Tokens, request[t] # None, NEW detached \in BOOLEAN
  PROVE  /\ \E r \in Request : /\ Wants(request[t], r) /\ r.load
                               /\ [request EXCEPT ![t].detached = @ \/ detached, ![t].load = TRUE] =
                                    WithRequest(request, t, r)
         /\ \E r \in Request : /\ Wants(request[t], r)
                               /\ [request EXCEPT ![t].detached = @ \/ detached] =
                                    WithRequest(request, t, r)
<1>1. request[t] \in Request /\ request \in [Tokens -> Request \cup {None}]
  BY Typed
<1>2. PICK r : r = [request[t] EXCEPT !.detached = @ \/ detached, !.load = TRUE]
  OBVIOUS
<1>3. r \in Request /\ Wants(request[t], r) /\ r.load
  BY <1>1, <1>2 DEF Request, Wants
<1>4. [request EXCEPT ![t].detached = @ \/ detached, ![t].load = TRUE] = WithRequest(request, t, r)
  BY <1>1, <1>2 DEF WithRequest
<1>5. PICK q : q = [request[t] EXCEPT !.detached = @ \/ detached]
  OBVIOUS
<1>6. q \in Request /\ Wants(request[t], q)
  BY <1>1, <1>5 DEF Request, Wants
<1>7. [request EXCEPT ![t].detached = @ \/ detached] = WithRequest(request, t, q)
  BY <1>1, <1>5 DEF WithRequest
<1> QED BY <1>3, <1>4, <1>6, <1>7

LEMMA ResolveJoinTyped ==
  ASSUME TypeInv, NEW t \in Tokens, NEW detached \in BOOLEAN, NEW h, Asks(h, t),
         ResolveJoin(t, detached, h)
  PROVE  TypeInv'
<1>1. HandlesAlike(handles, handles') /\ nextRequest' = nextRequest
  BY Typed, AnsweredTyped DEF ResolveJoin
<1>2. Basics'
  BY <1>1 DEF TypeInv, Basics, ResolveJoin, HandlesAlike, wake
<1>3. StackSound(frames', nextRequest', handles') /\ \A l : LentIn(frames', l) = LentIn(frames, l)
  BY <1>1, Typed, StackStays DEF ResolveJoin
<1>4. PICK r \in Request : Wants(request[t], r) /\ request' = WithRequest(request, t, r)
  BY Joined DEF ResolveJoin
<1>5. RequestsSound(request', nextRequest)
  <2>1. request[t] # None /\ r.gen = request[t].gen
    BY <1>4 DEF ResolveJoin, Wants
  <2> QED BY <1>4, <2>1, Wanted
<1>6. slots' = slots /\ nextRequest' \in 0..MaxRequest
  BY <1>1 DEF ResolveJoin, TypeInv, Basics
<1> QED BY <1>1, <1>2, <1>3, <1>5, <1>6, Typed, SlotsStay

LEMMA BeginFacts ==
  ASSUME TypeInv, NEW t \in Tokens, NEW load \in BOOLEAN, NEW detached \in BOOLEAN,
         Begin(t, load, detached)
  PROVE  /\ nextRequest' = nextRequest + 1 /\ nextRequest' \in 1..MaxRequest
         /\ nextRequest \in Nat /\ nextRequest <= nextRequest' /\ nextRequest' \in Nat
         /\ request[t] = None /\ request' = WithRequest(request, t, request'[t])
         /\ request'[t] \in Request /\ request'[t].gen = nextRequest + 1
         /\ request'[t].load = load /\ ~request'[t].queued
         /\ \A u \in Tokens : u # t => request'[u] = request[u]
         /\ RequestsSound(request', nextRequest')
         /\ GridSound(slots, nextRequest') /\ StackSound(frames, nextRequest', handles)
<1>1. PICK r : r = [gen |-> nextRequest + 1, load |-> load, queued |-> FALSE, detached |-> detached]
  OBVIOUS
<1>2. /\ nextRequest' = nextRequest + 1 /\ nextRequest' \in 1..MaxRequest
      /\ nextRequest \in Nat /\ nextRequest <= nextRequest' /\ nextRequest' \in Nat
  BY Typed, Sizes DEF Begin
<1>3. r \in Request /\ r.gen = nextRequest + 1 /\ r.load = load /\ ~r.queued
  BY <1>1, <1>2 DEF Request
<1>4. request' = WithRequest(request, t, r) /\ request[t] = None
  BY <1>1 DEF Begin, WithRequest
<1>5. /\ request'[t] = r /\ \A u \in Tokens : u # t => request'[u] = request[u]
      /\ RequestsSound(request', nextRequest')
  BY <1>2, <1>3, <1>4, RequestSet DEF TypeInv
<1>6. GridSound(slots, nextRequest')
  BY <1>2, GridKept DEF TypeInv
<1>7. StackSound(frames, nextRequest', handles)
  BY <1>2, StackStays, Typed DEF HandlesAlike
<1> QED BY <1>2, <1>3, <1>4, <1>5, <1>6, <1>7

LEMMA ResolveFactoryTyped ==
  ASSUME TypeInv, NEW t \in Tokens, NEW detached \in BOOLEAN, NEW h, Asks(h, t),
         ResolveFactory(t, detached, h)
  PROVE  TypeInv'
<1>0. PICK fresh \in BOOLEAN : fresh <=> h # None
  OBVIOUS
<1>1. PICK f : f = [op |-> "factory", token |-> t, gen |-> nextRequest + 1, age |-> age[t],
                    handle |-> h, fresh |-> fresh]
  OBVIOUS
<1>2. Begin(t, TRUE, detached) /\ frames' = Append(frames, f) /\ handles' = handles
  <2>1. fresh = (h # None)
    BY <1>0
  <2> QED BY <1>1, <2>1 DEF ResolveFactory
<1>3. /\ nextRequest' = nextRequest + 1 /\ nextRequest' \in 1..MaxRequest
      /\ RequestsSound(request', nextRequest')
      /\ GridSound(slots, nextRequest') /\ StackSound(frames, nextRequest', handles)
      /\ nextRequest' \in Nat
  BY <1>2, BeginFacts
<1>4. f \in FactoryFrame /\ f.op = "factory"
  <2>1. h \in Handles \cup {None}
    BY DEF Asks
  <2> QED BY <1>1, <1>3, <2>1, Typed DEF FactoryFrame
<1>5. FrameSound(f, Len(frames) + 1, nextRequest', handles)
  <2>1. /\ f.op = "factory" /\ f.token = t /\ f.gen = nextRequest' /\ f.handle = h
        /\ f.fresh <=> h # None
    BY <1>0, <1>1, <1>3
  <2> QED BY <1>3, <2>1 DEF FrameSound, Asks, TokenOf, GenOf
<1>6. f \in Frame /\ Len(frames) <= MaxDepth
  BY <1>4, Typed, Sizes DEF Frame, ResolveFactory, MayCall
<1>7. StackSound(frames', nextRequest', handles')
  BY <1>2, <1>3, <1>5, <1>6, StackPushed
<1>8. ASSUME NEW l \in Loaders PROVE LentIn(frames', l) = LentIn(frames, l)
  <2>1. ~(f \in Lenders(l)) /\ ~(f \in Keepers(l))
    BY <1>4 DEF Lenders, Keepers
  <2> QED BY <1>2, <1>6, <2>1, Typed, PushedLends DEF One
<1>9. slots' = slots /\ Basics'
  BY <1>3, Sizes DEF ResolveFactory, TypeInv, Basics, wake
<1> QED BY <1>3, <1>7, <1>8, <1>9 DEF TypeInv, Balanced

\* The loader that serves a new request is called.
Chained(t, by, h, l, s, f) ==
  /\ Taken(slots, slots', l, s)
  /\ Waits(slots[l][s]) => slots[l][s].token = t /\ slots[l][s].gen = nextRequest'
  /\ f \in Frame /\ f.op = "call" /\ f.by = by /\ f.handle = h
  /\ TokenOf(f) = t /\ GenOf(f) = nextRequest' /\ AgeOf(f) = age[t]
  /\ ~f.call.ready /\ f.call.linked /\ frames' = Append(frames, f)

\* What the two ways of asking the chain have in common: h asks with load or only
\* probes, and slot s of loader l is the target.
Asking(t, by, h, probe, fresh, load, detached, l, s, f) ==
  /\ by \in {"resolve", "probe"} /\ (by = "probe" => h = None) /\ (probe = TRUE <=> by = "probe")
  /\ probe \in BOOLEAN /\ load \in BOOLEAN /\ fresh \in BOOLEAN /\ (fresh = TRUE => h # None)
  /\ Begin(t, load, detached) /\ Len(frames) < MaxDepth
  /\ l \in Loaders /\ s \in Slots
  /\ Target(slots, t, nextRequest + 1, probe, 1) = <<l, s>>
  /\ slots' = WithCall(slots, l, s, Leased)
  /\ f = Call(by, Lease(t, nextRequest + 1, probe), l, h, fresh, << >>)
  /\ frames' = Append(frames, f) /\ handles' = handles

LEMMA ChainTyped ==
  ASSUME TypeInv, NEW t \in Tokens, NEW h, Asks(h, t), NEW detached \in BOOLEAN, NEW probe,
         NEW by, NEW load, NEW fresh, NEW l, NEW s, NEW f,
         Asking(t, by, h, probe, fresh, load, detached, l, s, f), Basics'
  PROVE  TypeInv' /\ Chained(t, by, h, l, s, f)
<1>a. /\ by \in {"resolve", "probe"} /\ (by = "probe" => h = None) /\ (probe = TRUE <=> by = "probe")
      /\ probe \in BOOLEAN /\ load \in BOOLEAN /\ fresh \in BOOLEAN /\ (fresh = TRUE => h # None)
      /\ Begin(t, load, detached) /\ Len(frames) < MaxDepth
      /\ l \in Loaders /\ s \in Slots
      /\ Target(slots, t, nextRequest + 1, probe, 1) = <<l, s>>
      /\ slots' = WithCall(slots, l, s, Leased)
      /\ frames' = Append(frames, f) /\ handles' = handles
  BY DEF Asking
<1>b. PICK c : c = Lease(t, nextRequest + 1, probe)
  OBVIOUS
<1>c. f = Call(by, c, l, h, fresh, << >>)
  BY <1>b DEF Asking
<1>1. /\ nextRequest' = nextRequest + 1 /\ nextRequest' \in 1..MaxRequest
      /\ RequestsSound(request', nextRequest')
      /\ GridSound(slots, nextRequest') /\ StackSound(frames, nextRequest', handles)
      /\ nextRequest' \in Nat
  BY <1>a, BeginFacts
<1>2. /\ c \in RunningCall /\ c.token = t /\ c.gen = nextRequest' /\ c.probe = probe
      /\ c.age = age[t] /\ ~c.ready /\ c.linked
  <2>1. PICK g : g = nextRequest + 1
    OBVIOUS
  <2>2. g \in 1..MaxRequest /\ c = Lease(t, g, probe) /\ g = nextRequest'
    BY <1>1, <1>b, <2>1
  <2>3. c \in RunningCall /\ c.token = t /\ c.gen = g /\ c.age = age[t] /\ c.probe = probe
        /\ ~c.ready /\ c.linked
    BY <1>a, <2>2, Typed, LeaseFacts
  <2> QED BY <2>2, <2>3
<1>3. /\ slots[l][s] # Leased
      /\ Waits(slots[l][s]) => slots[l][s].token = t /\ slots[l][s].gen = nextRequest'
  <2>1. PICK g : g = nextRequest + 1
    OBVIOUS
  <2>2. Target(slots, t, g, probe, 1) # << >> /\ Target(slots, t, g, probe, 1) = <<l, s>>
    <3>1. Target(slots, t, g, probe, 1) = <<l, s>>
      BY <1>a, <2>1
    <3>2. <<l, s>> # << >>
      OBVIOUS
    <3> QED BY <3>1, <3>2
  <2>3. \E k \in Loaders, x \in Slots :
           /\ <<l, s>> = <<k, x>> /\ slots[k][x] # Leased
           /\ Waits(slots[k][x]) => slots[k][x].token = t /\ slots[k][x].gen = g
    <3>1. slots \in [Loaders -> Row] /\ 1 \in Nat /\ 1 > 0
      BY Typed DEF Grid
    <3>2. \E k \in Loaders, x \in Slots :
             /\ Target(slots, t, g, probe, 1) = <<k, x>> /\ slots[k][x] # Leased
             /\ Waits(slots[k][x]) => slots[k][x].token = t /\ slots[k][x].gen = g
      BY <1>a, <2>2, <3>1, TargetFacts
    <3> QED BY <2>2, <3>2
  <2>4. /\ slots[l][s] # Leased
        /\ Waits(slots[l][s]) => slots[l][s].token = t /\ slots[l][s].gen = g
    BY <2>3
  <2> QED BY <1>1, <2>1, <2>4
<1>4. /\ f \in Frame /\ f.op = "call" /\ f.by = by /\ f.call = c /\ f.loader = l
      /\ f.handle = h /\ f.fresh = fresh /\ f.held = << >>
      /\ TokenOf(f) = t /\ GenOf(f) = nextRequest' /\ AgeOf(f) = age[t]
  <2>1. h \in Handles \cup {None}
    BY DEF Asks
  <2>2. by \in {"resolve", "probe", "slot", "queued", "next"}
    BY <1>a
  <2>3. c \in RunningCall
    BY <1>2
  <2>4. /\ f \in Frame /\ f.op = "call" /\ f.by = by /\ f.call = c /\ f.loader = l
        /\ f.handle = h /\ f.fresh = fresh /\ f.held = << >>
        /\ TokenOf(f) = c.token /\ GenOf(f) = c.gen /\ AgeOf(f) = c.age
    BY <1>a, <1>c, <2>1, <2>2, <2>3, CallIsFrame
  <2> QED BY <1>2, <2>4
<1>5. FrameSound(f, Len(frames) + 1, nextRequest', handles)
  <2>1. CallSound(f)
    BY <1>2, <1>4, <1>a DEF CallSound
  <2> QED BY <1>1, <1>4, <1>a, <2>1 DEF FrameSound, Asks
<1>6. Len(frames) <= MaxDepth
  BY <1>a, Typed, Sizes
<1>7. /\ StackSound(frames', nextRequest', handles') /\ GridSound(slots', nextRequest')
      /\ Balanced(slots', frames') /\ Taken(slots, slots', l, s)
  <2>1. Balanced(slots, frames) /\ l \in Loaders /\ s \in Slots /\ slots' = WithCall(slots, l, s, Leased)
    BY <1>a DEF TypeInv
  <2>2. /\ StackSound(Append(frames, f), nextRequest', handles) /\ GridSound(slots', nextRequest')
        /\ Balanced(slots', Append(frames, f)) /\ Taken(slots, slots', l, s)
    BY <1>1, <1>3, <1>4, <1>5, <1>6, <2>1, FirstCallMade
  <2> QED BY <1>a, <2>2
<1> QED BY <1>1, <1>2, <1>3, <1>4, <1>7, <1>a DEF TypeInv, Chained

LEMMA ResolveChainTyped ==
  ASSUME TypeInv, NEW t \in Tokens, NEW detached \in BOOLEAN, NEW h, Asks(h, t),
         ResolveChain(t, detached, h)
  PROVE  TypeInv' /\ Begin(t, TRUE, detached)
         /\ \E l \in Loaders, s \in Slots : \E f : Chained(t, "resolve", h, l, s, f)
<1>1. nextRequest' \in 1..MaxRequest
  BY BeginFacts DEF ResolveChain
<1>2. Basics'
  BY <1>1, Sizes DEF ResolveChain, TypeInv, Basics, wake
<1>0. PICK probe \in BOOLEAN : probe = FALSE
  OBVIOUS
<1>3. PICK target : target = Target(slots, t, nextRequest + 1, probe, 1)
  OBVIOUS
<1>4. PICK fresh \in BOOLEAN : fresh = (h # None)
  OBVIOUS
<1>5. PICK c : c = Lease(t, nextRequest + 1, probe)
  OBVIOUS
<1>6. /\ target # << >> /\ slots' = [slots EXCEPT ![target[1]][target[2]] = Leased]
      /\ frames' = Append(frames, Call("resolve", c, target[1], h, fresh, << >>))
  BY <1>0, <1>3, <1>4, <1>5 DEF ResolveChain
<1>7. PICK l \in Loaders, s \in Slots : target = <<l, s>>
  BY <1>3, <1>6, TargetIs
<1>8. PICK f : f = Call("resolve", c, l, h, fresh, << >>)
  OBVIOUS
<1>9. frames' = Append(frames, f) /\ slots' = WithCall(slots, l, s, Leased)
  BY <1>6, <1>7, <1>8 DEF WithCall
<1>10. Begin(t, TRUE, detached) /\ Len(frames) < MaxDepth /\ handles' = handles
  BY DEF ResolveChain, MayCall
<1>17. PICK by : by = "resolve"
  OBVIOUS
<1>18. PICK yes \in BOOLEAN : yes = TRUE
  OBVIOUS
<1>11. yes = TRUE /\ by = "resolve"
  BY <1>17, <1>18
<1>12. Begin(t, yes, detached)
  BY <1>10, <1>11
<1>13. Target(slots, t, nextRequest + 1, probe, 1) = <<l, s>>
  BY <1>3, <1>7
<1>14. Asking(t, by, h, probe, fresh, yes, detached, l, s, f)
  BY <1>0, <1>4, <1>5, <1>7, <1>8, <1>9, <1>10, <1>11, <1>12, <1>13 DEF Asking
<1>15. TypeInv' /\ Chained(t, by, h, l, s, f)
  BY <1>2, <1>14, ChainTyped
<1>16. TypeInv' /\ Chained(t, "resolve", h, l, s, f)
  BY <1>11, <1>15
<1> QED BY <1>7, <1>10, <1>16

LEMMA ResolveUnservedTyped ==
  ASSUME TypeInv, NEW t \in Tokens, NEW h, Asks(h, t), ResolveUnserved(t, h)
  PROVE  TypeInv'
<1>1. /\ HandlesAlike(handles, handles') /\ nextRequest' = nextRequest + 1
      /\ nextRequest' \in 0..MaxRequest /\ nextRequest <= nextRequest' /\ nextRequest' \in Nat
  BY Typed, AnsweredTyped, Sizes DEF ResolveUnserved
<1>2. Basics'
  BY <1>1 DEF TypeInv, Basics, ResolveUnserved, HandlesAlike, wake
<1>3. StackSound(frames', nextRequest', handles') /\ \A l : LentIn(frames', l) = LentIn(frames, l)
  BY <1>1, Typed, StackStays DEF ResolveUnserved
<1>4. RequestsSound(request', nextRequest') /\ slots' = slots
  BY <1>1, Typed DEF ResolveUnserved, TypeInv, RequestsSound
<1> QED BY <1>1, <1>2, <1>3, <1>4, Typed, SlotsStay

LEMMA ResolveTyped ==
  ASSUME TypeInv, NEW t \in Tokens, NEW detached \in BOOLEAN, NEW h, Asks(h, t),
         Resolve(t, detached, h)
  PROVE  TypeInv'
BY ResolveAtOnceTyped, ResolveStaticTyped, ResolveJoinTyped, ResolveFactoryTyped,
   ResolveChainTyped, ResolveUnservedTyped DEF Resolve

-----------------------------------------------------------------------------
(***************************************************************************)
(* Types: factories and probe.                                             *)
(***************************************************************************)
LEMMA AnswerForAlike ==
  ASSUME TypeInv, frames # << >>, NEW f, f = Top, f.op # "poll",
         NEW v \in Ages \cup {None, Fallback}, handles' = AnswerFor(f, v)
  PROVE  /\ HandlesAlike(handles, handles')
         /\ \A k \in Handles : k # f.handle => handles'[k] = handles[k]
         /\ f.handle # None => handles'[f.handle].shown = IF f.fresh THEN v ELSE None
<1>1. FrameSound(f, Len(frames), nextRequest, handles) /\ f \in Frame
  BY StackPopped DEF TypeInv, Top
<1>2. f.handle \in Handles \cup {None} /\ (f.handle # None => handles[f.handle] # None)
  BY <1>1, FrameTypes DEF FrameSound
<1>3. PICK w : w = IF f.fresh THEN v ELSE None
  OBVIOUS
<1>4. w \in Ages \cup {None, Fallback} /\ handles' = Answer(handles, f.handle, w)
  BY <1>3 DEF AnswerFor
<1>5. PICK h : h = f.handle
  OBVIOUS
<1>6. /\ HandlesAlike(handles, handles')
      /\ \A k \in Handles : k # h => handles'[k] = handles[k]
      /\ h # None => handles'[h].shown = w
  <2>1. h \in Handles \cup {None} /\ (h # None => handles[h] # None)
    BY <1>2, <1>5
  <2>2. PICK H : H = Answer(handles, h, w)
    OBVIOUS
  <2>3. /\ HandlesAlike(handles, H)
        /\ \A k \in Handles : k # h => H[k] = handles[k]
        /\ h # None => H[h].shown = w
    <3>1. handles \in [Handles -> HandleState \cup {None}] /\ w \in Ages \cup {None, Fallback}
      BY <1>4, Typed
    <3>2. /\ HandlesAlike(handles, Answer(handles, h, w))
          /\ \A k \in Handles : k # h => Answer(handles, h, w)[k] = handles[k]
          /\ h # None => Answer(handles, h, w)[h].shown = w
      BY <2>1, <3>1, AnswerAlike
    <3> QED BY <2>2, <3>2
  <2> QED BY <1>4, <1>5, <2>2, <2>3
<1> QED BY <1>3, <1>5, <1>6

LEMMA FactoryReturnsTyped ==
  ASSUME TypeInv, NEW ok \in BOOLEAN, FactoryReturns(ok)
  PROVE  TypeInv'
<1>1. PICK f : f = Top
  OBVIOUS
<1>2. PICK t : t = f.token
  OBVIOUS
<1>3. /\ frames # << >> /\ f.op = "factory"
      /\ slots' = slots /\ nextRequest' = nextRequest
      /\ entry' = entry /\ age' = age /\ UNCHANGED wake
  BY <1>1 DEF FactoryReturns
<1>4. FrameSound(f, Len(frames), nextRequest, handles) /\ f \in Frame
  BY <1>1, <1>3, StackPopped DEF TypeInv, Top
<1>5. /\ t \in Tokens /\ f.age \in Ages /\ f.handle \in Handles \cup {None}
      /\ f.handle # None => handles[f.handle] # None
  BY <1>2, <1>3, <1>4, FrameTypes DEF FrameSound, TokenOf, AgeOf
<1>6. \A l : ~(f \in Lenders(l)) /\ ~(f \in Keepers(l))
  BY <1>3 DEF Lenders, Keepers
<1>7. value[t] \in Ages \cup {None, Fallback} /\ Fallback \in Ages \cup {None, Fallback}
  BY <1>5, Typed
<1>8. /\ HandlesAlike(handles, handles') /\ value' \in [Tokens -> Ages \cup {None}]
      /\ failed' \subseteq Tokens /\ RequestsSound(request', nextRequest)
      /\ frames' = Callers \/ frames' = Aged(Callers)
  <2>1. CASE ~Current(t, f.gen)
    <3>1. PICK v : v = IF value[t] # None THEN value[t] ELSE Fallback
      OBVIOUS
    <3>2. v \in Ages \cup {None, Fallback}
      BY <1>7, <3>1
    <3>3. /\ handles' = AnswerFor(f, v) /\ frames' = Callers
          /\ value' = value /\ failed' = failed /\ request' = request
      BY <1>1, <1>2, <2>1, <3>1 DEF FactoryReturns
    <3>4. HandlesAlike(handles, handles')
      BY <1>1, <1>3, <3>2, <3>3, AnswerForAlike
    <3> QED BY <3>3, <3>4 DEF TypeInv, Basics
  <2>2. CASE Current(t, f.gen) /\ ok
    <3>1. /\ Publish(t, f.age, f.handle) /\ frames' = Aged(Callers)
          /\ request' = WithRequest(request, t, None)
      BY <1>1, <1>2, <2>2 DEF FactoryReturns, WithRequest
    <3>2. /\ HandlesAlike(handles, handles') /\ value' \in [Tokens -> Ages \cup {None}]
          /\ failed' \subseteq Tokens
      BY <1>5, <3>1, PublishTyped DEF TypeInv
    <3>3. RequestsSound(request', nextRequest)
      BY <1>5, <3>1, Typed, RequestSet DEF TypeInv
    <3> QED BY <3>1, <3>2, <3>3
  <2>3. CASE Current(t, f.gen) /\ ~ok
    <3>1. /\ handles' = AnswerFor(f, Fallback) /\ frames' = Callers
          /\ value' = value /\ failed' = failed \cup {t}
          /\ request' = WithRequest(request, t, None)
      BY <1>1, <1>2, <2>3 DEF FactoryReturns, WithRequest
    <3>2. HandlesAlike(handles, handles')
      BY <1>1, <1>3, <1>7, <3>1, AnswerForAlike
    <3>3. RequestsSound(request', nextRequest)
      BY <1>5, <3>1, Typed, RequestSet DEF TypeInv
    <3> QED BY <1>5, <3>1, <3>2, <3>3 DEF TypeInv, Basics
  <2> QED BY <2>1, <2>2, <2>3
<1>9. Basics'
  BY <1>3, <1>8 DEF TypeInv, Basics, HandlesAlike, wake
<1>10. StackSound(frames', nextRequest', handles') /\ \A l : LentIn(frames', l) = LentIn(frames, l)
  <2>1. \A l : /\ LentIn(Aged(Callers), l) = LentIn(Callers, l) /\ LentIn(Callers, l) \in Nat
               /\ LentIn(frames, l) = LentIn(Callers, l) + One(f \in Lenders(l)) + One(f \in Keepers(l))
    BY <1>1, <1>3, <1>8, StackReturns
  <2>2. \A l : One(f \in Lenders(l)) = 0 /\ One(f \in Keepers(l)) = 0
    BY <1>6 DEF One
  <2>3. \A l : LentIn(frames', l) = LentIn(frames, l)
    BY <1>8, <2>1, <2>2
  <2> QED BY <1>3, <1>8, <2>3, StackReturns
<1>11. RequestsSound(request', nextRequest') /\ nextRequest' \in 0..MaxRequest
       /\ nextRequest <= nextRequest'
  BY <1>3, <1>8, Typed DEF TypeInv, Basics
<1> QED BY <1>3, <1>9, <1>10, <1>11, SlotsStay

\* A call is taken out and put back, to where it came from or to another empty slot.
LEMMA Moved ==
  ASSUME NEW row \in Row, NEW s \in Slots, row[s] # Leased, NEW c \in CallState,
         NEW r, r = Put(WithSlot(row, s, Leased), c)
  PROVE  /\ r \in Row /\ Out(r) = Out(row)
         /\ \E x \in Slots : /\ r[x] = c /\ (x = s \/ (row[x] = Leased /\ r[s] = Leased))
                             /\ \A y \in Slots : y # x /\ y # s => r[y] = row[y]
<1>1. PICK q : q = WithSlot(row, s, Leased)
  OBVIOUS
<1>2. q \in Row /\ Out(q) = Out(row) + 1 /\ q[s] = Leased /\ \A x \in Slots : x # s => q[x] = row[x]
  BY <1>1, TakenOut
<1>3. LeasedIn(q) # {}
  BY <1>2 DEF LeasedIn
<1>4. PICK x \in Slots : q[x] = Leased /\ r = WithSlot(q, x, c)
  BY <1>1, <1>2, <1>3, PutSlot
<1>5. r \in Row /\ Out(r) + 1 = Out(q) /\ r[x] = c /\ \A y \in Slots : y # x => r[y] = q[y]
  BY <1>2, <1>4, GivenBack
<1>6. Out(r) = Out(row)
  BY <1>2, <1>5, OutIsCount
<1> QED BY <1>2, <1>4, <1>5, <1>6

\* The metadata that is read, and where it goes.
LEMMA CompletedFacts ==
  ASSUME TypeInv, NEW t \in Tokens, ProbeCompleted(t)
  PROVE  \E l \in Loaders, s, x \in Slots :
           /\ slots[l][s] \in CallState /\ slots[l][s] # Leased /\ slots[l][s].meta # None
           /\ slots' \in Grid /\ Out(slots'[l]) = Out(slots[l])
           /\ \A m \in Loaders : m # l => slots'[m] = slots[m]
           /\ slots'[l][x] = slots[l][s]
           /\ x = s \/ (slots[l][x] = Leased /\ slots'[l][s] = Leased)
           /\ \A y \in Slots : y # x /\ y # s => slots'[l][y] = slots[l][y]
<1> DEFINE L == {p[1] : p \in MetaSlots(t)}
           l == Min(L)
           R == {p[2] : p \in {q \in MetaSlots(t) : q[1] = l}}
           s == Min(R)
<1>1. L \in SUBSET Nat /\ L # {}
  BY Sizes DEF MetaSlots, ProbeCompleted
<1>2. l \in L
  <2> HIDE DEF L
  <2> QED BY <1>1, MinOf
<1>3. l \in Loaders
  BY <1>2 DEF MetaSlots
<1> HIDE DEF l
<1>4. R \in SUBSET Nat /\ R # {}
  <2>1. \A p \in MetaSlots(t) : p[2] \in Nat
    BY Sizes DEF MetaSlots
  <2>2. \E p \in MetaSlots(t) : p[1] = l
    BY <1>2
  <2> QED BY <2>1, <2>2
<1>5. s \in R
  <2> HIDE DEF R
  <2> QED BY <1>4, MinOf
<1>6. s \in Slots /\ Holds(slots[l][s], t) /\ slots[l][s].meta # None
  <2> HIDE DEF s
  <2> QED BY <1>5 DEF MetaSlots
<1>7. slots' = [slots EXCEPT ![l] = Put([@ EXCEPT ![s] = Leased], @[s])]
  BY DEF ProbeCompleted, l, s
<1> HIDE DEF s, L, R
<1>8. slots[l] \in Row /\ slots[l][s] # Leased /\ slots[l][s] \in CallState
  BY <1>3, <1>6, Typed DEF Grid, Row, Holds
<1>9. PICK r : r = Put(WithSlot(slots[l], s, Leased), slots[l][s])
  OBVIOUS
<1>10. slots' = [slots EXCEPT ![l] = r]
  BY <1>7, <1>9 DEF WithSlot
<1>11. /\ r \in Row /\ Out(r) = Out(slots[l])
       /\ \E x \in Slots : /\ r[x] = slots[l][s] /\ (x = s \/ (slots[l][x] = Leased /\ r[s] = Leased))
                           /\ \A y \in Slots : y # x /\ y # s => r[y] = slots[l][y]
  BY <1>6, <1>8, <1>9, Moved
<1>12. slots' \in Grid /\ slots'[l] = r /\ \A m \in Loaders : m # l => slots'[m] = slots[m]
  BY <1>3, <1>10, <1>11, Typed DEF Grid
<1> QED BY <1>3, <1>6, <1>8, <1>11, <1>12

LEMMA ProbeCompletedTyped ==
  ASSUME TypeInv, NEW t \in Tokens, ProbeCompleted(t)
  PROVE  TypeInv'
<1>1. PICK l \in Loaders, s \in Slots, x \in Slots :
           /\ slots[l][s] \in CallState /\ slots[l][s] # Leased /\ slots[l][s].meta # None
           /\ slots' \in Grid /\ Out(slots'[l]) = Out(slots[l])
           /\ \A m \in Loaders : m # l => slots'[m] = slots[m]
           /\ slots'[l][x] = slots[l][s]
           /\ x = s \/ (slots[l][x] = Leased /\ slots'[l][s] = Leased)
           /\ \A y \in Slots : y # x /\ y # s => slots'[l][y] = slots[l][y]
  BY CompletedFacts
<1>2. GridSound(slots', nextRequest)
  <2>1. ASSUME NEW m \in Loaders, NEW y \in Slots, slots'[m][y] # Leased
        PROVE  slots'[m][y].gen <= nextRequest
    BY <1>1, <2>1 DEF TypeInv, GridSound
  <2> QED BY <1>1, <2>1 DEF GridSound
<1>3. Balanced(slots', frames)
  BY <1>1 DEF Balanced, TypeInv
<1>4. Basics' /\ request' = request /\ nextRequest' = nextRequest /\ handles' = handles /\ frames' = frames
  BY DEF ProbeCompleted, TypeInv, Basics, wake
<1> QED BY <1>2, <1>3, <1>4 DEF TypeInv

LEMMA ProbeJoinTyped ==
  ASSUME TypeInv, NEW t \in Tokens, NEW detached \in BOOLEAN, ProbeJoin(t, detached)
  PROVE  TypeInv'
<1>1. PICK r \in Request : Wants(request[t], r) /\ request' = WithRequest(request, t, r)
  BY Joined DEF ProbeJoin
<1>2. RequestsSound(request', nextRequest)
  <2>1. request[t] # None /\ r.gen = request[t].gen
    BY <1>1 DEF ProbeJoin, Wants
  <2> QED BY <1>1, <2>1, Wanted
<1>3. Basics' /\ slots' = slots /\ nextRequest' = nextRequest /\ handles' = handles /\ frames' = frames
  BY DEF ProbeJoin, TypeInv, Basics, wake
<1> QED BY <1>2, <1>3 DEF TypeInv

LEMMA ProbeAtOnceTyped ==
  ASSUME TypeInv, NEW t \in Tokens, NEW detached \in BOOLEAN, ProbeAtOnce(t, detached)
  PROVE  TypeInv'
<1>1. /\ HandlesAlike(handles, handles') /\ nextRequest' = nextRequest + 1
      /\ nextRequest' \in 0..MaxRequest /\ nextRequest <= nextRequest' /\ nextRequest' \in Nat
  BY Typed, Sizes DEF ProbeAtOnce, HandlesAlike
<1>2. Basics'
  BY <1>1 DEF TypeInv, Basics, ProbeAtOnce, HandlesAlike, wake
<1>3. StackSound(frames', nextRequest', handles') /\ \A l : LentIn(frames', l) = LentIn(frames, l)
  BY <1>1, Typed, StackStays DEF ProbeAtOnce
<1>4. RequestsSound(request', nextRequest') /\ slots' = slots
  BY <1>1, Typed DEF ProbeAtOnce, TypeInv, RequestsSound
<1> QED BY <1>1, <1>2, <1>3, <1>4, Typed, SlotsStay

LEMMA ProbeChainTyped ==
  ASSUME TypeInv, NEW t \in Tokens, NEW detached \in BOOLEAN, ProbeChain(t, detached)
  PROVE  TypeInv' /\ Begin(t, FALSE, detached)
         /\ \E l \in Loaders, s \in Slots : \E f : Chained(t, "probe", None, l, s, f)
<1>0. PICK yes \in BOOLEAN : yes = TRUE
  OBVIOUS
<1>1. PICK no \in BOOLEAN : no = FALSE
  OBVIOUS
<1>2. Begin(t, no, detached) /\ Len(frames) < MaxDepth /\ handles' = handles
  BY <1>1 DEF ProbeChain, MayCall
<1>3. nextRequest' \in 1..MaxRequest
  BY <1>2, BeginFacts
<1>4. Basics'
  BY <1>3, Sizes DEF ProbeChain, TypeInv, Basics, wake
<1>5. PICK target : target = Target(slots, t, nextRequest + 1, yes, 1)
  OBVIOUS
<1>6. PICK c : c = Lease(t, nextRequest + 1, yes)
  OBVIOUS
<1>7. /\ target # << >> /\ slots' = [slots EXCEPT ![target[1]][target[2]] = Leased]
      /\ frames' = Append(frames, Call("probe", c, target[1], None, no, << >>))
  BY <1>0, <1>1, <1>5, <1>6 DEF ProbeChain
<1>8. PICK l \in Loaders, s \in Slots : target = <<l, s>>
  BY <1>5, <1>7, TargetIs
<1>9. PICK f : f = Call("probe", c, l, None, no, << >>)
  OBVIOUS
<1>10. frames' = Append(frames, f) /\ slots' = WithCall(slots, l, s, Leased)
  BY <1>7, <1>8, <1>9 DEF WithCall
<1>11. PICK by, h : by = "probe" /\ h = None
  OBVIOUS
<1>12. Target(slots, t, nextRequest + 1, yes, 1) = <<l, s>>
  BY <1>5, <1>8
<1>13. Asks(h, t) /\ Begin(t, FALSE, detached)
  BY <1>11 DEF Asks, ProbeChain
<1>14. Asking(t, by, h, yes, no, no, detached, l, s, f)
  BY <1>0, <1>1, <1>2, <1>6, <1>8, <1>9, <1>10, <1>11, <1>12 DEF Asking
<1>15. TypeInv' /\ Chained(t, by, h, l, s, f)
  BY <1>4, <1>13, <1>14, ChainTyped
<1>16. TypeInv' /\ Chained(t, "probe", None, l, s, f)
  BY <1>11, <1>15
<1> QED BY <1>8, <1>13, <1>16

-----------------------------------------------------------------------------
(***************************************************************************)
(* Types: poll_pending.                                                    *)
(***************************************************************************)
LEMMA EmptyStack ==
  ASSUME NEW n, NEW H
  PROVE  StackSound(<< >>, n, H) /\ << >> \in Seq(Frame) /\ \A l : LentIn(<< >>, l) = 0
<1>1. \A X : Cardinality(Among(<< >>, X)) = 0
  <2>1. \A X : Among(<< >>, X) = {}
    BY DEF Among
  <2> QED BY <2>1, FS_EmptySet
<1>2. \A l : LentIn(<< >>, l) = 0
  <2>1. ASSUME NEW l PROVE LentIn(<< >>, l) = 0
    BY <1>1 DEF LentIn
  <2> QED BY <2>1
<1>3. << >> \in Seq(Frame) /\ Len(<< >>) = 0 /\ DOMAIN << >> = {}
  OBVIOUS
<1> QED BY <1>2, <1>3, Sizes DEF StackSound

LEMMA PollAlone ==
  ASSUME NEW f \in PollFrame, NEW n, NEW H
  PROVE  /\ StackSound(<<f>>, n, H) /\ Len(<<f>>) = 1 /\ <<f>> \in Seq(Frame)
         /\ \A l : LentIn(<<f>>, l) = 0
<1>1. f \in Frame /\ f.op = "poll"
  BY DEF PollFrame, Frame
<1>2. <<f>> = Append(<< >>, f) /\ Len(<< >>) + 1 = 1
  OBVIOUS
<1>3. StackSound(<<f>>, n, H)
  <2>1. PICK stack : stack = << >>
    OBVIOUS
  <2>2. StackSound(stack, n, H) /\ Len(stack) = 0 /\ Append(stack, f) = <<f>>
    BY <2>1, EmptyStack
  <2>3. FrameSound(f, Len(stack) + 1, n, H) /\ Len(stack) <= MaxDepth
    BY <1>1, <2>2, Sizes DEF FrameSound
  <2>4. StackSound(Append(stack, f), n, H)
    BY <1>1, <2>2, <2>3, StackPushed
  <2> QED BY <2>2, <2>4
<1>4. ASSUME NEW l PROVE LentIn(<<f>>, l) = 0
  <2>1. ~(f \in Lenders(l)) /\ ~(f \in Keepers(l))
    BY <1>1 DEF Lenders, Keepers
  <2>2. LentIn(<<f>>, l) = LentIn(<< >>, l) + One(f \in Lenders(l)) + One(f \in Keepers(l))
    BY <1>1, <1>2, EmptyStack, PushedLends
  <2> QED BY <2>1, <2>2, EmptyStack DEF One
<1> QED BY <1>1, <1>3, <1>4

\* poll_pending is not called from a callback.
LEMMA PollTop ==
  ASSUME TypeInv, Polling, NEW f, f = Top
  PROVE  /\ f \in PollFrame /\ f.op = "poll" /\ frames = <<f>> /\ Len(frames) = 1
         /\ \A l \in Loaders : Out(slots[l]) = 0
<1>1. frames # << >> /\ f.op = "poll"
  BY DEF Polling
<1>2. /\ FrameSound(f, Len(frames), nextRequest, handles) /\ f \in Frame
      /\ frames \in Seq(Frame)
  BY <1>1, StackPopped, Typed DEF TypeInv, Top
<1>3. Len(frames) = 1 /\ f \in PollFrame
  BY <1>1, <1>2, FrameKinds DEF FrameSound
<1>4. f = frames[1]
  BY <1>2, <1>3, Popped DEF Top
<1>5. frames = <<f>>
  BY <1>2, <1>3, <1>4
<1>6. \A l \in Loaders : Out(slots[l]) = 0
  BY <1>3, <1>5, PollAlone DEF TypeInv, Balanced
<1> QED BY <1>1, <1>3, <1>5, <1>6

LEMMA PollBeginTyped ==
  ASSUME TypeInv, PollBegin
  PROVE  TypeInv'
<1>1. PICK f : f = [op |-> "poll", through |-> nextRequest, loader |-> 1, slot |-> 1]
  OBVIOUS
<1>2. f \in PollFrame
  BY <1>1, Typed, Sizes DEF PollFrame, Slots
<1>3. frames' = <<f>> \/ frames' = << >>
  BY <1>1 DEF PollBegin
<1>4. StackSound(frames', nextRequest, handles) /\ \A l : LentIn(frames', l) = 0
  BY <1>2, <1>3, EmptyStack, PollAlone
<1>5. \A l : LentIn(frames, l) = 0
  BY EmptyStack DEF PollBegin
<1>6. /\ Basics' /\ slots' = slots /\ nextRequest' = nextRequest /\ handles' = handles
      /\ request' = request
  BY DEF PollBegin, TypeInv, Basics
<1> QED BY <1>4, <1>5, <1>6 DEF TypeInv, Balanced

LEMMA PollEndTyped ==
  ASSUME TypeInv, PollEnd
  PROVE  TypeInv'
<1>1. \A l \in Loaders : Out(slots[l]) = 0
  BY PollTop DEF PollEnd
<1>2. frames' = << >> /\ StackSound(frames', nextRequest, handles) /\ \A l : LentIn(frames', l) = 0
  BY EmptyStack DEF PollEnd
<1>3. /\ Basics' /\ slots' = slots /\ nextRequest' = nextRequest /\ handles' = handles
      /\ request' = request
  BY DEF PollEnd, TypeInv, Basics, wake
<1> QED BY <1>1, <1>2, <1>3 DEF TypeInv, Balanced

LEMMA AdvancedFacts ==
  ASSUME NEW f \in PollFrame, f.loader \in Loaders, NEW g, g = Advanced(f)
  PROVE  /\ g \in PollFrame /\ g.op = "poll" /\ g.through = f.through
         /\ \/ f.slot < Capacity /\ g.loader = f.loader /\ g.slot = f.slot + 1
            \/ f.slot = Capacity /\ g.loader = f.loader + 1 /\ g.slot = 1
<1>1. f.slot \in Nat /\ f.slot <= Capacity /\ f.slot > 0
  BY DEF PollFrame, Slots
<1>2. CASE f.slot < Capacity
  <2>1. g = [f EXCEPT !.slot = f.slot + 1]
    BY <1>2 DEF Advanced
  <2>2. f.slot + 1 \in Slots
    BY <1>1, <1>2, Sizes DEF Slots
  <2> QED BY <1>2, <2>1, <2>2 DEF PollFrame
<1>3. CASE f.slot = Capacity
  <2>1. g = [f EXCEPT !.loader = f.loader + 1, !.slot = 1]
    BY <1>3, Sizes DEF Advanced
  <2>2. f.loader + 1 \in 1..LoaderCount + 1 /\ 1 \in Slots
    BY Sizes DEF Loaders, Slots
  <2> QED BY <1>3, <2>1, <2>2 DEF PollFrame
<1> QED BY <1>1, <1>2, <1>3, Sizes

\* A call when the scan comes to it, registered with the manager again.
Visited(c) == [c EXCEPT !.ready = FALSE, !.linked = TRUE]

LEMMA VisitedFacts ==
  ASSUME NEW c \in CallState
  PROVE  /\ Visited(c) \in CallState /\ Visited(c).token = c.token /\ Visited(c).gen = c.gen
         /\ Visited(c).age = c.age /\ Visited(c).meta = c.meta /\ Visited(c).probe = c.probe
         /\ ~Visited(c).ready /\ Visited(c).linked
         /\ c.token # None /\ c.meta = None /\ c.gen > 0 => Visited(c) \in RunningCall
<1>1. \A n \in 0..MaxRequest : n > 0 => n \in 1..MaxRequest
  BY Sizes
<1> QED BY <1>1 DEF Visited, CallState, RunningCall

\* What the scan does at a slot.
LEMMA PollSlotFacts ==
  ASSUME TypeInv, PollSlot
  PROVE  \E f \in PollFrame, g \in PollFrame, l \in Loaders, s \in Slots :
           /\ f.op = "poll" /\ frames = <<f>> /\ l = f.loader /\ s = f.slot /\ g = Advanced(f)
           /\ slots[l][s] # Leased /\ slots[l][s] \in CallState
           /\ \/ /\ ~Waits(slots[l][s])
                 /\ slots' = slots /\ frames' = <<g>>
              \/ /\ Waits(slots[l][s]) /\ ~slots[l][s].ready
                 /\ slots' = WithCall(slots, l, s, Visited(slots[l][s])) /\ frames' = <<g>>
              \/ /\ Waits(slots[l][s]) /\ slots[l][s].ready
                 /\ ~Current(slots[l][s].token, slots[l][s].gen)
                 /\ slots' = WithCall(slots, l, s, Free) /\ frames' = <<g>>
              \/ /\ Waits(slots[l][s]) /\ slots[l][s].ready
                 /\ Current(slots[l][s].token, slots[l][s].gen)
                 /\ slots' = WithCall(slots, l, s, Leased)
                 /\ frames' = << g, Call("slot", Visited(slots[l][s]), l, None, FALSE, << >>) >>
<1>1. PICK f : f = Top
  OBVIOUS
<1>2. f \in PollFrame /\ f.op = "poll" /\ frames = <<f>> /\ \A l \in Loaders : Out(slots[l]) = 0
  BY <1>1, PollTop DEF PollSlot
<1>3. PICK l, s : l = f.loader /\ s = f.slot
  OBVIOUS
<1>4. l \in Loaders /\ s \in Slots
  BY <1>1, <1>2, <1>3 DEF PollSlot, PollFrame
<1>5. PICK c : c = slots[l][s]
  OBVIOUS
<1>6. c # Leased
  BY <1>2, <1>4, <1>5, OutIsCount DEF LeasedIn
<1>7. c \in CallState /\ slots \in Grid
  BY <1>4, <1>5, <1>6, Typed DEF Grid, Row
<1>8. PICK g : g = Advanced(f)
  OBVIOUS
<1>9. g \in PollFrame
  BY <1>2, <1>3, <1>4, <1>8, AdvancedFacts
<1>10. /\ slots' = [slots EXCEPT ![l][s] =
                     IF ~Waits(c) THEN c ELSE IF ~c.ready THEN Visited(c)
                     ELSE IF Current(c.token, c.gen) THEN Leased ELSE Free]
       /\ frames' = IF Waits(c) /\ c.ready /\ Current(c.token, c.gen)
                    THEN << g, Call("slot", Visited(c), l, None, FALSE, << >>) >> ELSE <<g>>
  BY <1>1, <1>3, <1>5, <1>8 DEF PollSlot, Visited
<1>11. CASE ~Waits(c)
  <2>1. slots' = slots /\ frames' = <<g>>
    BY <1>4, <1>5, <1>7, <1>10, <1>11 DEF Grid, Row
  <2> QED BY <1>2, <1>3, <1>4, <1>5, <1>6, <1>7, <1>8, <1>9, <1>11, <2>1
<1>12. CASE Waits(c) /\ ~c.ready
  <2>1. slots' = WithCall(slots, l, s, Visited(c)) /\ frames' = <<g>>
    BY <1>10, <1>12 DEF WithCall
  <2> QED BY <1>2, <1>3, <1>4, <1>5, <1>6, <1>7, <1>8, <1>9, <1>12, <2>1
<1>13. CASE Waits(c) /\ c.ready /\ ~Current(c.token, c.gen)
  <2>1. slots' = WithCall(slots, l, s, Free) /\ frames' = <<g>>
    BY <1>10, <1>13 DEF WithCall
  <2> QED BY <1>2, <1>3, <1>4, <1>5, <1>6, <1>7, <1>8, <1>9, <1>13, <2>1
<1>14. CASE Waits(c) /\ c.ready /\ Current(c.token, c.gen)
  <2>1. /\ slots' = WithCall(slots, l, s, Leased)
        /\ frames' = << g, Call("slot", Visited(c), l, None, FALSE, << >>) >>
    BY <1>10, <1>14 DEF WithCall
  <2> QED BY <1>2, <1>3, <1>4, <1>5, <1>6, <1>7, <1>8, <1>9, <1>14, <2>1
<1> QED BY <1>11, <1>12, <1>13, <1>14

\* The request a call is current for has its generation.
LEMMA CurrentRuns ==
  ASSUME TypeInv, NEW c \in CallState, Waits(c), Current(c.token, c.gen)
  PROVE  c.token \in Tokens /\ Visited(c) \in RunningCall /\ c.gen <= nextRequest
<1>1. c.token \in Tokens
  BY DEF CallState, Waits
<1>2. c.gen > 0 /\ c.gen <= nextRequest
  BY <1>1, Typed DEF Current
<1> QED BY <1>1, <1>2, VisitedFacts DEF Waits

LEMMA PollSlotTyped ==
  ASSUME TypeInv, PollSlot
  PROVE  TypeInv'
<1>1. PICK f \in PollFrame, g \in PollFrame, l \in Loaders, s \in Slots :
           /\ f.op = "poll" /\ frames = <<f>> /\ l = f.loader /\ s = f.slot /\ g = Advanced(f)
           /\ slots[l][s] # Leased /\ slots[l][s] \in CallState
           /\ \/ /\ ~Waits(slots[l][s])
                 /\ slots' = slots /\ frames' = <<g>>
              \/ /\ Waits(slots[l][s]) /\ ~slots[l][s].ready
                 /\ slots' = WithCall(slots, l, s, Visited(slots[l][s])) /\ frames' = <<g>>
              \/ /\ Waits(slots[l][s]) /\ slots[l][s].ready
                 /\ ~Current(slots[l][s].token, slots[l][s].gen)
                 /\ slots' = WithCall(slots, l, s, Free) /\ frames' = <<g>>
              \/ /\ Waits(slots[l][s]) /\ slots[l][s].ready
                 /\ Current(slots[l][s].token, slots[l][s].gen)
                 /\ slots' = WithCall(slots, l, s, Leased)
                 /\ frames' = << g, Call("slot", Visited(slots[l][s]), l, None, FALSE, << >>) >>
  BY PollSlotFacts
<1>2. PICK c : c = slots[l][s]
  OBVIOUS
<1>3. /\ Basics' /\ nextRequest' = nextRequest /\ handles' = handles /\ request' = request
  BY DEF PollSlot, TypeInv, Basics, wake
<1>4. \A m \in Loaders : Out(slots[m]) = 0
  BY PollTop DEF PollSlot
<1>5. /\ StackSound(<<g>>, nextRequest, handles) /\ Len(<<g>>) = 1
      /\ \A m : LentIn(<<g>>, m) = 0
  BY PollAlone
<1>6. GridSound(slots, nextRequest) /\ slots \in Grid /\ c \in CallState /\ c # Leased
      /\ c.gen <= nextRequest
  BY <1>1, <1>2 DEF TypeInv, GridSound
<1>7. Visited(c) \in CallState /\ Visited(c).gen = c.gen /\ Free \in CallState /\ Free.gen <= nextRequest
  BY <1>6, VisitedFacts, CallTypes, Typed DEF Free
<1>8. ASSUME NEW d \in CallState, d.gen <= nextRequest, NEW T, T = WithCall(slots, l, s, d)
      PROVE  GridSound(T, nextRequest) /\ \A m \in Loaders : Out(T[m]) = 0
  <2>1. Replaced(slots, T, l, s, d)
    BY <1>1, <1>6, <1>8, ReplacedFacts
  <2>2. GridSound(T, nextRequest)
    BY <1>6, <1>8, <2>1, GridMoves
  <2> QED BY <1>4, <2>1, <2>2 DEF Replaced, SameBut
<1>9. CASE frames' = <<g>> /\ (\/ slots' = slots \/ slots' = WithCall(slots, l, s, Visited(c))
                               \/ slots' = WithCall(slots, l, s, Free))
  <2>1. GridSound(slots', nextRequest) /\ \A m \in Loaders : Out(slots'[m]) = 0
    BY <1>4, <1>6, <1>7, <1>8, <1>9
  <2> QED BY <1>3, <1>5, <1>9, <2>1 DEF TypeInv, Balanced
<1>10. CASE /\ Waits(c) /\ Current(c.token, c.gen) /\ slots' = WithCall(slots, l, s, Leased)
            /\ frames' = << g, Call("slot", Visited(c), l, None, FALSE, << >>) >>
  <2>1. PICK no \in BOOLEAN : no = FALSE
    OBVIOUS
  <2>2. PICK d : d = Call("slot", Visited(c), l, None, no, << >>)
    OBVIOUS
  <2>3. Visited(c) \in RunningCall /\ c.gen <= nextRequest
    BY <1>6, <1>10, CurrentRuns
  <2>4. /\ d \in Frame /\ d.op = "call" /\ d.by = "slot" /\ d.loader = l /\ d.handle = None
        /\ d.fresh = no /\ d.held = << >> /\ GenOf(d) = c.gen
    BY <1>7, <2>2, <2>3, CallIsFrame
  <2>5. CallSound(d)
    BY <2>4 DEF CallSound
  <2>6. FrameSound(d, Len(<<g>>) + 1, nextRequest, handles)
    BY <2>1, <2>3, <2>4, <2>5 DEF FrameSound
  <2>7. frames' = Append(<<g>>, d)
    <3>1. frames' = <<g, d>>
      BY <1>10, <2>1, <2>2
    <3> QED BY <3>1
  <2>8. Balanced(slots, <<g>>) /\ Len(<<g>>) <= MaxDepth
    BY <1>4, <1>5, Sizes DEF Balanced
  <2>9. /\ StackSound(frames', nextRequest, handles) /\ GridSound(slots', nextRequest)
        /\ Balanced(slots', frames')
    <3>1. PICK stack : stack = <<g>>
      OBVIOUS
    <3>2. /\ StackSound(stack, nextRequest, handles) /\ Balanced(slots, stack)
          /\ Len(stack) <= MaxDepth /\ FrameSound(d, Len(stack) + 1, nextRequest, handles)
          /\ frames' = Append(stack, d)
      BY <1>5, <2>6, <2>7, <2>8, <3>1
    <3>3. GridSound(slots, nextRequest) /\ slots[l][s] # Leased /\ slots' = WithCall(slots, l, s, Leased)
      BY <1>1, <1>6, <1>10
    <3>4. /\ StackSound(Append(stack, d), nextRequest, handles) /\ GridSound(slots', nextRequest)
          /\ Balanced(slots', Append(stack, d))
      BY <2>4, <3>2, <3>3, FirstCallMade
    <3> QED BY <3>2, <3>4
  <2> QED BY <1>3, <2>9 DEF TypeInv
<1> QED BY <1>1, <1>2, <1>9, <1>10

\* A loader is called for a queued request.
Dequeued(t, l, s, f) ==
  /\ Taken(slots, slots', l, s)
  /\ Waits(slots[l][s]) => slots[l][s].token = t /\ slots[l][s].gen = request[t].gen
  /\ f \in Frame /\ f.op = "call" /\ f.by = "queued" /\ f.handle = None /\ ~f.fresh
  /\ TokenOf(f) = t /\ GenOf(f) = request[t].gen /\ AgeOf(f) = age[t]
  /\ ~f.call.ready /\ f.call.linked /\ frames' = Append(frames, f)
  /\ request'[t] # None /\ request'[t].gen = request[t].gen /\ ~request'[t].queued
  /\ request'[t].load = request[t].load
  /\ failed' = failed /\ \A u \in Tokens : u # t => request'[u] = request[u]

LEMMA PollQueuedTyped ==
  ASSUME TypeInv, NEW t \in Tokens, PollQueued(t)
  PROVE  TypeInv' /\ request[t] # None /\ request[t].queued
         /\ \/ /\ failed' = failed \cup {t} /\ request' = WithRequest(request, t, None)
               /\ slots' = slots /\ frames' = frames
            \/ \E l \in Loaders, s \in Slots : \E f : Dequeued(t, l, s, f)
<1>0. PICK no \in BOOLEAN : no = FALSE
  OBVIOUS
<1>1. PICK g : g = request[t].gen
  OBVIOUS
<1>2. PICK target : target = Target(slots, t, g, no, 1)
  OBVIOUS
<1>3. PICK c : c = Lease(t, g, no)
  OBVIOUS
<1>4. /\ value' = value /\ entry' = entry /\ nextRequest' = nextRequest /\ handles' = handles
      /\ age' = age /\ UNCHANGED wake /\ request[t] # None /\ request[t].queued
      /\ IF target = << >>
         THEN /\ failed' = failed \cup {t} /\ request' = WithRequest(request, t, None)
              /\ slots' = slots /\ frames' = frames
         ELSE /\ request' = [request EXCEPT ![t].queued = FALSE] /\ failed' = failed
              /\ slots' = [slots EXCEPT ![target[1]][target[2]] = Leased]
              /\ frames' = Append(frames, Call("queued", c, target[1], None, no, << >>))
  BY <1>0, <1>1, <1>2, <1>3 DEF PollQueued, Queued, WithRequest
<1>5. g \in 1..MaxRequest /\ g <= nextRequest
  BY <1>1, <1>4, Typed, Sizes
<1>6. Basics'
  <2>1. failed' \subseteq Tokens
    BY <1>4 DEF TypeInv, Basics
  <2> QED BY <1>4, <2>1 DEF TypeInv, Basics, wake
<1>7. CASE target = << >>
  <2>1. RequestsSound(request', nextRequest)
    BY <1>4, <1>7, Typed, RequestSet DEF TypeInv
  <2>2. TypeInv'
    BY <1>4, <1>6, <1>7, <2>1 DEF TypeInv
  <2> QED BY <1>4, <1>7, <2>2
<1>8. CASE target # << >>
  <2>1. PICK l \in Loaders, s \in Slots : 
           /\ target = <<l, s>> /\ slots[l][s] # Leased
           /\ Waits(slots[l][s]) => slots[l][s].token = t /\ slots[l][s].gen = g
    BY <1>2, <1>8, TargetIs
  <2>2. PICK f : f = Call("queued", c, l, None, no, << >>)
    OBVIOUS
  <2>3. frames' = Append(frames, f) /\ slots' = WithCall(slots, l, s, Leased)
    BY <1>4, <1>8, <2>1, <2>2 DEF WithCall
  <2>4. /\ c \in RunningCall /\ c.gen = g /\ c.probe = no /\ c.token = t /\ c.age = age[t]
        /\ ~c.ready /\ c.linked
    BY <1>3, <1>5, Typed, LeaseFacts
  <2>5. /\ f \in Frame /\ f.op = "call" /\ f.by = "queued" /\ f.loader = l /\ f.handle = None
        /\ f.fresh = no /\ f.held = << >> /\ GenOf(f) = g /\ f.call = c
        /\ TokenOf(f) = t /\ AgeOf(f) = age[t]
    BY <2>2, <2>4, CallIsFrame
  <2>6. CallSound(f)
    BY <1>0, <2>4, <2>5 DEF CallSound
  <2>7. FrameSound(f, Len(frames) + 1, nextRequest, handles)
    BY <1>0, <1>5, <2>5, <2>6 DEF FrameSound
  <2>8. Len(frames) <= MaxDepth
    <3>1. Polling
      BY DEF PollQueued
    <3>2. Len(frames) = 1
      BY <3>1, PollTop
    <3> QED BY <3>2, Sizes
  <2>9. /\ StackSound(frames', nextRequest, handles) /\ GridSound(slots', nextRequest)
        /\ Balanced(slots', frames') /\ Taken(slots, slots', l, s)
    BY <2>1, <2>3, <2>5, <2>7, <2>8, FirstCallMade DEF TypeInv
  <2>10. /\ RequestsSound(request', nextRequest) /\ request'[t] # None
         /\ request'[t].gen = request[t].gen /\ ~request'[t].queued /\ request'[t].load = request[t].load
         /\ \A u \in Tokens : u # t => request'[u] = request[u]
    <3>1. PICK r : r = [request[t] EXCEPT !.queued = FALSE]
      OBVIOUS
    <3>2. r \in Request /\ r.gen = request[t].gen /\ ~r.queued /\ r.load = request[t].load
      BY <1>4, <3>1, Typed DEF Request
    <3>3. request' = WithRequest(request, t, r)
      BY <1>4, <1>8, <3>1 DEF WithRequest
    <3> QED BY <1>4, <3>2, <3>3, Wanted
  <2>11. Dequeued(t, l, s, f)
    BY <1>0, <1>1, <1>4, <1>8, <2>1, <2>3, <2>4, <2>5, <2>9, <2>10 DEF Dequeued
  <2>12. TypeInv'
    BY <1>4, <1>6, <2>9, <2>10 DEF TypeInv
  <2> QED BY <1>4, <2>11, <2>12
<1> QED BY <1>7, <1>8

-----------------------------------------------------------------------------
(***************************************************************************)
(* Types: the returns of a loader.                                         *)
(***************************************************************************)
\* The call on top.
LEMMA CallTop ==
  ASSUME TypeInv, Calling, NEW f, f = Top
  PROVE  /\ frames # << >> /\ f \in Frame /\ f.op = "call" /\ CallSound(f)
         /\ f.call \in RunningCall /\ f.loader \in Loaders
         /\ f.handle \in Handles \cup {None} /\ f.fresh \in BOOLEAN
         /\ f.handle # None => handles[f.handle] # None /\ handles[f.handle].token = f.call.token
         /\ f.fresh => f.handle # None
         /\ f.held # << >> => /\ f.held[1].loader \in Loaders /\ f.held[1].call \in RunningCall
                              /\ f.held = << f.held[1] >> /\ f.held[1].loader # f.loader
                              /\ f.held[1].call.gen = f.call.gen
         /\ f.call.token \in Tokens /\ f.call.gen \in 1..MaxRequest /\ f.call.gen <= nextRequest
         /\ f.call.age \in Ages
<1>1. frames # << >> /\ f.op = "call"
  BY DEF Calling
<1>2. FrameSound(f, Len(frames), nextRequest, handles) /\ f \in Frame
  BY <1>1, StackPopped DEF TypeInv, Top
<1>3. CallSound(f) /\ GenOf(f) = f.call.gen /\ TokenOf(f) = f.call.token /\ AgeOf(f) = f.call.age
  BY <1>1, <1>2 DEF FrameSound, GenOf, TokenOf, AgeOf
<1>4. f.held # << >> => /\ f.held[1].loader \in Loaders /\ f.held[1].call \in RunningCall
                        /\ f.held = << f.held[1] >> /\ f.held[1].loader # f.loader
                        /\ f.held[1].call.gen = f.call.gen
  <2>1. f.loader \in Loaders /\ f.loader \in Nat
    BY <1>1, <1>2, FrameTypes, Sizes
  <2> QED BY <1>1, <1>2, <1>3, <2>1, FrameTypes DEF CallSound
<1> QED BY <1>1, <1>2, <1>3, <1>4, FrameTypes DEF FrameSound

LEMMA SettledFacts ==
  ASSUME TypeInv, Calling, NEW f, f = Top, NEW c \in CallState, NEW d \in CallState,
         c.gen <= nextRequest, d.gen <= nextRequest, NEW T, T = Settled(f, c, d)
  PROVE  /\ GridSound(T, nextRequest) /\ Balanced(T, Callers)
         /\ f.held = << >> => \E s \in Slots : Given(slots, T, f.loader, s, c)
         /\ f.held # << >> =>
              \E U : \E s \in Slots, x \in Slots :
                Given(slots, U, f.loader, s, c) /\ Given(U, T, f.held[1].loader, x, d)
<1>1. PICK l : l = f.loader
  OBVIOUS
<1>2. /\ frames # << >> /\ f.op = "call" /\ l \in Loaders /\ f \in Frame
      /\ f.held # << >> => f.held[1].loader \in Loaders /\ f.held[1].loader # l
  BY <1>1, CallTop
<1>3. \A m : /\ LentIn(Callers, m) \in Nat
             /\ LentIn(frames, m) = LentIn(Callers, m) + One(f \in Lenders(m)) + One(f \in Keepers(m))
  BY <1>2, Typed, StackReturns DEF HandlesAlike
<1>4. \A m \in Loaders : /\ f \in Lenders(m) <=> m = l
                         /\ f \in Keepers(m) <=> f.held # << >> /\ f.held[1].loader = m
  BY <1>1, <1>2 DEF Lenders, Keepers
<1>5. \A m \in Loaders : Out(slots[m]) = LentIn(frames, m)
  BY DEF TypeInv, Balanced
<1>6. PICK U : U = WithReturned(slots, l, c)
  OBVIOUS
<1>7. Out(slots[l]) > 0
  BY <1>2, <1>3, <1>4, <1>5 DEF One
<1>8. PICK s \in Slots : Given(slots, U, l, s, c)
  BY <1>2, <1>6, <1>7, Typed, GivenFacts
<1>9. GridSound(U, nextRequest)
  BY <1>2, <1>8, GridMoves DEF TypeInv
<1>10. \A m \in Loaders : /\ m # l => Out(U[m]) = Out(slots[m])
                          /\ Out(U[l]) + 1 = Out(slots[l]) /\ Out(U[m]) \in Nat
  BY <1>8, OutIsCount DEF Given, SameBut
<1>11. CASE f.held = << >>
  <2>1. T = U
    BY <1>1, <1>6, <1>11 DEF Settled, Returned, WithReturned
  <2>2. ASSUME NEW m \in Loaders PROVE Out(U[m]) = LentIn(Callers, m)
    <3>1. One(f \in Keepers(m)) = 0 /\ One(f \in Lenders(m)) = IF m = l THEN 1 ELSE 0
      BY <1>4, <1>11 DEF One
    <3> QED BY <1>2, <1>3, <1>5, <1>10, <3>1
  <2> QED BY <1>1, <1>8, <1>9, <1>11, <2>1, <2>2 DEF Balanced
<1>12. CASE f.held # << >>
  <2>1. PICK k : k = f.held[1].loader
    OBVIOUS
  <2>2. k \in Loaders /\ k # l
    BY <1>2, <1>12, <2>1
  <2>3. T = WithReturned(U, k, d)
    BY <1>1, <1>6, <1>12, <2>1 DEF Settled, Returned, WithReturned
  <2>4. \A m \in Loaders : /\ One(f \in Keepers(m)) = IF m = k THEN 1 ELSE 0
                           /\ One(f \in Lenders(m)) = IF m = l THEN 1 ELSE 0
    BY <1>4, <1>12, <2>1 DEF One
  <2>5. Out(U[k]) > 0
    BY <1>2, <1>3, <1>5, <1>10, <2>2, <2>4
  <2>6. PICK x \in Slots : Given(U, T, k, x, d)
    BY <2>2, <2>3, <2>5, <1>9, GivenFacts DEF GridSound
  <2>7. GridSound(T, nextRequest)
    BY <1>9, <2>2, <2>6, GridMoves
  <2>8. \A m \in Loaders : /\ m # k => Out(T[m]) = Out(U[m])
                           /\ Out(T[k]) + 1 = Out(U[k]) /\ Out(T[m]) \in Nat
    BY <2>6, OutIsCount DEF Given, SameBut
  <2>9. ASSUME NEW m \in Loaders PROVE Out(T[m]) = LentIn(Callers, m)
    BY <1>2, <1>3, <1>5, <1>10, <2>2, <2>4, <2>8
  <2> QED BY <1>1, <1>8, <1>12, <2>1, <2>6, <2>7, <2>9 DEF Balanced
<1> QED BY <1>11, <1>12

\* Whatever a loader returns.
LEMMA ReturnsTyped ==
  ASSUME TypeInv, Calling, NEW f, f = Top, NEW c \in CallState, NEW d \in CallState,
         c.gen <= nextRequest, d.gen <= nextRequest, slots' = Settled(f, c, d),
         HandlesAlike(handles, handles'), frames' = Callers \/ frames' = Aged(Callers),
         nextRequest' = nextRequest, RequestsSound(request', nextRequest),
         value' \in [Tokens -> Ages \cup {None}], failed' \subseteq Tokens,
         entry' = entry, age' = age, \/ UNCHANGED wake \/ \E woken : WakeManager(woken)
  PROVE  TypeInv'
<1>1. GridSound(slots', nextRequest) /\ Balanced(slots', Callers)
  BY SettledFacts
<1>2. StackSound(frames', nextRequest, handles') /\ \A l : LentIn(frames', l) = LentIn(Callers, l)
  BY StackReturns DEF Calling
<1>3. managerReady' \in BOOLEAN /\ managerLinked' \in BOOLEAN /\ hostWoken' \in BOOLEAN
  BY WakeTyped DEF TypeInv, Basics, wake
<1>4. Basics'
  BY <1>3 DEF TypeInv, Basics, HandlesAlike
<1> QED BY <1>1, <1>2, <1>4 DEF TypeInv, Balanced

LEMMA RefusedFacts ==
  ASSUME TypeInv, Calling, NEW f, f = Top
  PROVE  /\ Refused(f) \in CallState /\ Refused(f).gen <= nextRequest
         /\ Refused(f).meta = "err" /\ Refused(f).meta # None
         /\ Free \in CallState /\ Free.gen <= nextRequest
         /\ f.call \in CallState /\ f.call.gen <= nextRequest
<1>1. PICK c : c = IF f.by = "next" THEN f.held[1].call ELSE f.call
  OBVIOUS
<1>2. c \in RunningCall /\ c.gen = f.call.gen /\ f.call \in RunningCall
  BY <1>1, CallTop DEF CallSound
<1>3. c \in CallState /\ f.call \in CallState
  BY <1>2, CallTypes
<1>4. Refused(f) = [c EXCEPT !.meta = "err", !.ready = FALSE, !.linked = FALSE]
  BY <1>1 DEF Refused
<1>5. Refused(f) \in CallState /\ Refused(f).gen = c.gen /\ Refused(f).meta = "err"
  BY <1>3, <1>4 DEF CallState
<1>6. Free \in CallState /\ Free.gen <= nextRequest
  BY CallTypes, Typed DEF Free
<1> QED BY <1>2, <1>3, <1>5, <1>6, CallTop, NotNone

\* The token's request is forgotten.
LEMMA Forgotten ==
  ASSUME TypeInv, NEW t \in Tokens, NEW Q, Q = WithRequest(request, t, None)
  PROVE  RequestsSound(Q, nextRequest) /\ Q[t] = None /\ \A u \in Tokens : u # t => Q[u] = request[u]
BY Typed, RequestSet DEF TypeInv

LEMMA ReturnStaleTyped ==
  ASSUME TypeInv, ReturnStale
  PROVE  TypeInv'
<1>1. PICK f : f = Top
  OBVIOUS
<1>2. PICK t : t = f.call.token
  OBVIOUS
<1>3. PICK d : d = IF f.by = "next" /\ f.call.probe THEN Refused(f) ELSE Free
  OBVIOUS
<1>4. PICK v : v = IF value[t] # None THEN value[t] ELSE Fallback
  OBVIOUS
<1>5. /\ Calling /\ slots' = Settled(f, Free, d)
      /\ handles' = Outdated \/ handles' = AnswerFor(f, v)
      /\ frames' = Callers \/ frames' = Aged(Callers)
      /\ value' = value /\ entry' = entry /\ failed' = failed /\ request' = request
      /\ nextRequest' = nextRequest /\ age' = age /\ UNCHANGED wake
  BY <1>1, <1>2, <1>3, <1>4 DEF ReturnStale
<1>6. d \in CallState /\ d.gen <= nextRequest /\ Free \in CallState /\ Free.gen <= nextRequest
  BY <1>1, <1>3, <1>5, RefusedFacts
<1>7. t \in Tokens /\ frames # << >> /\ f.op # "poll"
  BY <1>1, <1>2, <1>5, CallTop
<1>8. v \in Ages \cup {None, Fallback}
  BY <1>4, <1>7, Typed
<1>9. HandlesAlike(handles, handles')
  BY <1>1, <1>5, <1>7, <1>8, Typed, OutdatedAlike, AnswerForAlike
<1>10. RequestsSound(request', nextRequest) /\ value' \in [Tokens -> Ages \cup {None}]
       /\ failed' \subseteq Tokens
  BY <1>5 DEF TypeInv, Basics
<1> QED BY <1>1, <1>5, <1>6, <1>9, <1>10, ReturnsTyped

LEMMA ReturnPendingTyped ==
  ASSUME TypeInv, ReturnPending
  PROVE  TypeInv'
<1>1. PICK f : f = Top
  OBVIOUS
<1>2. /\ Calling /\ slots' = Settled(f, f.call, Free) /\ handles' = AnswerFor(f, Fallback)
      /\ frames' = Callers
      /\ value' = value /\ entry' = entry /\ failed' = failed /\ request' = request
      /\ nextRequest' = nextRequest /\ age' = age /\ UNCHANGED wake
  BY <1>1 DEF ReturnPending, Ongoing
<1>3. /\ f.call \in CallState /\ f.call.gen <= nextRequest
      /\ Free \in CallState /\ Free.gen <= nextRequest
  BY <1>1, <1>2, RefusedFacts
<1>4. frames # << >> /\ f.op # "poll" /\ Fallback \in Ages \cup {None, Fallback}
  BY <1>1, <1>2, CallTop
<1>5. HandlesAlike(handles, handles')
  BY <1>1, <1>2, <1>4, AnswerForAlike
<1>6. RequestsSound(request', nextRequest) /\ value' \in [Tokens -> Ages \cup {None}]
      /\ failed' \subseteq Tokens
  BY <1>2 DEF TypeInv, Basics
<1> QED BY <1>1, <1>2, <1>3, <1>5, <1>6, ReturnsTyped

LEMMA ReturnValueTyped ==
  ASSUME TypeInv, ReturnValue
  PROVE  TypeInv'
<1>1. PICK f : f = Top
  OBVIOUS
<1>2. PICK t : t = f.call.token
  OBVIOUS
<1>3. /\ Calling /\ slots' = Settled(f, Free, Free) /\ Publish(t, f.call.age, f.handle)
      /\ frames' = Aged(Callers) /\ request' = WithRequest(request, t, None)
      /\ entry' = entry /\ nextRequest' = nextRequest /\ age' = age /\ UNCHANGED wake
  BY <1>1, <1>2 DEF ReturnValue, Ongoing, WithRequest
<1>4. Free \in CallState /\ Free.gen <= nextRequest
  BY <1>1, <1>3, RefusedFacts
<1>5. /\ t \in Tokens /\ f.call.age \in Ages /\ f.handle \in Handles \cup {None}
      /\ f.handle # None => handles[f.handle] # None
  BY <1>1, <1>2, <1>3, CallTop
<1>6. /\ value' \in [Tokens -> Ages \cup {None}] /\ failed' \subseteq Tokens
      /\ HandlesAlike(handles, handles')
  BY <1>3, <1>5, PublishTyped DEF TypeInv
<1>7. RequestsSound(request', nextRequest)
  BY <1>3, <1>5, Forgotten
<1> QED BY <1>1, <1>3, <1>4, <1>6, <1>7, ReturnsTyped

\* A call whose metadata is known.
Told(c) == [c EXCEPT !.meta = "ok", !.ready = FALSE, !.linked = FALSE]

LEMMA ToldFacts ==
  ASSUME NEW c \in CallState
  PROVE  Told(c) \in CallState /\ Told(c).gen = c.gen /\ Told(c).meta # None
         /\ Told(c).age = c.age /\ Told(c).token = c.token
<1>1. Told(c) \in CallState /\ Told(c).gen = c.gen /\ Told(c).meta = "ok"
      /\ Told(c).age = c.age /\ Told(c).token = c.token
  BY DEF Told, CallState
<1> QED BY <1>1, NotNone

LEMMA ReturnMetaTyped ==
  ASSUME TypeInv, ReturnMeta
  PROVE  TypeInv'
<1>1. PICK f : f = Top
  OBVIOUS
<1>2. PICK t : t = f.call.token
  OBVIOUS
<1>3. /\ Calling /\ slots' = Settled(f, Told(f.call), Free)
      /\ request' = WithRequest(request, t, None)
      /\ \/ handles' = handles /\ frames' = Callers
         \/ handles' = Outdated /\ frames' = Aged(Callers)
      /\ value' = value /\ failed' = failed /\ entry' = entry /\ nextRequest' = nextRequest
      /\ age' = age /\ UNCHANGED wake
  BY <1>1, <1>2 DEF ReturnMeta, Ongoing, WithRequest, Told
<1>4. Free \in CallState /\ Free.gen <= nextRequest
      /\ Told(f.call) \in CallState /\ Told(f.call).gen <= nextRequest
  BY <1>1, <1>3, RefusedFacts, ToldFacts
<1>5. t \in Tokens
  BY <1>1, <1>2, <1>3, CallTop
<1>6. HandlesAlike(handles, handles')
  BY <1>3, Typed, OutdatedAlike DEF HandlesAlike
<1>7. RequestsSound(request', nextRequest)
  BY <1>3, <1>5, Forgotten
<1>8. value' \in [Tokens -> Ages \cup {None}] /\ failed' \subseteq Tokens
  BY <1>3 DEF TypeInv, Basics
<1> QED BY <1>1, <1>3, <1>4, <1>6, <1>7, <1>8, ReturnsTyped

\* The call goes on, as a load.
GoesOn(c) == [Woken(c) EXCEPT !.probe = FALSE]

LEMMA GoesOnFacts ==
  ASSUME NEW c \in CallState
  PROVE  GoesOn(c) \in CallState /\ GoesOn(c).gen = c.gen /\ GoesOn(c).token = c.token
         /\ GoesOn(c).age = c.age /\ GoesOn(c).meta = c.meta /\ GoesOn(c).ready
BY DEF GoesOn, Woken, CallState

LEMMA ReturnMetaWantedTyped ==
  ASSUME TypeInv, ReturnMetaWanted
  PROVE  TypeInv'
<1>1. PICK f : f = Top
  OBVIOUS
<1>2. /\ Calling /\ slots' = Returned(f.loader, GoesOn(f.call)) /\ f.by = "slot"
      /\ frames' = Callers /\ WakeManager(f.call.linked)
      /\ value' = value /\ failed' = failed /\ entry' = entry /\ nextRequest' = nextRequest
      /\ age' = age /\ handles' = handles /\ request' = request
  BY <1>1 DEF ReturnMetaWanted, Ongoing, GoesOn
<1>3. slots' = Settled(f, GoesOn(f.call), Free)
  <2>1. f.held = << >>
    BY <1>1, <1>2, CallTop DEF CallSound
  <2> QED BY <1>2, <2>1 DEF Settled
<1>4. Free \in CallState /\ Free.gen <= nextRequest
      /\ GoesOn(f.call) \in CallState /\ GoesOn(f.call).gen <= nextRequest
  BY <1>1, <1>2, RefusedFacts, GoesOnFacts
<1>5. HandlesAlike(handles, handles')
  BY <1>2, Typed DEF HandlesAlike
<1>6. RequestsSound(request', nextRequest) /\ value' \in [Tokens -> Ages \cup {None}]
      /\ failed' \subseteq Tokens
  BY <1>2 DEF TypeInv, Basics
<1>7. \E woken : WakeManager(woken)
  BY <1>2
<1> QED BY <1>1, <1>2, <1>3, <1>4, <1>5, <1>6, <1>7, ReturnsTyped

LEMMA ReturnErrorTyped ==
  ASSUME TypeInv, NEW notMine \in BOOLEAN, ReturnError(notMine)
  PROVE  TypeInv'
<1>1. PICK f : f = Top
  OBVIOUS
<1>2. PICK t : t = f.call.token
  OBVIOUS
<1>3. \E c, d \in {Free, Refused(f)} : slots' = Settled(f, c, d)
  BY <1>1 DEF ReturnError
<1>4. /\ Calling /\ request' = WithRequest(request, t, None)
      /\ failed' = failed \/ failed' = failed \cup {t}
      /\ handles' = Outdated \/ handles' = AnswerFor(f, Fallback)
      /\ frames' = Callers \/ frames' = Aged(Callers)
      /\ value' = value /\ entry' = entry /\ nextRequest' = nextRequest
      /\ age' = age /\ UNCHANGED wake
  BY <1>1, <1>2 DEF ReturnError, Ongoing, WithRequest
<1>5. /\ Free \in CallState /\ Free.gen <= nextRequest
      /\ Refused(f) \in CallState /\ Refused(f).gen <= nextRequest
  BY <1>1, <1>4, RefusedFacts
<1>6. t \in Tokens /\ frames # << >> /\ f.op # "poll" /\ Fallback \in Ages \cup {None, Fallback}
  BY <1>1, <1>2, <1>4, CallTop
<1>7. HandlesAlike(handles, handles')
  BY <1>1, <1>4, <1>6, Typed, OutdatedAlike, AnswerForAlike
<1>8. RequestsSound(request', nextRequest)
  BY <1>4, <1>6, Forgotten
<1>9. value' \in [Tokens -> Ages \cup {None}] /\ failed' \subseteq Tokens
  BY <1>4, <1>6 DEF TypeInv, Basics
<1> QED BY <1>1, <1>3, <1>4, <1>5, <1>7, <1>8, <1>9, ReturnsTyped

\* The call of the loader behind, and the slots it is taken from.
NotMine(f, S, x, l, s, g, probe) ==
  /\ \/ /\ f.by = "slot" /\ S = slots /\ g.by = "next"
        /\ g.held = << [loader |-> f.loader, call |-> f.call] >>
     \/ /\ f.by # "slot" /\ Given(slots, S, f.loader, x, Free) /\ g.by = f.by /\ g.held = f.held
  /\ GridSound(S, nextRequest) /\ S[l][s] # Leased /\ S[l][s] \in CallState /\ l > f.loader
  /\ Waits(S[l][s]) => S[l][s].token = f.call.token /\ S[l][s].gen = f.call.gen
  /\ g \in Frame /\ g.op = "call" /\ g.loader = l /\ g.handle = f.handle
  /\ g.fresh <=> f.fresh
  /\ g.call = Lease(f.call.token, f.call.gen, probe) /\ g.call \in RunningCall
  /\ g.call.token = f.call.token /\ g.call.gen = f.call.gen /\ g.call.age = age[f.call.token]
  /\ ~g.call.ready /\ g.call.linked
  /\ g.call.probe <=> ProbeOnly(f)
  /\ slots' = WithCall(S, l, s, Leased) /\ frames' = Append(Callers, g)

LEMMA NotMineFacts ==
  ASSUME TypeInv, ReturnNotMine, NEW f, f = Top
  PROVE  /\ Calling
         /\ \E l \in Loaders, s, x \in Slots : \E S, g, probe : NotMine(f, S, x, l, s, g, probe)
<1>1. PICK t : t = f.call.token
  OBVIOUS
<1>2. PICK n : n = f.call.gen
  OBVIOUS
<1>3. PICK probe \in BOOLEAN : probe = ProbeOnly(f)
  BY DEF ProbeOnly
<1>4. PICK S : S = IF f.by = "slot" THEN slots ELSE WithReturned(slots, f.loader, Free)
  OBVIOUS
<1>5. PICK target : target = Target(S, t, n, probe, f.loader + 1)
  OBVIOUS
<1>6. PICK c : c = Lease(t, n, probe)
  OBVIOUS
<1>7. PICK no \in BOOLEAN : no = FALSE
  OBVIOUS
<1>8. /\ Calling /\ target # << >>
      /\ slots' = [S EXCEPT ![target[1]][target[2]] = Leased]
      /\ frames' = Append(Callers,
           IF f.by = "slot"
           THEN Call("next", c, target[1], None, no, << [loader |-> f.loader, call |-> f.call] >>)
           ELSE Call(f.by, c, target[1], f.handle, f.fresh, f.held))
  <2>1. S = IF f.by = "slot" THEN slots ELSE Returned(f.loader, Free)
    BY <1>4 DEF Returned, WithReturned
  <2>2. target = NextTarget(f)
    BY <1>1, <1>2, <1>3, <1>5, <2>1 DEF NextTarget
  <2>3. c = Lease(f.call.token, f.call.gen, ProbeOnly(f))
    BY <1>1, <1>2, <1>3, <1>6
  <2> QED BY <1>7, <2>1, <2>2, <2>3 DEF ReturnNotMine, Ongoing
<1>9. /\ f \in Frame /\ f.op = "call" /\ CallSound(f) /\ f.call \in RunningCall /\ f.loader \in Loaders
      /\ t \in Tokens /\ n \in 1..MaxRequest /\ f.handle \in Handles \cup {None}
      /\ f.fresh \in BOOLEAN /\ (f.fresh => f.handle # None)
      /\ f.by \in {"resolve", "probe", "slot", "queued", "next"}
      /\ f.held \in {<< >>} \cup {<<d>> : d \in [loader : Loaders, call : RunningCall]}
  <2>1. /\ f \in Frame /\ f.op = "call" /\ CallSound(f) /\ f.call \in RunningCall /\ f.loader \in Loaders
        /\ t \in Tokens /\ n \in 1..MaxRequest /\ f.handle \in Handles \cup {None}
        /\ f.fresh \in BOOLEAN /\ (f.fresh => f.handle # None)
    BY <1>1, <1>2, <1>8, CallTop
  <2>2. f \in CallFrame
    BY <2>1, FrameKinds
  <2> QED BY <2>1, <2>2 DEF CallFrame
<1>10. PICK x \in Slots : /\ f.by = "slot" => S = slots
                          /\ f.by # "slot" => Given(slots, S, f.loader, x, Free)
                          /\ GridSound(S, nextRequest)
  <2>1. CASE f.by = "slot"
    BY <1>4, <2>1, Sizes DEF TypeInv, Slots
  <2>2. CASE f.by # "slot"
    <3>1. S = WithReturned(slots, f.loader, Free)
      BY <1>4, <2>2
    <3>2. LentIn(frames, f.loader) > 0
      <4>1. /\ LentIn(Callers, f.loader) \in Nat
            /\ LentIn(frames, f.loader) =
                 LentIn(Callers, f.loader) + One(f \in Lenders(f.loader)) + One(f \in Keepers(f.loader))
        BY <1>8, Typed, StackReturns DEF HandlesAlike, Calling
      <4>2. f \in Lenders(f.loader)
        BY <1>9 DEF Lenders
      <4> QED BY <4>1, <4>2 DEF One
    <3>3. Out(slots[f.loader]) > 0
      BY <1>9, <3>2 DEF TypeInv, Balanced
    <3>4. PICK x \in Slots : Given(slots, S, f.loader, x, Free)
      BY <1>9, <3>1, <3>3, Typed, CallTypes, GivenFacts
    <3>5. Free.gen <= nextRequest
      BY Typed DEF Free
    <3>6. GridSound(S, nextRequest)
      BY <1>9, <3>4, <3>5, GridMoves DEF TypeInv
    <3> QED BY <2>2, <3>4, <3>6
  <2> QED BY <2>1, <2>2
<1>11. PICK l \in Loaders, s \in Slots :
         /\ target = <<l, s>> /\ l > f.loader /\ S[l][s] # Leased /\ S[l][s] \in CallState
         /\ Waits(S[l][s]) => S[l][s].token = t /\ S[l][s].gen = n
  <2>1. S \in [Loaders -> Row]
    BY <1>10 DEF GridSound, Grid
  <2>2. f.loader + 1 \in Nat /\ f.loader + 1 > 0 /\ \A l \in Loaders : l >= f.loader + 1 => l > f.loader
    BY <1>9, Sizes
  <2>3. \E l \in Loaders, s \in Slots :
         /\ target = <<l, s>> /\ l >= f.loader + 1
         /\ S[l][s] \in CallState /\ S[l][s] # Leased
         /\ Waits(S[l][s]) => S[l][s].token = t /\ S[l][s].gen = n
    BY <1>5, <1>8, <1>9, <2>1, <2>2, TargetFacts
  <2> QED BY <2>2, <2>3
<1>12. /\ c \in RunningCall /\ c.token = t /\ c.gen = n /\ c.age = age[t] /\ c.probe = probe
       /\ ~c.ready /\ c.linked
  BY <1>6, <1>9, Typed, LeaseFacts
<1>13. slots' = WithCall(S, l, s, Leased)
  BY <1>8, <1>11 DEF WithCall
<1>14. CASE f.by = "slot"
  <2>1. PICK held : held = << [loader |-> f.loader, call |-> f.call] >>
    OBVIOUS
  <2>2. PICK g : g = Call("next", c, l, None, no, held)
    OBVIOUS
  <2>3. held \in {<< >>} \cup {<<d>> : d \in [loader : Loaders, call : RunningCall]}
    BY <1>9, <2>1
  <2>4. /\ g \in Frame /\ g.op = "call" /\ g.by = "next" /\ g.call = c /\ g.loader = l
        /\ g.handle = None /\ g.fresh = no /\ g.held = held
    BY <1>12, <2>2, <2>3, CallIsFrame, SMTT(20)
  <2>5. frames' = Append(Callers, g)
    BY <1>8, <1>11, <1>14, <2>1, <2>2
  <2>6. f.handle = None /\ ~f.fresh
    BY <1>9, <1>14 DEF CallSound
  <2>7. NotMine(f, S, x, l, s, g, probe)
    BY <1>1, <1>2, <1>3, <1>6, <1>7, <1>10, <1>11, <1>12, <1>13, <1>14, <2>1, <2>4, <2>5, <2>6 DEF NotMine
  <2> QED BY <1>8, <2>7
<1>15. CASE f.by # "slot"
  <2>1. PICK by, handle, fresh, held :
          by = f.by /\ handle = f.handle /\ fresh = f.fresh /\ held = f.held
    OBVIOUS
  <2>2. PICK g : g = Call(by, c, l, handle, fresh, held)
    OBVIOUS
  <2>3. /\ by \in {"resolve", "probe", "slot", "queued", "next"} /\ handle \in Handles \cup {None}
        /\ fresh \in BOOLEAN
        /\ held \in {<< >>} \cup {<<d>> : d \in [loader : Loaders, call : RunningCall]}
    BY <1>9, <2>1
  <2>4. /\ g \in Frame /\ g.op = "call" /\ g.by = by /\ g.call = c /\ g.loader = l
        /\ g.handle = handle /\ g.fresh = fresh /\ g.held = held
    BY <1>12, <2>2, <2>3, CallIsFrame, SMTT(20)
  <2>5. frames' = Append(Callers, g)
    BY <1>8, <1>11, <1>15, <2>1, <2>2
  <2>6. NotMine(f, S, x, l, s, g, probe)
    BY <1>1, <1>2, <1>3, <1>6, <1>10, <1>11, <1>12, <1>13, <1>15, <2>1, <2>4, <2>5 DEF NotMine
  <2> QED BY <1>8, <2>6
<1> QED BY <1>14, <1>15

LEMMA ReturnNotMineTyped ==
  ASSUME TypeInv, ReturnNotMine
  PROVE  TypeInv'
<1>1. PICK f : f = Top
  OBVIOUS
<1>2. Calling
  BY NotMineFacts
<1>3. PICK l \in Loaders, s \in Slots, x \in Slots : \E S, g, probe : NotMine(f, S, x, l, s, g, probe)
  BY <1>1, NotMineFacts
<1>4. PICK S, g, probe : NotMine(f, S, x, l, s, g, probe)
  BY <1>3
<1>5. /\ g \in Frame /\ g.op = "call" /\ g.loader = l /\ g.handle = f.handle /\ (g.fresh <=> f.fresh)
      /\ g.call.gen = f.call.gen /\ g.call.token = f.call.token /\ l > f.loader
      /\ (g.call.probe <=> ProbeOnly(f)) /\ S[l][s] # Leased /\ GridSound(S, nextRequest)
      /\ slots' = WithCall(S, l, s, Leased) /\ frames' = Append(Callers, g)
  BY <1>4 DEF NotMine
<1>6. \/ /\ f.by = "slot" /\ S = slots /\ g.by = "next"
         /\ g.held = << [loader |-> f.loader, call |-> f.call] >>
      \/ /\ f.by # "slot" /\ Given(slots, S, f.loader, x, Free) /\ g.by = f.by /\ g.held = f.held
  BY <1>4 DEF NotMine
<1>7. /\ f.op = "call" /\ CallSound(f) /\ f.loader \in Loaders /\ frames # << >> /\ f \in Frame
      /\ f.handle # None => handles[f.handle] # None /\ handles[f.handle].token = f.call.token
      /\ f.fresh => f.handle # None
      /\ f.held # << >> => f.held[1].loader \in Loaders /\ f.held[1].loader # f.loader
      /\ f.call.gen <= nextRequest
  BY <1>1, <1>2, CallTop
<1>8. CallSound(g)
  <2>1. CASE f.by = "slot"
    <3>1. PICK d : d = [loader |-> f.loader, call |-> f.call]
      OBVIOUS
    <3>2. g.by = "next" /\ g.held = <<d>> /\ d.loader = f.loader /\ d.call = f.call
      BY <1>6, <2>1, <3>1
    <3>3. g.held # << >> /\ g.held[1] = d
      BY <3>2
    <3>4. g.handle = None
      BY <1>5, <1>7, <2>1 DEF CallSound
    <3> QED BY <1>5, <3>2, <3>3, <3>4 DEF CallSound
  <2>2. CASE f.by # "slot"
    <3>1. ProbeOnly(f) <=> f.call.probe
      BY <2>2 DEF ProbeOnly
    <3>2. g.by = "next" => g.held[1].loader < g.loader
      <4>1. g.by = f.by /\ g.held = f.held /\ g.loader = l
        BY <1>5, <1>6, <2>2
      <4>2. f.by = "next" => f.held[1].loader < f.loader /\ f.held[1].loader \in Loaders
        BY <1>7 DEF CallSound
      <4>3. l > f.loader /\ l \in Nat /\ f.loader \in Nat
        BY <1>5, <1>7, Sizes
      <4>4. \A k \in Loaders : k < f.loader => k < l
        BY <4>3, Sizes
      <4> QED BY <4>1, <4>2, <4>4
    <3> QED BY <1>5, <1>6, <1>7, <2>2, <3>1, <3>2 DEF CallSound
  <2> QED BY <2>1, <2>2
<1>9. FrameSound(g, Len(Callers) + 1, nextRequest, handles)
  BY <1>5, <1>7, <1>8 DEF FrameSound, GenOf, TokenOf
<1>10. /\ StackSound(Callers, nextRequest, handles) /\ Len(Callers) <= MaxDepth
       /\ \A m : /\ LentIn(Callers, m) \in Nat
                 /\ LentIn(frames, m) = LentIn(Callers, m) + One(f \in Lenders(m)) + One(f \in Keepers(m))
  BY <1>1, <1>7, Typed, StackReturns DEF HandlesAlike
<1>11. ASSUME NEW m \in Loaders PROVE Out(S[m]) = LentIn(Callers, m) + One(g \in Keepers(m))
  <2>1. Out(slots[m]) = LentIn(Callers, m) + One(f \in Lenders(m)) + One(f \in Keepers(m))
    BY <1>10 DEF TypeInv, Balanced
  <2>2. f \in Lenders(m) <=> m = f.loader
    BY <1>7 DEF Lenders
  <2>3. CASE f.by = "slot"
    <3>1. f.held = << >>
      BY <1>7, <2>3 DEF CallSound
    <3>2. ~(f \in Keepers(m)) /\ (g \in Keepers(m) <=> m = f.loader)
      <4>1. g.held # << >> /\ g.held[1].loader = f.loader
        BY <1>6, <2>3
      <4> QED BY <1>5, <3>1, <4>1 DEF Keepers
    <3> QED BY <1>6, <1>10, <2>1, <2>2, <2>3, <3>2 DEF One
  <2>4. CASE f.by # "slot"
    <3>1. g \in Keepers(m) <=> f \in Keepers(m)
      BY <1>5, <1>6, <1>7, <2>4 DEF Keepers
    <3>2. CASE m = f.loader
      <4>1. Out(S[m]) + 1 = Out(slots[m]) /\ Out(S[m]) \in Nat
        BY <1>6, <2>4, <3>2, OutIsCount DEF Given
      <4> QED BY <1>10, <2>1, <2>2, <3>1, <3>2, <4>1 DEF One
    <3>3. CASE m # f.loader
      <4>1. S[m] = slots[m]
        BY <1>6, <2>4, <3>3 DEF Given, SameBut
      <4> QED BY <1>10, <2>1, <2>2, <3>1, <3>3, <4>1 DEF One
    <3> QED BY <3>2, <3>3
  <2> QED BY <2>3, <2>4
<1>12. /\ StackSound(frames', nextRequest, handles) /\ GridSound(slots', nextRequest)
       /\ Balanced(slots', frames')
  BY <1>5, <1>9, <1>10, <1>11, CallMade
<1>13. /\ Basics' /\ nextRequest' = nextRequest /\ handles' = handles /\ request' = request
  BY DEF ReturnNotMine, TypeInv, Basics, wake
<1> QED BY <1>12, <1>13 DEF TypeInv

-----------------------------------------------------------------------------
(***************************************************************************)
(* Types: wake-ups.                                                        *)
(***************************************************************************)
LEMMA WokenFacts ==
  ASSUME NEW c \in CallState
  PROVE  /\ Woken(c) \in CallState /\ Woken(c).token = c.token /\ Woken(c).gen = c.gen
         /\ Woken(c).age = c.age /\ Woken(c).meta = c.meta /\ Woken(c).probe = c.probe
         /\ Woken(c).ready /\ ~Woken(c).linked
         /\ c \in RunningCall => Woken(c) \in RunningCall
BY DEF Woken, CallState, RunningCall

LEMMA WakeSlotTyped ==
  ASSUME TypeInv, NEW l \in Loaders, NEW s \in Slots, WakeSlot(l, s)
  PROVE  TypeInv' /\ Replaced(slots, slots', l, s, Woken(slots[l][s]))
<1>1. PICK c : c = slots[l][s]
  OBVIOUS
<1>2. c # Leased /\ c \in CallState /\ c.gen <= nextRequest
  BY <1>1 DEF WakeSlot, Waits, TypeInv, GridSound, Grid, Row
<1>3. slots' = WithCall(slots, l, s, Woken(c))
  BY <1>1 DEF WakeSlot, WithCall
<1>4. Woken(c) \in CallState /\ Woken(c).gen = c.gen
  BY <1>2, WokenFacts
<1>5. Replaced(slots, slots', l, s, Woken(c))
  BY <1>1, <1>2, <1>3, <1>4, Typed, ReplacedFacts
<1>6. GridSound(slots', nextRequest)
  BY <1>2, <1>4, <1>5, GridMoves DEF TypeInv
<1>7. Balanced(slots', frames)
  BY <1>5 DEF TypeInv, Balanced, Replaced, SameBut
<1>8. managerReady' \in BOOLEAN /\ managerLinked' \in BOOLEAN /\ hostWoken' \in BOOLEAN
  BY WakeTyped DEF WakeSlot, TypeInv
<1>9. Basics' /\ nextRequest' = nextRequest /\ handles' = handles /\ request' = request /\ frames' = frames
  BY <1>8 DEF WakeSlot, TypeInv, Basics
<1> QED BY <1>1, <1>5, <1>6, <1>7, <1>9 DEF TypeInv

LEMMA WakeRunningFacts ==
  ASSUME TypeInv, NEW i \in DOMAIN frames, WakeRunning(i)
  PROVE  /\ StacksAlike(frames, frames') /\ frames[i].op = "call" /\ frames[i].call \in RunningCall
         /\ \A j \in DOMAIN frames : j # i => frames'[j] = frames[j]
         /\ frames'[i].call = Woken(frames[i].call)
         /\ \A j \in DOMAIN frames : frames[j].op # "poll" => frames'[j].fresh = frames[j].fresh
<1>1. PICK f : f = frames[i]
  OBVIOUS
<1>2. f \in Frame /\ f.op = "call" /\ frames \in Seq(Frame)
  BY <1>1, Typed DEF WakeRunning
<1>3. f \in CallFrame /\ f.call \in RunningCall
  BY <1>2, FrameKinds, FrameTypes
<1>4. PICK g : g = [f EXCEPT !.call = Woken(f.call)]
  OBVIOUS
<1>5. /\ Woken(f.call) \in RunningCall /\ Woken(f.call).token = f.call.token
      /\ Woken(f.call).gen = f.call.gen /\ Woken(f.call).age = f.call.age
      /\ Woken(f.call).probe = f.call.probe
  BY <1>3, CallTypes, WokenFacts
<1>6. /\ g \in CallFrame /\ g.op = "call" /\ g.call = Woken(f.call) /\ g.fresh = f.fresh
      /\ g.by = f.by /\ g.loader = f.loader /\ g.held = f.held /\ g.handle = f.handle
  BY <1>2, <1>3, <1>4, <1>5 DEF CallFrame
<1>7. Alike(f, g)
  BY <1>2, <1>5, <1>6 DEF Alike, TokenOf, GenOf, AgeOf
<1>8. frames' = [frames EXCEPT ![i] = g]
  BY <1>1, <1>4 DEF WakeRunning
<1>9. \A j \in DOMAIN frames : frames'[j] = IF j = i THEN g ELSE frames[j]
  BY <1>2, <1>8
<1>10. frames' \in Seq(Frame) /\ Len(frames') = Len(frames) /\ DOMAIN frames' = DOMAIN frames
  BY <1>2, <1>6, <1>8 DEF Frame
<1>11. \A j \in DOMAIN frames : Alike(frames[j], frames'[j])
  BY <1>1, <1>7, <1>9 DEF Alike
<1> QED BY <1>1, <1>2, <1>3, <1>6, <1>9, <1>10, <1>11 DEF StacksAlike

LEMMA WakeRunningTyped ==
  ASSUME TypeInv, NEW i \in DOMAIN frames, WakeRunning(i)
  PROVE  TypeInv'
<1>1. StackSound(frames', nextRequest, handles)
  <2>1. \A j \in DOMAIN frames : frames'[j].op # "poll" /\ frames'[j].fresh => frames[j].fresh
    BY WakeRunningFacts DEF StacksAlike, Alike
  <2> QED BY <2>1, WakeRunningFacts, StackAlike DEF TypeInv
<1>2. \A l : LentIn(frames', l) = LentIn(frames, l)
  BY WakeRunningFacts, AlikeLends, Typed
<1>3. managerReady' \in BOOLEAN /\ managerLinked' \in BOOLEAN /\ hostWoken' \in BOOLEAN
  BY WakeTyped DEF WakeRunning, TypeInv
<1>4. Basics' /\ nextRequest' = nextRequest /\ handles' = handles /\ request' = request /\ slots' = slots
  BY <1>3 DEF WakeRunning, TypeInv, Basics
<1> QED BY <1>1, <1>2, <1>4 DEF TypeInv, Balanced

LEMMA WakeLateTyped ==
  ASSUME TypeInv, WakeLate
  PROVE  TypeInv'
<1>1. managerReady' \in BOOLEAN /\ managerLinked' \in BOOLEAN /\ hostWoken' \in BOOLEAN
  BY WakeTyped DEF WakeLate, TypeInv
<1> QED BY <1>1 DEF WakeLate, TypeInv, Basics

LEMMA NextTyped == TypeInv /\ [Next]_vars => TypeInv'
<1> SUFFICES ASSUME TypeInv, [Next]_vars PROVE TypeInv'
  OBVIOUS
<1>1. CASE UNCHANGED vars
  BY <1>1 DEF vars, wake, TypeInv, Basics
<1>2. ASSUME NEW t \in Tokens, NEW kind \in Offered, Register(t, kind) PROVE TypeInv'
  BY <1>2, RegisterTyped
<1>3. ASSUME NEW t \in Tokens, ClearFailed(t) \/ Reload(t) PROVE TypeInv'
  BY <1>3, ClearFailedTyped, ReloadTyped
<1>4. ASSUME NEW t \in Tokens, Resolve(t, TRUE, None) PROVE TypeInv'
  <2>1. Asks(None, t)
    BY DEF Asks
  <2>2. \E detached \in BOOLEAN : Resolve(t, detached, None)
    BY <1>4
  <2> QED BY <2>1, <2>2, ResolveTyped
<1>5. ASSUME NEW t \in Tokens, ProbeCompleted(t) PROVE TypeInv'
  BY <1>5, ProbeCompletedTyped
<1>6. ASSUME NEW t \in Tokens, NEW detached \in BOOLEAN,
             ProbeJoin(t, detached) \/ ProbeAtOnce(t, detached) \/ ProbeChain(t, detached)
      PROVE  TypeInv'
  BY <1>6, ProbeJoinTyped, ProbeAtOnceTyped, ProbeChainTyped
<1>7. ASSUME NEW t \in Tokens, PollQueued(t) PROVE TypeInv'
  BY <1>7, PollQueuedTyped
<1>8. ASSUME NEW h \in Handles, NEW t \in Tokens, Load(h, t) PROVE TypeInv'
  BY <1>8, LoadTyped
<1>9. ASSUME NEW h \in Handles, NEW copy \in Handles, CloneHandle(h, copy) PROVE TypeInv'
  BY <1>9, CloneHandleTyped
<1>10. ASSUME NEW h \in Handles, DropHandle(h) PROVE TypeInv'
  BY <1>10, DropHandleTyped
<1>11. ASSUME NEW h \in Handles, Get(h) PROVE TypeInv'
  <2>1. PICK t : t = handles[h].token
    OBVIOUS
  <2>2. t \in Tokens /\ Asks(h, t)
    BY <1>11, <2>1, Typed DEF Get, Asks, HandleState
  <2>3. \E detached \in BOOLEAN : Resolve(t, detached, h)
    BY <1>11, <2>1 DEF Get
  <2> QED BY <2>2, <2>3, ResolveTyped
<1>12. ASSUME NEW ok \in BOOLEAN, FactoryReturns(ok) PROVE TypeInv'
  BY <1>12, FactoryReturnsTyped
<1>13. CASE PollBegin \/ PollSlot \/ PollEnd
  BY <1>13, PollBeginTyped, PollSlotTyped, PollEndTyped
<1>14. CASE Return
  BY <1>14, ReturnStaleTyped, ReturnPendingTyped, ReturnValueTyped, ReturnMetaTyped,
     ReturnMetaWantedTyped, ReturnNotMineTyped, ReturnErrorTyped DEF Return
<1>15. ASSUME NEW l \in Loaders, NEW s \in Slots, WakeSlot(l, s) PROVE TypeInv'
  BY <1>15, WakeSlotTyped
<1>16. ASSUME NEW i \in DOMAIN frames, WakeRunning(i) PROVE TypeInv'
  BY <1>16, WakeRunningTyped
<1>17. CASE WakeLate
  BY <1>17, WakeLateTyped
<1> QED BY <1>1, <1>2, <1>3, <1>4, <1>5, <1>6, <1>7, <1>8, <1>9, <1>10, <1>11, <1>12, <1>13,
           <1>14, <1>15, <1>16, <1>17 DEF Next

LEMMA TypesHold == Spec => []TypeInv
<1>1. Init => TypeInv
  BY InitTyped
<1>2. TypeInv /\ [Next]_vars => TypeInv'
  BY NextTyped
<1> QED BY <1>1, <1>2, PTL DEF Spec

\* The state keeps its type whatever callbacks do: every lease is in the hands of
\* a call that runs, so that put always finds a slot (core/resource/loader.rs).
THEOREM Typing == Spec => []TypeOK
<1>1. TypeInv => TypeOK
  BY TypeInvTyped
<1> QED BY <1>1, TypesHold, PTL


-----------------------------------------------------------------------------
(***************************************************************************)
(* Who works for a request, when slots and the stack change.               *)
(***************************************************************************)
SameWaiting(S, T, t, g) ==
  /\ Waiting(T, t, g) = Waiting(S, t, g)
  /\ \A p \in Waiting(S, t, g) : T[p[1]][p[2]].age = S[p[1]][p[2]].age
SameRunning(stack, other, t, g) ==
  /\ Running(other, t, g) = Running(stack, t, g)
  /\ \A i \in Running(stack, t, g) : AgeOf(other[i]) = AgeOf(stack[i])

\* Nothing happens to the request of token t or to whoever works for it.
Undisturbed(t) ==
  request'[t] # None =>
    /\ request[t] # None /\ request'[t].gen = request[t].gen
    /\ request'[t].queued = request[t].queued /\ age'[t] = age[t]
    /\ SameWaiting(slots, slots', t, request[t].gen)
    /\ SameRunning(frames, frames', t, request[t].gen)

LEMMA WorksStill ==
  ASSUME NEW t \in Tokens, Works(slots, frames, request[t], age[t], t), Undisturbed(t)
  PROVE  Works(slots', frames', request'[t], age'[t], t)
<1> SUFFICES ASSUME request'[t] # None PROVE Works(slots', frames', request'[t], age'[t], t)
  BY DEF Works
<1> DEFINE W == Waiting(slots, t, request[t].gen)
           R == Running(frames, t, request[t].gen)
<1>1. /\ request[t] # None /\ request'[t].gen = request[t].gen
      /\ request'[t].queued = request[t].queued /\ age'[t] = age[t]
      /\ Waiting(slots', t, request'[t].gen) = W /\ Running(frames', t, request'[t].gen) = R
      /\ \A p \in W : slots'[p[1]][p[2]].age = slots[p[1]][p[2]].age
      /\ \A i \in R : AgeOf(frames'[i]) = AgeOf(frames[i])
  BY DEF Undisturbed, SameWaiting, SameRunning
<1>2. /\ IF request[t].queued THEN W = {} /\ R = {} ELSE Alone(W, R)
      /\ \A p \in W : slots[p[1]][p[2]].age = age[t]
      /\ \A i \in R : AgeOf(frames[i]) = age[t]
  BY <1>1 DEF Works
<1> HIDE DEF W, R
<1> QED BY <1>1, <1>2 DEF Works

\* Somebody else's slot changes; the one slot gains or loses a waiting call.
LEMMA OneSlot ==
  ASSUME NEW S, NEW T, NEW l \in Loaders, NEW s \in Slots, SameBut(S, T, l, s), NEW t, NEW g
  PROVE  /\ ~WaitsFor(S[l][s], t, g) /\ ~WaitsFor(T[l][s], t, g) => SameWaiting(S, T, t, g)
         /\ WaitsFor(S[l][s], t, g) /\ WaitsFor(T[l][s], t, g) /\ T[l][s].age = S[l][s].age
              => SameWaiting(S, T, t, g)
<1>1. ASSUME NEW p \in Loaders \X Slots, p # <<l, s>> PROVE T[p[1]][p[2]] = S[p[1]][p[2]]
  <2>1. p[1] \in Loaders /\ p[2] \in Slots /\ (p[1] # l \/ p[2] # s)
    BY <1>1
  <2> QED BY <2>1 DEF SameBut
<1>2. <<l, s>> \in Loaders \X Slots /\ <<l, s>>[1] = l /\ <<l, s>>[2] = s
  OBVIOUS
<1>3. \A p : p \in Waiting(S, t, g) <=> p \in Loaders \X Slots /\ WaitsFor(S[p[1]][p[2]], t, g)
  BY DEF Waiting
<1>4. \A p : p \in Waiting(T, t, g) <=> p \in Loaders \X Slots /\ WaitsFor(T[p[1]][p[2]], t, g)
  BY DEF Waiting
<1>5. \A p \in Loaders \X Slots : p # <<l, s>> =>
        (p \in Waiting(T, t, g) <=> p \in Waiting(S, t, g)) /\ T[p[1]][p[2]] = S[p[1]][p[2]]
  BY <1>1, <1>3, <1>4
<1>6. /\ <<l, s>> \in Waiting(S, t, g) <=> WaitsFor(S[l][s], t, g)
      /\ <<l, s>> \in Waiting(T, t, g) <=> WaitsFor(T[l][s], t, g)
  BY <1>2, <1>3, <1>4
<1>7. Waiting(S, t, g) \subseteq Loaders \X Slots /\ Waiting(T, t, g) \subseteq Loaders \X Slots
  BY DEF Waiting
<1>8. ASSUME WaitsFor(S[l][s], t, g) <=> WaitsFor(T[l][s], t, g)
      PROVE  Waiting(T, t, g) = Waiting(S, t, g)
  <2>1. \A p \in Loaders \X Slots : p \in Waiting(T, t, g) <=> p \in Waiting(S, t, g)
    BY <1>5, <1>6, <1>8
  <2> QED BY <1>7, <2>1
<1>9. ASSUME ~WaitsFor(S[l][s], t, g), ~WaitsFor(T[l][s], t, g) PROVE SameWaiting(S, T, t, g)
  BY <1>5, <1>6, <1>7, <1>8, <1>9 DEF SameWaiting
<1>10. ASSUME WaitsFor(S[l][s], t, g), WaitsFor(T[l][s], t, g), T[l][s].age = S[l][s].age
       PROVE  SameWaiting(S, T, t, g)
  <2>1. \A p \in Loaders \X Slots : p = <<l, s>> => T[p[1]][p[2]].age = S[p[1]][p[2]].age
    BY <1>2, <1>10
  <2>2. \A p \in Waiting(S, t, g) : T[p[1]][p[2]].age = S[p[1]][p[2]].age
    BY <1>5, <1>7, <2>1
  <2> QED BY <1>8, <1>10, <2>2 DEF SameWaiting
<1> QED BY <1>9, <1>10

LEMMA OneSlotWaits ==
  ASSUME NEW S, NEW T, NEW l \in Loaders, NEW s \in Slots, SameBut(S, T, l, s), NEW t, NEW g,
         NEW p
  PROVE  /\ p \in Waiting(T, t, g) <=> \/ p \in Waiting(S, t, g) /\ p # <<l, s>>
                                       \/ p = <<l, s>> /\ WaitsFor(T[l][s], t, g)
         /\ p \in Loaders \X Slots /\ p # <<l, s>> => T[p[1]][p[2]] = S[p[1]][p[2]]
<1>1. ASSUME p \in Loaders \X Slots, p # <<l, s>> PROVE T[p[1]][p[2]] = S[p[1]][p[2]]
  <2>1. p[1] \in Loaders /\ p[2] \in Slots /\ (p[1] # l \/ p[2] # s)
    BY <1>1
  <2> QED BY <2>1 DEF SameBut
<1>2. <<l, s>> \in Loaders \X Slots /\ <<l, s>>[1] = l /\ <<l, s>>[2] = s
  OBVIOUS
<1>3. CASE p = <<l, s>>
  <2>1. p \in Loaders \X Slots /\ p[1] = l /\ p[2] = s
    BY <1>2, <1>3
  <2> QED BY <1>3, <2>1 DEF Waiting
<1>4. CASE p # <<l, s>>
  BY <1>1, <1>4 DEF Waiting
<1> QED BY <1>1, <1>3, <1>4

LEMMA SameWaitingTwice ==
  ASSUME NEW S, NEW T, NEW U, NEW t, NEW g, SameWaiting(S, T, t, g), SameWaiting(T, U, t, g)
  PROVE  SameWaiting(S, U, t, g)
BY DEF SameWaiting

LEMMA NothingChanges ==
  ASSUME NEW S, NEW stack, NEW t, NEW g
  PROVE  SameWaiting(S, S, t, g) /\ SameRunning(stack, stack, t, g)
BY DEF SameWaiting, SameRunning

\* invalidate touches no call of another token.
LEMMA InvalidatedWaits ==
  ASSUME TypeInv, NEW t \in Tokens, NEW u \in Tokens, u # t, NEW g,
         NEW T, T = InvalidatedGrid(slots, t)
  PROVE  SameWaiting(slots, T, u, g)
<1>1. GridSound(slots, nextRequest) /\ nextRequest \in Nat
  BY Typed DEF TypeInv
<1>2. \A l \in Loaders, s \in Slots :
        /\ slots[l][s] # Leased /\ slots[l][s].token # t => T[l][s] = slots[l][s]
        /\ T[l][s] # Leased => T[l][s] = Free \/ (T[l][s] = slots[l][s] /\ slots[l][s].token # t)
                               \/ WokenFrom(slots[l], t, T[l][s])
  BY <1>1, InvalidatedGridFacts
<1>3. slots \in Grid
  BY Typed
<1>4. ASSUME NEW l \in Loaders, NEW s \in Slots
      PROVE  /\ WaitsFor(slots[l][s], u, g) => T[l][s] = slots[l][s]
             /\ WaitsFor(T[l][s], u, g) => T[l][s] = slots[l][s]
  <2>1. ASSUME WaitsFor(slots[l][s], u, g) PROVE T[l][s] = slots[l][s]
    BY <1>2, <2>1 DEF WaitsFor, Waits
  <2>2. ASSUME WaitsFor(T[l][s], u, g), T[l][s] = Free PROVE FALSE
    BY <2>2 DEF WaitsFor, Waits, Free
  <2>3. ASSUME WaitsFor(T[l][s], u, g), WokenFrom(slots[l], t, T[l][s]) PROVE FALSE
    <3>1. PICK x \in Slots : Holds(slots[l][x], t) /\ T[l][s] = Woken(slots[l][x])
      BY <2>3 DEF WokenFrom
    <3>2. slots[l][x] \in CallState /\ slots[l][x].token = t
      BY <1>3, <3>1 DEF Holds, Grid, Row
    <3>3. T[l][s].token = t
      BY <3>1, <3>2, WokenFacts
    <3> QED BY <2>3, <3>3 DEF WaitsFor
  <2> QED BY <1>2, <2>1, <2>2, <2>3 DEF WaitsFor, Waits
<1>5. \A p \in Loaders \X Slots :
        /\ WaitsFor(slots[p[1]][p[2]], u, g) => T[p[1]][p[2]] = slots[p[1]][p[2]]
        /\ WaitsFor(T[p[1]][p[2]], u, g) => T[p[1]][p[2]] = slots[p[1]][p[2]]
  BY <1>4
<1>6. Waiting(T, u, g) = Waiting(slots, u, g)
  BY <1>5 DEF Waiting
<1>7. \A p \in Waiting(slots, u, g) : T[p[1]][p[2]].age = slots[p[1]][p[2]].age
  BY <1>5 DEF Waiting
<1> QED BY <1>6, <1>7 DEF SameWaiting

LEMMA PushedRuns ==
  ASSUME NEW stack \in Seq(Frame), NEW f \in Frame, NEW t, NEW g
  PROVE  /\ ~RunsFor(f, t, g) => SameRunning(stack, Append(stack, f), t, g)
         /\ RunsFor(f, t, g) =>
              Running(Append(stack, f), t, g) = Running(stack, t, g) \cup {Len(stack) + 1}
         /\ Append(stack, f)[Len(stack) + 1] = f
         /\ \A i \in DOMAIN stack : Append(stack, f)[i] = stack[i]
         /\ Len(stack) + 1 \notin Running(stack, t, g)
<1>1. PICK more : more = Append(stack, f)
  OBVIOUS
<1>2. /\ Len(more) = Len(stack) + 1 /\ more[Len(more)] = f /\ Len(more) \notin DOMAIN stack
      /\ DOMAIN more = DOMAIN stack \cup {Len(more)}
      /\ \A i \in DOMAIN stack : more[i] = stack[i]
  BY <1>1, Pushed
<1>3. /\ ~RunsFor(f, t, g) => Running(more, t, g) = Running(stack, t, g)
      /\ RunsFor(f, t, g) => Running(more, t, g) = Running(stack, t, g) \cup {Len(more)}
  BY <1>2 DEF Running
<1>4. \A i \in Running(stack, t, g) : AgeOf(more[i]) = AgeOf(stack[i])
  BY <1>2 DEF Running
<1>5. Len(more) \notin Running(stack, t, g)
  BY <1>2 DEF Running
<1> QED BY <1>1, <1>2, <1>3, <1>4, <1>5 DEF SameRunning

LEMMA PoppedRuns ==
  ASSUME NEW stack \in Seq(Frame), stack # << >>, NEW t, NEW g
  PROVE  /\ ~RunsFor(Last(stack), t, g) => SameRunning(stack, Front(stack), t, g)
         /\ RunsFor(Last(stack), t, g) =>
              Running(Front(stack), t, g) = Running(stack, t, g) \ {Len(stack)}
         /\ \A i \in Running(Front(stack), t, g) : Front(stack)[i] = stack[i]
         /\ Len(stack) \in Running(stack, t, g) <=> RunsFor(Last(stack), t, g)
<1>1. PICK less, f : less = Front(stack) /\ f = Last(stack)
  OBVIOUS
<1>2. /\ less \in Seq(Frame) /\ f \in Frame /\ stack = Append(less, f)
      /\ Len(less) = Len(stack) - 1 /\ f = stack[Len(stack)]
      /\ \A i \in DOMAIN less : less[i] = stack[i]
  BY <1>1, Popped
<1>3. Len(stack) \in DOMAIN stack /\ Len(stack) = Len(less) + 1
  BY <1>2, Pushed
<1>4. /\ ~RunsFor(f, t, g) => SameRunning(less, stack, t, g)
      /\ RunsFor(f, t, g) => Running(stack, t, g) = Running(less, t, g) \cup {Len(less) + 1}
      /\ Len(less) + 1 \notin Running(less, t, g)
  BY <1>2, PushedRuns
<1>5. Len(stack) \in Running(stack, t, g) <=> RunsFor(f, t, g)
  BY <1>2, <1>3 DEF Running
<1>6. \A i \in Running(less, t, g) : less[i] = stack[i]
  BY <1>2 DEF Running
<1>7. ~RunsFor(f, t, g) => SameRunning(stack, less, t, g)
  BY <1>4 DEF SameRunning
<1> QED BY <1>1, <1>3, <1>4, <1>5, <1>6, <1>7

LEMMA AlikeRuns ==
  ASSUME NEW stack \in Seq(Frame), NEW other, StacksAlike(stack, other), NEW t, NEW g
  PROVE  SameRunning(stack, other, t, g)
<1>1. DOMAIN other = DOMAIN stack /\ \A i \in DOMAIN stack : Alike(stack[i], other[i])
  BY DEF StacksAlike
<1>2. \A i \in DOMAIN stack : RunsFor(other[i], t, g) <=> RunsFor(stack[i], t, g)
  BY <1>1 DEF Alike, RunsFor
<1>3. \A i \in DOMAIN stack : RunsFor(stack[i], t, g) => AgeOf(other[i]) = AgeOf(stack[i])
  BY <1>1 DEF Alike, RunsFor
<1> QED BY <1>1, <1>2, <1>3 DEF SameRunning, Running

LEMMA SameRunningTwice ==
  ASSUME NEW S, NEW T, NEW U, NEW t, NEW g, SameRunning(S, T, t, g), SameRunning(T, U, t, g)
  PROVE  SameRunning(S, U, t, g)
BY DEF SameRunning

\* The stack with older answers, or without its top frame, which works for another
\* request.
LEMMA StackRuns ==
  ASSUME TypeInv, NEW t, NEW g
  PROVE  /\ SameRunning(frames, Aged(frames), t, g)
         /\ frames # << >> /\ ~RunsFor(Top, t, g) =>
              SameRunning(frames, Callers, t, g) /\ SameRunning(frames, Aged(Callers), t, g)
<1>1. frames \in Seq(Frame)
  BY Typed
<1>2. SameRunning(frames, Aged(frames), t, g)
  BY <1>1, AgedFacts, AlikeRuns
<1>3. ASSUME frames # << >>, ~RunsFor(Top, t, g)
      PROVE  SameRunning(frames, Callers, t, g) /\ SameRunning(frames, Aged(Callers), t, g)
  <2>1. SameRunning(frames, Callers, t, g) /\ Callers \in Seq(Frame)
    BY <1>1, <1>3, PoppedRuns, Popped DEF Top, Callers
  <2>2. SameRunning(Callers, Aged(Callers), t, g)
    BY <2>1, AgedFacts, AlikeRuns
  <2> QED BY <2>1, <2>2, SameRunningTwice
<1> QED BY <1>2, <1>3

\* A new generation is nobody's yet.
LEMMA NewGeneration ==
  ASSUME TypeInv, NEW t \in Tokens, NEW g \in Nat, g > nextRequest
  PROVE  Waiting(slots, t, g) = {} /\ Running(frames, t, g) = {}
<1>1. GridSound(slots, nextRequest) /\ StackSound(frames, nextRequest, handles)
      /\ nextRequest \in Nat /\ slots \in Grid /\ frames \in Seq(Frame)
  BY Typed DEF TypeInv
<1>2. ASSUME NEW p \in Waiting(slots, t, g) PROVE FALSE
  <2>1. p[1] \in Loaders /\ p[2] \in Slots /\ slots[p[1]][p[2]] # Leased /\ slots[p[1]][p[2]].gen = g
    BY DEF Waiting, WaitsFor, Waits
  <2>2. slots[p[1]][p[2]].gen <= nextRequest
    BY <1>1, <2>1 DEF GridSound
  <2> QED BY <1>1, <2>1, <2>2
<1>3. ASSUME NEW i \in Running(frames, t, g) PROVE FALSE
  <2>1. i \in DOMAIN frames /\ frames[i].op # "poll" /\ GenOf(frames[i]) = g
    BY DEF Running, RunsFor
  <2>2. GenOf(frames[i]) <= nextRequest
    BY <1>1, <2>1 DEF StackSound, FrameSound
  <2> QED BY <1>1, <2>1, <2>2
<1> QED BY <1>2, <1>3

-----------------------------------------------------------------------------
(***************************************************************************)
(* Who works for a request, action by action.                              *)
(***************************************************************************)
LEMMA ServeStays ==
  ASSUME ServeInv, \A t \in Tokens : Undisturbed(t)
  PROVE  ServeInv'
<1>1. \A t \in Tokens : Works(slots', frames', request'[t], age'[t], t)
  BY WorksStill DEF ServeInv
<1> QED BY <1>1 DEF ServeInv

LEMMA ServeBut ==
  ASSUME ServeInv, NEW t \in Tokens, \A u \in Tokens : u # t => Undisturbed(u),
         Works(slots', frames', request'[t], age'[t], t)
  PROVE  ServeInv'
<1>1. \A u \in Tokens : Works(slots', frames', request'[u], age'[u], u)
  BY WorksStill DEF ServeInv
<1> QED BY <1>1 DEF ServeInv

\* Nothing happens to slots or callbacks, and to requests only what they ask for.
LEMMA OnlyAsked ==
  ASSUME TypeInv, ServeInv, slots' = slots, age' = age, frames' = frames \/ frames' = Aged(frames),
         \A u \in Tokens : request'[u] # None =>
           /\ request[u] # None /\ request'[u].gen = request[u].gen
           /\ request'[u].queued = request[u].queued
  PROVE  ServeInv'
<1>1. ASSUME NEW u \in Tokens PROVE Undisturbed(u)
  <2>1. SameWaiting(slots, slots', u, request[u].gen)
    BY NothingChanges
  <2>2. SameRunning(frames, frames', u, request[u].gen)
    BY NothingChanges, StackRuns
  <2> QED BY <2>1, <2>2 DEF Undisturbed
<1> QED BY <1>1, ServeStays

LEMMA RegisterServes ==
  ASSUME TypeInv, ServeInv, NEW t \in Tokens, NEW kind \in Offered, Register(t, kind)
  PROVE  ServeInv'
<1>1. /\ request' = WithRequest(request, t, None) /\ frames' = Aged(frames)
      /\ slots' = InvalidatedGrid(slots, t)
  BY DEF Register, Invalidate, WithRequest, InvalidatedGrid
<1>2. request'[t] = None /\ \A u \in Tokens : u # t => request'[u] = request[u]
  BY <1>1, Forgotten
<1>3. \A u \in Tokens : u # t => age'[u] = age[u]
  BY Typed DEF Register
<1>4. ASSUME NEW u \in Tokens PROVE Undisturbed(u)
  <2>1. CASE u = t
    BY <1>2, <2>1 DEF Undisturbed
  <2>2. CASE u # t
    <3>1. SameWaiting(slots, slots', u, request[u].gen)
      BY <1>1, <2>2, InvalidatedWaits
    <3>2. SameRunning(frames, frames', u, request[u].gen)
      BY <1>1, StackRuns
    <3> QED BY <1>2, <1>3, <2>2, <3>1, <3>2 DEF Undisturbed
  <2> QED BY <2>1, <2>2
<1> QED BY <1>4, ServeStays

LEMMA DropHandleServes ==
  ASSUME TypeInv, ServeInv, NEW h \in Handles, DropHandle(h)
  PROVE  ServeInv'
<1>1. PICK t : t = handles[h].token
  OBVIOUS
<1>2. t \in Tokens
  BY <1>1, Typed DEF DropHandle, HandleState
<1>3. frames' = frames /\ age' = age
  BY DEF DropHandle
<1>4. CASE request' = request /\ slots' = slots
  BY <1>3, <1>4, OnlyAsked
<1>5. CASE request' = WithRequest(request, t, None) /\ slots' = InvalidatedGrid(slots, t)
  <2>1. request'[t] = None /\ \A u \in Tokens : u # t => request'[u] = request[u]
    BY <1>2, <1>5, Forgotten
  <2>2. ASSUME NEW u \in Tokens PROVE Undisturbed(u)
    <3>1. CASE u = t
      BY <2>1, <3>1 DEF Undisturbed
    <3>2. CASE u # t
      <4>1. SameWaiting(slots, slots', u, request[u].gen)
        BY <1>2, <1>5, <3>2, InvalidatedWaits
      <4>2. SameRunning(frames, frames', u, request[u].gen)
        BY <1>3, NothingChanges
      <4> QED BY <1>3, <2>1, <3>2, <4>1, <4>2 DEF Undisturbed
    <3> QED BY <3>1, <3>2
  <2> QED BY <2>2, ServeStays
<1> QED BY <1>1, <1>4, <1>5 DEF DropHandle, Invalidate, WithRequest, InvalidatedGrid

LEMMA ReloadServes ==
  ASSUME TypeInv, ServeInv, NEW t \in Tokens, Reload(t)
  PROVE  ServeInv'
<1>1. PICK r : r = [gen |-> nextRequest + 1, load |-> TRUE, queued |-> TRUE, detached |-> TRUE]
  OBVIOUS
<1>2. /\ request' = WithRequest(request, t, r) /\ frames' = frames
      /\ slots' = InvalidatedGrid(slots, t)
  BY <1>1 DEF Reload, WithRequest, InvalidatedGrid
<1>3. nextRequest \in Nat /\ nextRequest < MaxRequest /\ nextRequest + 1 \in 1..MaxRequest
  BY Typed, Sizes DEF Reload
<1>4. r \in Request /\ r.gen = nextRequest + 1 /\ r.queued
  BY <1>1, <1>3 DEF Request
<1>5. request'[t] = r /\ \A u \in Tokens : u # t => request'[u] = request[u]
  <2>1. RequestsSound(request, nextRequest) /\ nextRequest + 1 \in Nat
        /\ nextRequest <= nextRequest + 1 /\ r.gen <= nextRequest + 1
    BY <1>3, <1>4 DEF TypeInv
  <2> QED BY <1>2, <1>3, <1>4, <2>1, RequestSet
<1>6. \A u \in Tokens : u # t => age'[u] = age[u]
  BY Typed DEF Reload
<1>7. ASSUME NEW u \in Tokens, u # t PROVE Undisturbed(u)
  <2>1. SameWaiting(slots, slots', u, request[u].gen)
    BY <1>2, <1>7, InvalidatedWaits
  <2>2. SameRunning(frames, frames', u, request[u].gen)
    BY <1>2, NothingChanges
  <2> QED BY <1>5, <1>6, <1>7, <2>1, <2>2 DEF Undisturbed
<1>8. Waiting(slots', t, r.gen) = {}
  <2>1. GridSound(slots', nextRequest)
    BY <1>2, <1>3, InvalidatedGridFacts DEF TypeInv
  <2>2. ASSUME NEW p \in Waiting(slots', t, r.gen) PROVE FALSE
    <3>1. p[1] \in Loaders /\ p[2] \in Slots /\ slots'[p[1]][p[2]] # Leased
          /\ slots'[p[1]][p[2]].gen = r.gen
      BY <2>2 DEF Waiting, WaitsFor, Waits
    <3>2. slots'[p[1]][p[2]].gen <= nextRequest
      BY <2>1, <3>1 DEF GridSound
    <3> QED BY <1>3, <1>4, <3>1, <3>2
  <2> QED BY <2>2
<1>9. Running(frames', t, r.gen) = {}
  BY <1>2, <1>3, <1>4, NewGeneration
<1>10. Works(slots', frames', request'[t], age'[t], t)
  BY <1>4, <1>5, <1>8, <1>9 DEF Works
<1> QED BY <1>7, <1>10, ServeBut

\* A call or a factory begins to work for a request nobody works for.
LEMMA WorkBegins ==
  ASSUME TypeInv, ServeInv, NEW t \in Tokens, NEW g, request'[t] # None, request'[t].gen = g,
         ~request'[t].queued, age' = age, \A u \in Tokens : u # t => request'[u] = request[u],
         Waiting(slots', t, g) = {}, Running(frames, t, g) = {},
         \A u \in Tokens : u # t => SameWaiting(slots, slots', u, request[u].gen),
         NEW f \in Frame, f.op # "poll", TokenOf(f) = t, GenOf(f) = g, AgeOf(f) = age[t],
         frames' = Append(frames, f)
  PROVE  ServeInv'
<1>1. frames \in Seq(Frame)
  BY Typed
<1>2. ASSUME NEW u \in Tokens, u # t PROVE Undisturbed(u)
  <2>1. ~RunsFor(f, u, request[u].gen)
    BY <1>2 DEF RunsFor
  <2>2. SameRunning(frames, frames', u, request[u].gen)
    BY <1>1, <2>1, PushedRuns
  <2> QED BY <1>2, <2>2 DEF Undisturbed
<1>3. Running(frames', t, g) = {Len(frames) + 1} /\ frames'[Len(frames) + 1] = f
  <2>1. RunsFor(f, t, g)
    BY DEF RunsFor
  <2>2. Running(frames', t, g) = Running(frames, t, g) \cup {Len(frames) + 1}
        /\ frames'[Len(frames) + 1] = f
    BY <1>1, <2>1, PushedRuns
  <2> QED BY <2>2
<1>4. Alone(Waiting(slots', t, g), Running(frames', t, g))
  BY <1>3 DEF Alone
<1>5. Works(slots', frames', request'[t], age'[t], t)
  BY <1>3, <1>4 DEF Works
<1> QED BY <1>2, <1>5, ServeBut

LEMMA ResolveFactoryServes ==
  ASSUME TypeInv, ServeInv, NEW t \in Tokens, NEW detached \in BOOLEAN, NEW h, Asks(h, t),
         ResolveFactory(t, detached, h)
  PROVE  ServeInv'
<1>1. PICK yes \in BOOLEAN : yes = TRUE
  OBVIOUS
<1>2. Begin(t, yes, detached)
  BY <1>1 DEF ResolveFactory
<1>3. /\ nextRequest' = nextRequest + 1 /\ nextRequest' \in 1..MaxRequest /\ nextRequest \in Nat
      /\ request'[t] \in Request /\ request'[t].gen = nextRequest + 1 /\ ~request'[t].queued
      /\ \A u \in Tokens : u # t => request'[u] = request[u]
  BY <1>2, BeginFacts
<1>4. PICK fresh \in BOOLEAN : fresh = (h # None)
  OBVIOUS
<1>5. PICK f : f = [op |-> "factory", token |-> t, gen |-> nextRequest + 1, age |-> age[t],
                    handle |-> h, fresh |-> fresh]
  OBVIOUS
<1>6. frames' = Append(frames, f) /\ slots' = slots /\ age' = age
  BY <1>4, <1>5 DEF ResolveFactory
<1>7. /\ f \in Frame /\ f.op # "poll" /\ TokenOf(f) = t /\ GenOf(f) = nextRequest + 1
      /\ AgeOf(f) = age[t]
  <2>1. f \in FactoryFrame
    BY <1>3, <1>5, Typed DEF FactoryFrame, Asks
  <2> QED BY <1>5, <2>1 DEF Frame, TokenOf, GenOf, AgeOf
<1>8. PICK g : g = nextRequest + 1
  OBVIOUS
<1>9. g \in Nat /\ g > nextRequest
  BY <1>3, <1>8
<1>10. Waiting(slots', t, g) = {} /\ Running(frames, t, g) = {}
  BY <1>6, <1>9, NewGeneration
<1>11. \A u \in Tokens : SameWaiting(slots, slots', u, request[u].gen)
  BY <1>6, NothingChanges
<1>12. request'[t] # None /\ request'[t].gen = g /\ GenOf(f) = g
  BY <1>3, <1>7, <1>8, NotNone
<1> QED BY <1>3, <1>6, <1>7, <1>10, <1>11, <1>12, WorkBegins

\* The slot of a call that begins had no call for another request.
LEMMA TakenWaits ==
  ASSUME NEW S, NEW T, NEW l \in Loaders, NEW s \in Slots, Taken(S, T, l, s), NEW t \in Tokens, NEW g,
         Waits(S[l][s]) => S[l][s].token = t /\ S[l][s].gen = g, Waiting(S, t, g) = {}
  PROVE  Waiting(T, t, g) = {}
<1>1. SameBut(S, T, l, s) /\ ~WaitsFor(T[l][s], t, g)
  BY DEF Taken, WaitsFor, Waits
<1> SUFFICES ASSUME NEW p \in Waiting(T, t, g) PROVE p \in Waiting(S, t, g)
  OBVIOUS
<1> QED BY <1>1, OneSlotWaits

LEMMA TakenKeeps ==
  ASSUME NEW S, NEW T, NEW l \in Loaders, NEW s \in Slots, Taken(S, T, l, s), NEW t \in Tokens,
         Waits(S[l][s]) => S[l][s].token = t, NEW u \in Tokens, u # t, NEW g
  PROVE  SameWaiting(S, T, u, g)
<1>1. SameBut(S, T, l, s) /\ ~WaitsFor(T[l][s], u, g)
  BY DEF Taken, WaitsFor, Waits
<1>2. ~WaitsFor(S[l][s], u, g)
  BY DEF WaitsFor
<1> QED BY <1>1, <1>2, OneSlot

LEMMA ChainServes ==
  ASSUME TypeInv, ServeInv, NEW t \in Tokens, NEW load \in BOOLEAN, NEW detached \in BOOLEAN,
         Begin(t, load, detached), NEW by, NEW h, NEW l \in Loaders, NEW s \in Slots, NEW f,
         Chained(t, by, h, l, s, f), age' = age
  PROVE  ServeInv'
<1>1. /\ nextRequest' = nextRequest + 1 /\ nextRequest \in Nat
      /\ request'[t] \in Request /\ request'[t].gen = nextRequest + 1 /\ ~request'[t].queued
      /\ \A u \in Tokens : u # t => request'[u] = request[u]
  BY BeginFacts
<1>2. PICK g : g = nextRequest'
  OBVIOUS
<1>3. /\ Taken(slots, slots', l, s) /\ (Waits(slots[l][s]) => slots[l][s].token = t /\ slots[l][s].gen = g)
      /\ f \in Frame /\ f.op # "poll" /\ TokenOf(f) = t /\ GenOf(f) = g /\ AgeOf(f) = age[t]
      /\ frames' = Append(frames, f)
  BY <1>2 DEF Chained
<1>4. g \in Nat /\ g > nextRequest
  BY <1>1, <1>2
<1>5. Waiting(slots, t, g) = {} /\ Running(frames, t, g) = {}
  BY <1>4, NewGeneration
<1>6. /\ \A u \in Tokens : u # t => SameWaiting(slots, slots', u, request[u].gen)
      /\ Waiting(slots', t, g) = {}
  BY <1>3, <1>5, TakenWaits, TakenKeeps
<1>7. request'[t] # None /\ request'[t].gen = g
  BY <1>1, <1>2, NotNone
<1> QED BY <1>1, <1>3, <1>5, <1>6, <1>7, WorkBegins

LEMMA ResolveServes ==
  ASSUME TypeInv, ServeInv, NEW t \in Tokens, NEW detached \in BOOLEAN, NEW h, Asks(h, t),
         Resolve(t, detached, h)
  PROVE  ServeInv'
<1>1. CASE ResolveAtOnce(t, h)
  BY <1>1, OnlyAsked DEF ResolveAtOnce
<1>2. CASE ResolveStatic(t, h)
  BY <1>2, OnlyAsked DEF ResolveStatic
<1>3. CASE ResolveJoin(t, detached, h)
  <2>1. PICK r \in Request : Wants(request[t], r) /\ request' = WithRequest(request, t, r)
    <3>1. /\ request[t] # None
          /\ request' = [request EXCEPT ![t].detached = @ \/ detached, ![t].load = TRUE]
      BY <1>3 DEF ResolveJoin
    <3> QED BY <3>1, Joined
  <2>2. request[t] # None /\ r.gen = request[t].gen /\ r.queued = request[t].queued
    BY <1>3, <2>1 DEF ResolveJoin, Wants
  <2>3. request'[t] = r /\ \A u \in Tokens : u # t => request'[u] = request[u]
    BY <2>1, <2>2, Wanted
  <2>4. slots' = slots /\ age' = age /\ frames' = frames
    BY <1>3 DEF ResolveJoin
  <2> QED BY <2>2, <2>3, <2>4, OnlyAsked
<1>4. CASE ResolveFactory(t, detached, h)
  BY <1>4, ResolveFactoryServes
<1>5. CASE ResolveChain(t, detached, h)
  <2>1. PICK yes \in BOOLEAN : yes = TRUE
    OBVIOUS
  <2>2. Begin(t, yes, detached) /\ age' = age
    BY <1>5, <2>1 DEF ResolveChain
  <2>3. \E l \in Loaders, s \in Slots : \E f : Chained(t, "resolve", h, l, s, f)
    BY <1>5, ResolveChainTyped
  <2> QED BY <2>2, <2>3, ChainServes
<1>6. CASE ResolveUnserved(t, h)
  BY <1>6, OnlyAsked DEF ResolveUnserved
<1> QED BY <1>1, <1>2, <1>3, <1>4, <1>5, <1>6 DEF Resolve

LEMMA ProbeCompletedServes ==
  ASSUME TypeInv, ServeInv, NEW t \in Tokens, ProbeCompleted(t)
  PROVE  ServeInv'
<1>1. PICK l \in Loaders, s \in Slots, x \in Slots :
        /\ slots[l][s] # Leased /\ slots[l][s].meta # None
        /\ \A m \in Loaders : m # l => slots'[m] = slots[m]
        /\ slots'[l][x] = slots[l][s]
        /\ x = s \/ (slots[l][x] = Leased /\ slots'[l][s] = Leased)
        /\ \A y \in Slots : y # x /\ y # s => slots'[l][y] = slots[l][y]
  BY CompletedFacts
<1>2. \A u, g : /\ ~WaitsFor(slots[l][s], u, g) /\ ~WaitsFor(slots'[l][s], u, g)
                /\ ~WaitsFor(slots[l][x], u, g) /\ ~WaitsFor(slots'[l][x], u, g)
  BY <1>1 DEF WaitsFor, Waits
<1>3. ASSUME NEW u, NEW g PROVE SameWaiting(slots, slots', u, g)
  <2>1. ASSUME NEW p \in Loaders \X Slots
        PROVE  /\ WaitsFor(slots[p[1]][p[2]], u, g) <=> WaitsFor(slots'[p[1]][p[2]], u, g)
               /\ WaitsFor(slots[p[1]][p[2]], u, g) => slots'[p[1]][p[2]] = slots[p[1]][p[2]]
    <3>1. CASE p[1] = l /\ (p[2] = s \/ p[2] = x)
      BY <1>2, <3>1
    <3>2. CASE p[1] # l \/ (p[2] # s /\ p[2] # x)
      BY <1>1, <3>2
    <3> QED BY <3>1, <3>2
  <2>2. Waiting(slots', u, g) = Waiting(slots, u, g)
    BY <2>1 DEF Waiting
  <2>3. \A p \in Waiting(slots, u, g) : slots'[p[1]][p[2]].age = slots[p[1]][p[2]].age
    BY <2>1 DEF Waiting
  <2> QED BY <2>2, <2>3 DEF SameWaiting
<1>4. request' = request /\ frames' = frames /\ age' = age
  BY DEF ProbeCompleted
<1>5. ASSUME NEW u \in Tokens PROVE Undisturbed(u)
  BY <1>3, <1>4, NothingChanges DEF Undisturbed
<1> QED BY <1>5, ServeStays

LEMMA ProbeServes ==
  ASSUME TypeInv, ServeInv, NEW t \in Tokens, NEW detached \in BOOLEAN,
         ProbeJoin(t, detached) \/ ProbeAtOnce(t, detached) \/ ProbeChain(t, detached)
  PROVE  ServeInv'
<1>1. CASE ProbeJoin(t, detached)
  <2>1. PICK r \in Request : Wants(request[t], r) /\ request' = WithRequest(request, t, r)
    BY <1>1, Joined DEF ProbeJoin
  <2>2. request[t] # None /\ r.gen = request[t].gen /\ r.queued = request[t].queued
    BY <1>1, <2>1 DEF ProbeJoin, Wants
  <2>3. request'[t] = r /\ \A u \in Tokens : u # t => request'[u] = request[u]
    BY <2>1, <2>2, Wanted
  <2>4. slots' = slots /\ age' = age /\ frames' = frames
    BY <1>1 DEF ProbeJoin
  <2> QED BY <2>2, <2>3, <2>4, OnlyAsked
<1>2. CASE ProbeAtOnce(t, detached)
  BY <1>2, OnlyAsked DEF ProbeAtOnce
<1>3. CASE ProbeChain(t, detached)
  <2>1. PICK no \in BOOLEAN : no = FALSE
    OBVIOUS
  <2>2. Begin(t, no, detached) /\ age' = age
    BY <1>3, <2>1 DEF ProbeChain
  <2>3. \E l \in Loaders, s \in Slots : \E f : Chained(t, "probe", None, l, s, f)
    BY <1>3, ProbeChainTyped
  <2> QED BY <2>2, <2>3, ChainServes
<1> QED BY <1>1, <1>2, <1>3

\* poll_pending itself works for nobody.
LEMMA PollRuns ==
  ASSUME NEW f, f.op = "poll", NEW t, NEW g
  PROVE  Running(<<f>>, t, g) = {} /\ Running(<< >>, t, g) = {}
<1>1. DOMAIN <<f>> = {1} /\ <<f>>[1] = f /\ DOMAIN << >> = {}
  OBVIOUS
<1>2. PICK stack : stack = <<f>>
  OBVIOUS
<1>3. DOMAIN stack = {1} /\ stack[1] = f
  BY <1>1, <1>2
<1>4. Running(stack, t, g) = {}
  BY <1>3 DEF Running, RunsFor
<1>5. Running(<< >>, t, g) = {}
  BY <1>1 DEF Running
<1> QED BY <1>2, <1>4, <1>5

LEMMA IdleRuns ==
  ASSUME NEW stack, NEW other, NEW t, NEW g, Running(stack, t, g) = {}, Running(other, t, g) = {}
  PROVE  SameRunning(stack, other, t, g)
BY DEF SameRunning

LEMMA PollBeginServes ==
  ASSUME TypeInv, ServeInv, PollBegin
  PROVE  ServeInv'
<1>1. PICK f : f = [op |-> "poll", through |-> nextRequest, loader |-> 1, slot |-> 1]
  OBVIOUS
<1>2. frames = << >> /\ (frames' = <<f>> \/ frames' = << >>) /\ f.op = "poll"
      /\ slots' = slots /\ request' = request /\ age' = age
  BY <1>1 DEF PollBegin
<1>3. ASSUME NEW t \in Tokens PROVE Undisturbed(t)
  <2>1. Running(frames, t, request[t].gen) = {} /\ Running(frames', t, request[t].gen) = {}
    BY <1>2, PollRuns
  <2>2. SameRunning(frames, frames', t, request[t].gen)
    BY <2>1, IdleRuns
  <2>3. SameWaiting(slots, slots', t, request[t].gen)
    BY <1>2, NothingChanges
  <2> QED BY <1>2, <2>2, <2>3 DEF Undisturbed
<1> QED BY <1>3, ServeStays

LEMMA PollEndServes ==
  ASSUME TypeInv, ServeInv, PollEnd
  PROVE  ServeInv'
<1>1. PICK f : f = Top
  OBVIOUS
<1>2. frames = <<f>> /\ f.op = "poll"
  BY <1>1, PollTop DEF PollEnd
<1>3. frames' = << >> /\ slots' = slots /\ request' = request /\ age' = age
  BY DEF PollEnd
<1>4. ASSUME NEW t \in Tokens PROVE Undisturbed(t)
  <2>1. Running(frames, t, request[t].gen) = {} /\ Running(frames', t, request[t].gen) = {}
    BY <1>2, <1>3, PollRuns
  <2>2. SameRunning(frames, frames', t, request[t].gen)
    BY <2>1, IdleRuns
  <2>3. SameWaiting(slots, slots', t, request[t].gen)
    BY <1>3, NothingChanges
  <2> QED BY <1>3, <2>2, <2>3 DEF Undisturbed
<1> QED BY <1>4, ServeStays

LEMMA PollSlotServes ==
  ASSUME TypeInv, ServeInv, PollSlot
  PROVE  ServeInv'
<1>1. PICK f \in PollFrame, g \in PollFrame, l \in Loaders, s \in Slots :
        /\ f.op = "poll" /\ frames = <<f>> /\ l = f.loader /\ s = f.slot /\ g = Advanced(f)
        /\ slots[l][s] # Leased /\ slots[l][s] \in CallState
        /\ \/ /\ ~Waits(slots[l][s])
              /\ slots' = slots /\ frames' = <<g>>
           \/ /\ Waits(slots[l][s]) /\ ~slots[l][s].ready
              /\ slots' = WithCall(slots, l, s, Visited(slots[l][s])) /\ frames' = <<g>>
           \/ /\ Waits(slots[l][s]) /\ slots[l][s].ready
              /\ ~Current(slots[l][s].token, slots[l][s].gen)
              /\ slots' = WithCall(slots, l, s, Free) /\ frames' = <<g>>
           \/ /\ Waits(slots[l][s]) /\ slots[l][s].ready
              /\ Current(slots[l][s].token, slots[l][s].gen)
              /\ slots' = WithCall(slots, l, s, Leased)
              /\ frames' = << g, Call("slot", Visited(slots[l][s]), l, None, FALSE, << >>) >>
  BY PollSlotFacts
<1>2. PICK c : c = slots[l][s]
  OBVIOUS
<1>3. request' = request /\ age' = age
  BY DEF PollSlot
<1>4. slots \in Grid /\ c \in CallState /\ c # Leased /\ g.op = "poll"
  BY <1>1, <1>2, Typed DEF PollFrame
<1>5. \A t, n : Running(frames, t, n) = {} /\ Running(<<g>>, t, n) = {}
  BY <1>1, <1>4, PollRuns
<1>6. ASSUME frames' = <<g>>,
             \A t \in Tokens : request[t] # None => SameWaiting(slots, slots', t, request[t].gen)
      PROVE  ServeInv'
  <2>1. \A t \in Tokens : SameRunning(frames, frames', t, request[t].gen)
    BY <1>5, <1>6, IdleRuns
  <2>2. \A t \in Tokens : Undisturbed(t)
    BY <1>3, <1>6, <2>1 DEF Undisturbed
  <2> QED BY <2>2, ServeStays
<1>7. ASSUME NEW d \in CallState, slots' = WithCall(slots, l, s, d)
      PROVE  SameBut(slots, slots', l, s) /\ slots'[l][s] = d
  <2>1. Replaced(slots, slots', l, s, d)
    BY <1>2, <1>4, <1>7, ReplacedFacts
  <2> QED BY <2>1 DEF Replaced
<1>8. CASE slots' = slots /\ frames' = <<g>>
  BY <1>6, <1>8, NothingChanges
<1>9. CASE Waits(c) /\ slots' = WithCall(slots, l, s, Visited(c)) /\ frames' = <<g>>
  <2>1. PICK d : d = Visited(c)
    OBVIOUS
  <2>2. d \in CallState /\ d # Leased /\ d.token = c.token /\ d.gen = c.gen /\ d.age = c.age
        /\ d.meta = c.meta
    BY <1>4, <2>1, VisitedFacts, CallsAreNotLeases
  <2>3. SameBut(slots, slots', l, s) /\ slots'[l][s] = d
    BY <1>7, <1>9, <2>1, <2>2
  <2>4. ASSUME NEW t \in Tokens PROVE SameWaiting(slots, slots', t, request[t].gen)
    <3>1. WaitsFor(c, t, request[t].gen) <=> WaitsFor(d, t, request[t].gen)
      BY <1>4, <2>2 DEF WaitsFor, Waits
    <3> QED BY <1>2, <2>2, <2>3, <3>1, OneSlot
  <2> QED BY <1>6, <1>9, <2>4
<1>10. CASE /\ Waits(c) /\ ~Current(c.token, c.gen) /\ slots' = WithCall(slots, l, s, Free)
            /\ frames' = <<g>>
  <2>1. SameBut(slots, slots', l, s) /\ slots'[l][s] = Free
    BY <1>7, <1>10, CallTypes
  <2>2. ASSUME NEW t \in Tokens, request[t] # None PROVE SameWaiting(slots, slots', t, request[t].gen)
    <3>1. ~WaitsFor(c, t, request[t].gen)
      BY <1>10, <2>2 DEF WaitsFor, Current
    <3>2. ~WaitsFor(Free, t, request[t].gen)
      BY DEF WaitsFor, Waits, Free
    <3> QED BY <1>2, <2>1, <3>1, <3>2, OneSlot
  <2> QED BY <1>6, <1>10, <2>2
<1>11. CASE /\ Waits(c) /\ Current(c.token, c.gen) /\ slots' = WithCall(slots, l, s, Leased)
            /\ frames' = << g, Call("slot", Visited(c), l, None, FALSE, << >>) >>
  <2>1. PICK no \in BOOLEAN : no = FALSE
    OBVIOUS
  <2>2. PICK d : d = Call("slot", Visited(c), l, None, no, << >>)
    OBVIOUS
  <2>3. c.token \in Tokens /\ Visited(c) \in RunningCall /\ Visited(c).token = c.token
        /\ Visited(c).gen = c.gen /\ Visited(c).age = c.age
    BY <1>4, <1>11, CurrentRuns, VisitedFacts
  <2>4. d \in Frame /\ d.op = "call" /\ TokenOf(d) = c.token /\ GenOf(d) = c.gen /\ AgeOf(d) = c.age
    BY <2>2, <2>3, CallIsFrame
  <2>5. PICK stack : stack = <<g>>
    OBVIOUS
  <2>6. frames' = Append(stack, d)
    <3>1. frames' = <<g, d>>
      BY <1>11, <2>1, <2>2
    <3> QED BY <2>5, <3>1
  <2>7. stack \in Seq(Frame) /\ \A t, n : Running(stack, t, n) = {}
    BY <1>5, <2>5, PollAlone
  <2>19. PICK n : n = c.gen
    OBVIOUS
  <2>20. PICK t \in Tokens : t = c.token
    BY <2>3
  <2>8. t = c.token /\ n = c.gen
    BY <2>19, <2>20
  <2>9. request[t] # None /\ request[t].gen = n
    BY <1>11, <2>8 DEF Current
  <2>10. Taken(slots, slots', l, s)
    BY <1>2, <1>4, <1>11, TakenFacts
  <2>11. \A u \in Tokens : u # t => SameWaiting(slots, slots', u, request[u].gen)
    BY <1>2, <2>8, <2>10, TakenKeeps
  <2>12. ASSUME NEW u \in Tokens, u # t PROVE Undisturbed(u)
    <3>1. ~RunsFor(d, u, request[u].gen)
      BY <2>4, <2>8, <2>12 DEF RunsFor
    <3>2. SameRunning(stack, frames', u, request[u].gen)
      BY <2>4, <2>6, <2>7, <3>1, PushedRuns
    <3>3. SameRunning(frames, stack, u, request[u].gen)
      BY <1>5, <2>7, IdleRuns
    <3>4. SameRunning(frames, frames', u, request[u].gen)
      BY <3>2, <3>3, SameRunningTwice
    <3> QED BY <1>3, <2>11, <2>12, <3>4 DEF Undisturbed
  <2>13. WaitsFor(c, t, n) /\ <<l, s>> \in Waiting(slots, t, n)
    <3>1. <<l, s>> \in Loaders \X Slots /\ <<l, s>>[1] = l /\ <<l, s>>[2] = s
      OBVIOUS
    <3>2. WaitsFor(c, t, n)
      BY <1>11, <2>8 DEF WaitsFor
    <3> QED BY <1>2, <3>1, <3>2 DEF Waiting
  <2>14. ~request[t].queued /\ Waiting(slots, t, n) = {<<l, s>>} /\ c.age = age[t]
    <3>1. Works(slots, frames, request[t], age[t], t)
      BY DEF ServeInv
    <3>2. /\ IF request[t].queued THEN Waiting(slots, t, n) = {} /\ Running(frames, t, n) = {}
             ELSE Alone(Waiting(slots, t, n), Running(frames, t, n))
          /\ \A p \in Waiting(slots, t, n) : slots[p[1]][p[2]].age = age[t]
      BY <2>9, <3>1 DEF Works
    <3>3. ~request[t].queued /\ Waiting(slots, t, n) = {<<l, s>>}
      BY <2>13, <3>2 DEF Alone
    <3>4. slots[l][s].age = age[t]
      BY <2>13, <3>2
    <3> QED BY <1>2, <3>3, <3>4
  <2>15. Waiting(slots', t, n) = {}
    <3> SUFFICES ASSUME NEW p \in Waiting(slots', t, n) PROVE FALSE
      OBVIOUS
    <3>1. SameBut(slots, slots', l, s) /\ ~WaitsFor(slots'[l][s], t, n)
      BY <2>10 DEF Taken, WaitsFor, Waits
    <3>2. p \in Waiting(slots, t, n) /\ p # <<l, s>>
      BY <3>1, OneSlotWaits
    <3> QED BY <2>14, <3>2
  <2>16. Running(frames', t, n) = {Len(stack) + 1} /\ frames'[Len(stack) + 1] = d
    <3>1. RunsFor(d, t, n)
      BY <2>4, <2>8 DEF RunsFor
    <3>2. Running(frames', t, n) = Running(stack, t, n) \cup {Len(stack) + 1}
          /\ frames'[Len(stack) + 1] = d
      BY <2>4, <2>6, <2>7, <3>1, PushedRuns
    <3> QED BY <2>7, <3>2
  <2>17. Alone(Waiting(slots', t, n), Running(frames', t, n))
    BY <2>15, <2>16 DEF Alone
  <2>18. Works(slots', frames', request'[t], age'[t], t)
    BY <1>3, <2>4, <2>9, <2>14, <2>15, <2>16, <2>17 DEF Works
  <2> QED BY <2>12, <2>18, ServeBut
<1> QED BY <1>1, <1>2, <1>8, <1>9, <1>10, <1>11

LEMMA PollQueuedServes ==
  ASSUME TypeInv, ServeInv, NEW t \in Tokens, PollQueued(t)
  PROVE  ServeInv'
<1>1. age' = age
  BY DEF PollQueued
<1>2. request[t] # None /\ request[t].queued
      /\ \/ request' = WithRequest(request, t, None) /\ slots' = slots /\ frames' = frames
         \/ \E l \in Loaders, s \in Slots : \E f : Dequeued(t, l, s, f)
  BY PollQueuedTyped
<1>3. CASE request' = WithRequest(request, t, None) /\ slots' = slots /\ frames' = frames
  BY <1>1, <1>3, Forgotten, OnlyAsked
<1>4. ASSUME NEW l \in Loaders, NEW s \in Slots, NEW f, Dequeued(t, l, s, f)
      PROVE  ServeInv'
  <2>1. PICK g : g = request[t].gen
    OBVIOUS
  <2>2. /\ Taken(slots, slots', l, s) /\ (Waits(slots[l][s]) => slots[l][s].token = t /\ slots[l][s].gen = g)
        /\ f \in Frame /\ f.op # "poll" /\ TokenOf(f) = t /\ GenOf(f) = g /\ AgeOf(f) = age[t]
        /\ frames' = Append(frames, f)
        /\ request'[t] # None /\ request'[t].gen = g /\ ~request'[t].queued
        /\ \A u \in Tokens : u # t => request'[u] = request[u]
    BY <1>4, <2>1 DEF Dequeued
  <2>3. Waiting(slots, t, g) = {} /\ Running(frames, t, g) = {}
    <3>1. Works(slots, frames, request[t], age[t], t)
      BY DEF ServeInv
    <3> QED BY <1>2, <2>1, <3>1 DEF Works
  <2>4. /\ \A u \in Tokens : u # t => SameWaiting(slots, slots', u, request[u].gen)
        /\ Waiting(slots', t, g) = {}
    BY <2>2, <2>3, TakenWaits, TakenKeeps
  <2> QED BY <1>1, <2>2, <2>3, <2>4, WorkBegins
<1> QED BY <1>2, <1>3, <1>4

LEMMA WakeSlotServes ==
  ASSUME TypeInv, ServeInv, NEW l \in Loaders, NEW s \in Slots, WakeSlot(l, s)
  PROVE  ServeInv'
<1>1. PICK c, d : c = slots[l][s] /\ d = Woken(c)
  OBVIOUS
<1>2. Replaced(slots, slots', l, s, d)
  BY <1>1, WakeSlotTyped
<1>3. c \in CallState
  BY <1>1, <1>2, Typed DEF Replaced, Grid, Row
<1>4. SameBut(slots, slots', l, s) /\ slots'[l][s] = d /\ c # Leased /\ d # Leased
  BY <1>1, <1>2 DEF Replaced
<1>5. d.token = c.token /\ d.gen = c.gen /\ d.age = c.age /\ d.meta = c.meta
  BY <1>1, <1>3, WokenFacts
<1>6. ASSUME NEW t \in Tokens PROVE SameWaiting(slots, slots', t, request[t].gen)
  <2>1. WaitsFor(c, t, request[t].gen) <=> WaitsFor(d, t, request[t].gen)
    BY <1>4, <1>5 DEF WaitsFor, Waits
  <2> QED BY <1>1, <1>4, <1>5, <2>1, OneSlot
<1>7. request' = request /\ frames' = frames /\ age' = age
  BY DEF WakeSlot
<1>8. \A t \in Tokens : Undisturbed(t)
  BY <1>6, <1>7, NothingChanges DEF Undisturbed
<1> QED BY <1>8, ServeStays

LEMMA WakeRunningServes ==
  ASSUME TypeInv, ServeInv, NEW i \in DOMAIN frames, WakeRunning(i)
  PROVE  ServeInv'
<1>1. request' = request /\ slots' = slots /\ age' = age
  BY DEF WakeRunning
<1>2. StacksAlike(frames, frames') /\ frames \in Seq(Frame)
  BY WakeRunningFacts, Typed
<1>3. \A t \in Tokens : SameRunning(frames, frames', t, request[t].gen)
  BY <1>2, AlikeRuns
<1>4. \A t \in Tokens : Undisturbed(t)
  BY <1>1, <1>3, NothingChanges DEF Undisturbed
<1> QED BY <1>4, ServeStays

-----------------------------------------------------------------------------
(***************************************************************************)
(* Who works for a request, when a callback returns.                       *)
(***************************************************************************)
LEMMA GivenKeeps ==
  ASSUME NEW S, NEW T, NEW l \in Loaders, NEW s \in Slots, NEW c, Given(S, T, l, s, c), NEW t, NEW g,
         ~WaitsFor(c, t, g)
  PROVE  SameWaiting(S, T, t, g)
<1>1. SameBut(S, T, l, s) /\ ~WaitsFor(S[l][s], t, g) /\ T[l][s] = c
  BY DEF Given, WaitsFor, Waits
<1>2. ~WaitsFor(T[l][s], t, g)
  BY <1>1
<1> QED BY <1>1, <1>2, OneSlot

\* Nobody waits in the slots that were given back.
LEMMA SettledKeeps ==
  ASSUME TypeInv, Calling, NEW f, f = Top, NEW c \in CallState, NEW d \in CallState,
         c.gen <= nextRequest, d.gen <= nextRequest, NEW T, T = Settled(f, c, d),
         NEW t, NEW g, ~WaitsFor(c, t, g), ~WaitsFor(d, t, g)
  PROVE  SameWaiting(slots, T, t, g)
<1>1. f.loader \in Loaders /\ (f.held # << >> => f.held[1].loader \in Loaders)
  BY CallTop
<1>2. CASE f.held = << >>
  <2>1. PICK s \in Slots : Given(slots, T, f.loader, s, c)
    BY <1>2, SettledFacts
  <2> QED BY <1>1, <2>1, GivenKeeps
<1>3. CASE f.held # << >>
  <2>1. PICK U : \E s \in Slots, x \in Slots :
          Given(slots, U, f.loader, s, c) /\ Given(U, T, f.held[1].loader, x, d)
    BY <1>3, SettledFacts
  <2>2. SameWaiting(slots, U, t, g)
    BY <1>1, <2>1, GivenKeeps
  <2>3. SameWaiting(U, T, t, g)
    BY <1>1, <1>3, <2>1, GivenKeeps
  <2> QED BY <2>2, <2>3, SameWaitingTwice
<1> QED BY <1>2, <1>3

\* Calls that nobody asks for.
Idle(c) == c # Leased => c.token = None \/ c.meta # None

LEMMA IdleWaits ==
  ASSUME NEW c, Idle(c), NEW t, NEW g
  PROVE  ~WaitsFor(c, t, g)
BY DEF Idle, WaitsFor, Waits

\* The top of the stack returns, with an answer or superseded.
LEMMA TopReturns ==
  ASSUME TypeInv, ServeInv, frames # << >>, NEW f, f = Top, f.op # "poll",
         frames' = Callers \/ frames' = Aged(Callers), age' = age,
         \A u \in Tokens : request'[u] = request[u] \/ request'[u] = None,
         request'[TokenOf(f)] = None \/ ~Current(TokenOf(f), GenOf(f)),
         \A u \in Tokens : SameWaiting(slots, slots', u, request[u].gen)
  PROVE  ServeInv'
<1>1. ASSUME NEW u \in Tokens PROVE Undisturbed(u)
  <2> SUFFICES ASSUME request'[u] # None PROVE Undisturbed(u)
    BY DEF Undisturbed
  <2>1. request'[u] = request[u]
    OBVIOUS
  <2>2. ~RunsFor(Top, u, request[u].gen)
    BY <2>1 DEF RunsFor, Current
  <2>3. SameRunning(frames, frames', u, request[u].gen)
    BY <2>2, StackRuns
  <2> QED BY <2>1, <2>3 DEF Undisturbed
<1> QED BY <1>1, ServeStays

LEMMA FactoryReturnsServes ==
  ASSUME TypeInv, ServeInv, NEW ok \in BOOLEAN, FactoryReturns(ok)
  PROVE  ServeInv'
<1>1. PICK f : f = Top
  OBVIOUS
<1>2. frames # << >> /\ f.op = "factory" /\ TokenOf(f) = f.token /\ GenOf(f) = f.gen
  BY <1>1 DEF FactoryReturns, TokenOf, GenOf
<1>3. f \in Frame
  BY <1>1, <1>2, StackPopped DEF TypeInv, Top
<1>4. f.token \in Tokens
  BY <1>2, <1>3, FrameTypes
<1>5. slots' = slots /\ age' = age /\ (frames' = Callers \/ frames' = Aged(Callers))
  BY DEF FactoryReturns
<1>6. \/ request' = request /\ ~Current(f.token, f.gen)
      \/ request' = WithRequest(request, f.token, None)
  BY <1>1 DEF FactoryReturns, WithRequest
<1>7. /\ \A u \in Tokens : request'[u] = request[u] \/ request'[u] = None
      /\ request'[f.token] = None \/ ~Current(f.token, f.gen)
  BY <1>4, <1>6, Forgotten
<1>8. \A u \in Tokens : SameWaiting(slots, slots', u, request[u].gen)
  BY <1>5, NothingChanges
<1> QED BY <1>1, <1>2, <1>5, <1>7, <1>8, TopReturns

\* A loader returns and leaves no call behind.
LEMMA CallEnds ==
  ASSUME TypeInv, ServeInv, Calling, NEW f, f = Top, NEW c \in CallState, NEW d \in CallState,
         Idle(c), Idle(d), c.gen <= nextRequest, d.gen <= nextRequest, slots' = Settled(f, c, d),
         frames' = Callers \/ frames' = Aged(Callers), age' = age,
         \/ request' = request /\ ~Current(f.call.token, f.call.gen)
         \/ request' = WithRequest(request, f.call.token, None)
  PROVE  ServeInv'
<1>1. frames # << >> /\ f.op = "call" /\ f.call.token \in Tokens
  BY CallTop
<1>2. TokenOf(f) = f.call.token /\ GenOf(f) = f.call.gen
  BY <1>1 DEF TokenOf, GenOf
<1>3. /\ \A u \in Tokens : request'[u] = request[u] \/ request'[u] = None
      /\ request'[f.call.token] = None \/ ~Current(f.call.token, f.call.gen)
  BY <1>1, Forgotten
<1>4. ASSUME NEW u \in Tokens PROVE SameWaiting(slots, slots', u, request[u].gen)
  <2>1. ~WaitsFor(c, u, request[u].gen) /\ ~WaitsFor(d, u, request[u].gen)
    BY IdleWaits
  <2> QED BY <2>1, SettledKeeps
<1> QED BY <1>1, <1>2, <1>3, <1>4, TopReturns

LEMMA ReturnStaleServes ==
  ASSUME TypeInv, ServeInv, ReturnStale
  PROVE  ServeInv'
<1>1. PICK f : f = Top
  OBVIOUS
<1>2. PICK d : d = IF f.by = "next" /\ f.call.probe THEN Refused(f) ELSE Free
  OBVIOUS
<1>3. PICK c : c = Free
  OBVIOUS
<1>4. /\ Calling /\ slots' = Settled(f, c, d) /\ (frames' = Callers \/ frames' = Aged(Callers))
      /\ request' = request /\ ~Current(f.call.token, f.call.gen) /\ age' = age
  BY <1>1, <1>2, <1>3 DEF ReturnStale
<1>5. c \in CallState /\ c.gen <= nextRequest /\ d \in CallState /\ d.gen <= nextRequest
      /\ Idle(c) /\ Idle(d)
  <2>1. Idle(Free)
    BY DEF Idle, Free
  <2>2. /\ Free \in CallState /\ Free.gen <= nextRequest
        /\ Refused(f) \in CallState /\ Refused(f).gen <= nextRequest /\ Refused(f).meta # None
    BY <1>1, <1>4, RefusedFacts
  <2> QED BY <1>2, <1>3, <2>1, <2>2 DEF Idle
<1> QED BY <1>1, <1>4, <1>5, CallEnds

LEMMA ReturnValueServes ==
  ASSUME TypeInv, ServeInv, ReturnValue
  PROVE  ServeInv'
<1>1. PICK f : f = Top
  OBVIOUS
<1>2. PICK c : c = Free
  OBVIOUS
<1>3. /\ Calling /\ slots' = Settled(f, c, c) /\ frames' = Aged(Callers) /\ age' = age
      /\ request' = WithRequest(request, f.call.token, None)
  BY <1>1, <1>2 DEF ReturnValue, Ongoing, WithRequest
<1>4. c \in CallState /\ c.gen <= nextRequest
  BY <1>1, <1>2, <1>3, RefusedFacts
<1>5. Idle(c)
  BY <1>2 DEF Idle, Free
<1> QED BY <1>1, <1>3, <1>4, <1>5, CallEnds

LEMMA ReturnMetaServes ==
  ASSUME TypeInv, ServeInv, ReturnMeta
  PROVE  ServeInv'
<1>1. PICK f : f = Top
  OBVIOUS
<1>2. PICK d : d = Free
  OBVIOUS
<1>3. PICK c : c = Told(f.call)
  OBVIOUS
<1>4. /\ Calling /\ slots' = Settled(f, c, d) /\ (frames' = Callers \/ frames' = Aged(Callers))
      /\ age' = age /\ request' = WithRequest(request, f.call.token, None)
  BY <1>1, <1>2, <1>3 DEF ReturnMeta, Ongoing, WithRequest, Told
<1>5. /\ d \in CallState /\ d.gen <= nextRequest /\ c \in CallState /\ c.gen <= nextRequest
      /\ c.meta # None
  BY <1>1, <1>2, <1>3, <1>4, RefusedFacts, ToldFacts
<1>6. Idle(c) /\ Idle(d)
  BY <1>2, <1>5 DEF Idle, Free
<1> QED BY <1>1, <1>4, <1>5, <1>6, CallEnds

LEMMA ReturnErrorServes ==
  ASSUME TypeInv, ServeInv, NEW notMine \in BOOLEAN, ReturnError(notMine)
  PROVE  ServeInv'
<1>1. PICK f : f = Top
  OBVIOUS
<1>2. \E c, d \in {Free, Refused(f)} : slots' = Settled(f, c, d)
  BY <1>1 DEF ReturnError
<1>3. /\ Calling /\ (frames' = Callers \/ frames' = Aged(Callers))
      /\ age' = age /\ request' = WithRequest(request, f.call.token, None)
  BY <1>1 DEF ReturnError, Ongoing, WithRequest
<1>4. /\ Free \in CallState /\ Free.gen <= nextRequest
      /\ Refused(f) \in CallState /\ Refused(f).gen <= nextRequest /\ Refused(f).meta # None
  BY <1>1, <1>3, RefusedFacts
<1>5. Idle(Free) /\ Idle(Refused(f))
  BY <1>4 DEF Idle, Free
<1>6. PICK c \in {Free, Refused(f)}, d \in {Free, Refused(f)} : slots' = Settled(f, c, d)
  BY <1>2
<1>7. /\ c \in CallState /\ c.gen <= nextRequest /\ Idle(c)
      /\ d \in CallState /\ d.gen <= nextRequest /\ Idle(d)
  BY <1>4, <1>5, <1>6
<1> QED BY <1>1, <1>3, <1>6, <1>7, CallEnds

\* The call that runs is the only one that works for its request.
LEMMA TopServes ==
  ASSUME TypeInv, ServeInv, Calling, NEW f, f = Top, NEW t, t = f.call.token, NEW g, g = f.call.gen,
         Current(t, g)
  PROVE  /\ t \in Tokens /\ request[t] # None /\ request[t].gen = g /\ ~request[t].queued
         /\ Waiting(slots, t, g) = {} /\ Running(Callers, t, g) = {} /\ f.call.age = age[t]
<1>1. frames # << >> /\ f.op = "call" /\ t \in Tokens /\ frames \in Seq(Frame)
  BY CallTop, Typed
<1>2. RunsFor(f, t, g) /\ AgeOf(f) = f.call.age
  BY <1>1 DEF RunsFor, TokenOf, GenOf, AgeOf
<1>3. request[t] # None /\ request[t].gen = g
  BY DEF Current
<1>4. PICK n : n = Len(frames)
  OBVIOUS
<1>5. /\ n \in Running(frames, t, g) /\ frames[n] = f
      /\ Running(Callers, t, g) = Running(frames, t, g) \ {n}
  <2>1. Last(frames) = f /\ Callers = Front(frames)
    BY DEF Top, Callers
  <2>2. Last(frames) = frames[Len(frames)]
    BY <1>1, Popped
  <2>3. Len(frames) \in Running(frames, t, g)
        /\ Running(Front(frames), t, g) = Running(frames, t, g) \ {Len(frames)}
    BY <1>1, <1>2, <2>1, PoppedRuns
  <2> QED BY <1>4, <2>1, <2>2, <2>3
<1>6. /\ IF request[t].queued THEN Waiting(slots, t, g) = {} /\ Running(frames, t, g) = {}
         ELSE Alone(Waiting(slots, t, g), Running(frames, t, g))
      /\ \A i \in Running(frames, t, g) : AgeOf(frames[i]) = age[t]
  <2>1. Works(slots, frames, request[t], age[t], t)
    BY <1>1 DEF ServeInv
  <2> QED BY <1>3, <2>1 DEF Works
<1>7. ~request[t].queued /\ Waiting(slots, t, g) = {} /\ Running(frames, t, g) = {n}
  BY <1>5, <1>6 DEF Alone
<1>8. AgeOf(f) = age[t]
  BY <1>5, <1>6
<1> QED BY <1>1, <1>2, <1>3, <1>5, <1>7, <1>8

\* A call goes back to a slot and works for its request there.
LEMMA CallWaits ==
  ASSUME TypeInv, ServeInv, Calling, NEW f, f = Top, Current(f.call.token, f.call.gen),
         NEW c \in CallState, c.token = f.call.token, c.gen = f.call.gen, c.age = f.call.age,
         c.meta = None, NEW d, d = Free, slots' = Settled(f, c, d), frames' = Callers,
         request' = request, age' = age
  PROVE  ServeInv'
<1>1. PICK g : g = f.call.gen
  OBVIOUS
<1>2. PICK t : t = f.call.token
  OBVIOUS
<1>3. /\ t \in Tokens /\ request[t] # None /\ request[t].gen = g /\ ~request[t].queued
      /\ Waiting(slots, t, g) = {} /\ Running(Callers, t, g) = {} /\ f.call.age = age[t]
  BY <1>1, <1>2, TopServes
<1>4. /\ frames # << >> /\ f.op = "call" /\ f.loader \in Loaders /\ f.call.gen <= nextRequest
      /\ f.held # << >> => f.held[1].loader \in Loaders
  BY CallTop
<1>5. d \in CallState /\ d.gen <= nextRequest /\ \A u, n : ~WaitsFor(d, u, n)
  <2>1. Free \in CallState /\ Free.gen <= nextRequest
    BY RefusedFacts
  <2> QED BY <2>1 DEF WaitsFor, Waits, Free
<1>6. WaitsFor(c, t, g) /\ \A u, n : u # t => ~WaitsFor(c, u, n)
  <2>1. c # Leased /\ c.token # None
    BY <1>2, <1>3, CallsAreNotLeases, NotNone
  <2> QED BY <1>1, <1>2, <2>1 DEF WaitsFor, Waits
<1>7. ASSUME NEW u \in Tokens, u # t PROVE Undisturbed(u)
  <2>1. SameWaiting(slots, slots', u, request[u].gen)
    BY <1>4, <1>5, <1>6, <1>7, SettledKeeps
  <2>2. ~RunsFor(Top, u, request[u].gen)
    BY <1>2, <1>4, <1>7 DEF RunsFor, TokenOf
  <2>3. SameRunning(frames, frames', u, request[u].gen)
    BY <1>4, <2>2, StackRuns
  <2> QED BY <1>7, <2>1, <2>3 DEF Undisturbed
<1>15. \E s \in Slots : \E U : Given(slots, U, f.loader, s, c) /\ SameWaiting(U, slots', t, g)
  <2>1. CASE f.held = << >>
    <3>1. PICK s \in Slots : Given(slots, slots', f.loader, s, c)
      BY <1>4, <1>5, <2>1, SettledFacts
    <3> QED BY <3>1, NothingChanges
  <2>2. CASE f.held # << >>
    <3>1. PICK U : \E s \in Slots, x \in Slots :
            Given(slots, U, f.loader, s, c) /\ Given(U, slots', f.held[1].loader, x, d)
      BY <1>4, <1>5, <2>2, SettledFacts
    <3>2. SameWaiting(U, slots', t, g)
      BY <1>4, <1>5, <2>2, <3>1, GivenKeeps
    <3> QED BY <3>1, <3>2
  <2> QED BY <2>1, <2>2
<1>16. PICK s \in Slots : \E U : Given(slots, U, f.loader, s, c) /\ SameWaiting(U, slots', t, g)
  BY <1>15
<1>8. PICK U : Given(slots, U, f.loader, s, c) /\ SameWaiting(U, slots', t, g)
  BY <1>16
<1>9. PICK p : p = <<f.loader, s>>
  OBVIOUS
<1>10. Waiting(U, t, g) = {p} /\ U[p[1]][p[2]] = c
  <2>1. SameBut(slots, U, f.loader, s) /\ U[f.loader][s] = c
    BY <1>8 DEF Given
  <2>2. WaitsFor(U[f.loader][s], t, g)
    BY <1>6, <2>1
  <2>3. ASSUME NEW q PROVE q \in Waiting(U, t, g) <=> q = p
    <3>1. q \in Waiting(U, t, g) <=>
            \/ q \in Waiting(slots, t, g) /\ q # <<f.loader, s>>
            \/ q = <<f.loader, s>> /\ WaitsFor(U[f.loader][s], t, g)
      <4>1. PICK l \in Loaders : l = f.loader
        BY <1>4
      <4>2. SameBut(slots, U, l, s)
        BY <2>1, <4>1
      <4>3. q \in Waiting(U, t, g) <=>
              \/ q \in Waiting(slots, t, g) /\ q # <<l, s>>
              \/ q = <<l, s>> /\ WaitsFor(U[l][s], t, g)
        BY <4>2, OneSlotWaits
      <4> QED BY <4>1, <4>3
    <3> QED BY <1>3, <1>9, <2>2, <3>1
  <2> QED BY <1>9, <2>1, <2>3
<1>11. Waiting(slots', t, g) = {p} /\ slots'[p[1]][p[2]].age = age[t]
  BY <1>3, <1>8, <1>10 DEF SameWaiting
<1>12. Running(frames', t, g) = {}
  BY <1>3
<1>13. Alone(Waiting(slots', t, g), Running(frames', t, g))
  BY <1>11, <1>12 DEF Alone
<1>14. Works(slots', frames', request'[t], age'[t], t)
  BY <1>3, <1>11, <1>12, <1>13 DEF Works
<1> QED BY <1>3, <1>7, <1>14, ServeBut

LEMMA ReturnPendingServes ==
  ASSUME TypeInv, ServeInv, ReturnPending
  PROVE  ServeInv'
<1>1. PICK f, c, d : f = Top /\ c = f.call /\ d = Free
  OBVIOUS
<1>2. /\ Calling /\ Current(f.call.token, f.call.gen) /\ slots' = Settled(f, c, d)
      /\ frames' = Callers /\ request' = request /\ age' = age
  BY <1>1 DEF ReturnPending, Ongoing
<1>3. f.call \in CallState /\ f.call \in RunningCall
  BY <1>1, <1>2, RefusedFacts, CallTop
<1>4. c \in CallState /\ c.token = f.call.token /\ c.gen = f.call.gen /\ c.age = f.call.age
      /\ c.meta = None
  BY <1>1, <1>3 DEF RunningCall
<1> QED BY <1>1, <1>2, <1>4, CallWaits

LEMMA ReturnMetaWantedServes ==
  ASSUME TypeInv, ServeInv, ReturnMetaWanted
  PROVE  ServeInv'
<1>1. PICK f, c, d : f = Top /\ c = GoesOn(f.call) /\ d = Free
  OBVIOUS
<1>2. /\ Calling /\ Current(f.call.token, f.call.gen) /\ slots' = Returned(f.loader, c)
      /\ f.by = "slot" /\ frames' = Callers /\ request' = request /\ age' = age
  BY <1>1 DEF ReturnMetaWanted, Ongoing, GoesOn
<1>3. slots' = Settled(f, c, d)
  <2>1. f.held = << >>
    BY <1>1, <1>2, CallTop DEF CallSound
  <2> QED BY <1>2, <2>1 DEF Settled
<1>4. f.call \in CallState /\ f.call \in RunningCall
  BY <1>1, <1>2, RefusedFacts, CallTop
<1>5. c \in CallState /\ c.token = f.call.token /\ c.gen = f.call.gen /\ c.age = f.call.age
      /\ c.meta = None
  BY <1>1, <1>4, GoesOnFacts DEF RunningCall
<1> QED BY <1>1, <1>2, <1>3, <1>5, CallWaits

LEMMA ReturnNotMineServes ==
  ASSUME TypeInv, ServeInv, ReturnNotMine
  PROVE  ServeInv'
<1>1. PICK f : f = Top
  OBVIOUS
<1>2. Calling /\ Current(f.call.token, f.call.gen) /\ request' = request /\ age' = age
  BY <1>1 DEF ReturnNotMine, Ongoing
<1>3. PICK l \in Loaders, s \in Slots, x \in Slots : \E S, h, probe : NotMine(f, S, x, l, s, h, probe)
  BY <1>1, NotMineFacts
<1>4. PICK S, h, probe : NotMine(f, S, x, l, s, h, probe)
  BY <1>3
<1>5. PICK g : g = f.call.gen
  OBVIOUS
<1>6. PICK t : t = f.call.token
  OBVIOUS
<1>7. /\ t \in Tokens /\ request[t] # None /\ request[t].gen = g /\ ~request[t].queued
      /\ Waiting(slots, t, g) = {} /\ Running(Callers, t, g) = {} /\ f.call.age = age[t]
  BY <1>1, <1>2, <1>5, <1>6, TopServes
<1>8. frames # << >> /\ f.op = "call" /\ f.loader \in Loaders /\ Callers \in Seq(Frame)
  BY <1>1, <1>2, CallTop, StackReturns, Typed, Popped DEF Callers
<1>9. \A u, n : SameWaiting(slots, S, u, n)
  <2>1. CASE S = slots
    BY <2>1, NothingChanges
  <2>2. CASE Given(slots, S, f.loader, x, Free)
    <3>1. \A u, n : ~WaitsFor(Free, u, n)
      BY DEF WaitsFor, Waits, Free
    <3> QED BY <1>8, <2>2, <3>1, GivenKeeps
  <2> QED BY <1>4, <2>1, <2>2 DEF NotMine
<1>10. /\ h \in Frame /\ h.op = "call" /\ TokenOf(h) = t /\ GenOf(h) = g /\ AgeOf(h) = age[t]
       /\ frames' = Append(Callers, h) /\ S \in Grid /\ S[l][s] # Leased
       /\ slots' = WithCall(S, l, s, Leased)
       /\ Waits(S[l][s]) => S[l][s].token = t /\ S[l][s].gen = g
  BY <1>4, <1>5, <1>6 DEF NotMine, TokenOf, GenOf, AgeOf, GridSound
<1>11. Taken(S, slots', l, s)
  BY <1>10, TakenFacts
<1>12. ASSUME NEW u \in Tokens, u # t PROVE Undisturbed(u)
  <2>1. SameWaiting(S, slots', u, request[u].gen)
    BY <1>7, <1>10, <1>11, <1>12, TakenKeeps
  <2>2. SameWaiting(slots, slots', u, request[u].gen)
    BY <1>9, <2>1, SameWaitingTwice
  <2>3. ~RunsFor(Top, u, request[u].gen) /\ ~RunsFor(h, u, request[u].gen)
    BY <1>1, <1>6, <1>8, <1>10, <1>12 DEF RunsFor, TokenOf
  <2>4. SameRunning(frames, Callers, u, request[u].gen)
    BY <1>8, <2>3, StackRuns
  <2>5. SameRunning(Callers, frames', u, request[u].gen)
    BY <1>8, <1>10, <2>3, PushedRuns
  <2>6. SameRunning(frames, frames', u, request[u].gen)
    BY <2>4, <2>5, SameRunningTwice
  <2> QED BY <1>2, <1>12, <2>2, <2>6 DEF Undisturbed
<1>13. Waiting(slots', t, g) = {}
  <2>1. Waiting(S, t, g) = {}
    BY <1>7, <1>9 DEF SameWaiting
  <2> QED BY <1>7, <1>10, <1>11, <2>1, TakenWaits
<1>14. Running(frames', t, g) = {Len(Callers) + 1} /\ frames'[Len(Callers) + 1] = h
  <2>1. RunsFor(h, t, g)
    BY <1>10 DEF RunsFor
  <2>2. Running(frames', t, g) = Running(Callers, t, g) \cup {Len(Callers) + 1}
        /\ frames'[Len(Callers) + 1] = h
    BY <1>8, <1>10, <2>1, PushedRuns
  <2> QED BY <1>7, <2>2
<1>15. Alone(Waiting(slots', t, g), Running(frames', t, g))
  BY <1>13, <1>14 DEF Alone
<1>16. Works(slots', frames', request'[t], age'[t], t)
  BY <1>2, <1>7, <1>10, <1>13, <1>14, <1>15 DEF Works
<1> QED BY <1>7, <1>12, <1>16, ServeBut

LEMMA InitServes == Init => ServeInv
<1>1. ASSUME Init, NEW t \in Tokens PROVE request[t] = None
  BY <1>1 DEF Init
<1> QED BY <1>1 DEF ServeInv, Works

LEMMA NextServes == TypeInv /\ ServeInv /\ [Next]_vars => ServeInv'
<1> SUFFICES ASSUME TypeInv, ServeInv, [Next]_vars PROVE ServeInv'
  OBVIOUS
<1>1. ASSUME NEW t \in Tokens, NEW kind \in Offered, Register(t, kind) PROVE ServeInv'
  BY <1>1, RegisterServes
<1>2. ASSUME NEW t \in Tokens, ClearFailed(t) PROVE ServeInv'
  BY <1>2, OnlyAsked DEF ClearFailed
<1>3. ASSUME NEW t \in Tokens, Reload(t) PROVE ServeInv'
  BY <1>3, ReloadServes
<1>4. ASSUME NEW t \in Tokens, Resolve(t, TRUE, None) PROVE ServeInv'
  <2>1. Asks(None, t)
    BY DEF Asks
  <2>2. \E detached \in BOOLEAN : Resolve(t, detached, None)
    BY <1>4
  <2> QED BY <2>1, <2>2, ResolveServes
<1>5. ASSUME NEW t \in Tokens, ProbeCompleted(t) PROVE ServeInv'
  BY <1>5, ProbeCompletedServes
<1>6. ASSUME NEW t \in Tokens, NEW detached \in BOOLEAN,
             ProbeJoin(t, detached) \/ ProbeAtOnce(t, detached) \/ ProbeChain(t, detached)
      PROVE  ServeInv'
  BY <1>6, ProbeServes
<1>7. ASSUME NEW t \in Tokens, PollQueued(t) PROVE ServeInv'
  BY <1>7, PollQueuedServes
<1>8. ASSUME NEW h \in Handles, NEW t \in Tokens, Load(h, t) PROVE ServeInv'
  BY <1>8, OnlyAsked DEF Load
<1>9. ASSUME NEW h \in Handles, NEW copy \in Handles, CloneHandle(h, copy) PROVE ServeInv'
  BY <1>9, OnlyAsked DEF CloneHandle
<1>10. ASSUME NEW h \in Handles, DropHandle(h) PROVE ServeInv'
  BY <1>10, DropHandleServes
<1>11. ASSUME NEW h \in Handles, Get(h) PROVE ServeInv'
  <2>1. PICK t : t = handles[h].token
    OBVIOUS
  <2>2. t \in Tokens /\ Asks(h, t)
    BY <1>11, <2>1, Typed DEF Get, Asks, HandleState
  <2>3. \E detached \in BOOLEAN : Resolve(t, detached, h)
    BY <1>11, <2>1 DEF Get
  <2> QED BY <2>2, <2>3, ResolveServes
<1>12. ASSUME NEW ok \in BOOLEAN, FactoryReturns(ok) PROVE ServeInv'
  BY <1>12, FactoryReturnsServes
<1>13. CASE PollBegin \/ PollSlot \/ PollEnd
  BY <1>13, PollBeginServes, PollSlotServes, PollEndServes
<1>14. CASE Return
  BY <1>14, ReturnStaleServes, ReturnPendingServes, ReturnValueServes, ReturnMetaServes,
     ReturnMetaWantedServes, ReturnNotMineServes, ReturnErrorServes DEF Return
<1>15. ASSUME NEW l \in Loaders, NEW s \in Slots, WakeSlot(l, s) PROVE ServeInv'
  BY <1>15, WakeSlotServes
<1>16. ASSUME NEW i \in DOMAIN frames, WakeRunning(i) PROVE ServeInv'
  BY <1>16, WakeRunningServes
<1>17. CASE WakeLate
  BY <1>17, OnlyAsked DEF WakeLate
<1>18. CASE UNCHANGED vars
  BY <1>18, OnlyAsked DEF vars
<1> QED BY <1>1, <1>2, <1>3, <1>4, <1>5, <1>6, <1>7, <1>8, <1>9, <1>10, <1>11, <1>12, <1>13,
           <1>14, <1>15, <1>16, <1>17, <1>18 DEF Next

LEMMA ServesHold == Spec => []ServeInv
<1>1. Init => ServeInv
  BY InitServes
<1>2. TypeInv /\ ServeInv /\ [Next]_vars => ServeInv'
  BY NextServes
<1> QED BY <1>1, <1>2, TypesHold, PTL DEF Spec

-----------------------------------------------------------------------------
(***************************************************************************)
(* What follows for requests and values.                                   *)
(***************************************************************************)
LEMMA ServedOnce ==
  ASSUME TypeInv, ServeInv
  PROVE  RequestsServed
<1> SUFFICES ASSUME NEW t \in Tokens, request[t] # None
             PROVE  LET g == request[t].gen
                        waiting == {p \in Loaders \X Slots : Waits(slots[p[1]][p[2]])
                                      /\ slots[p[1]][p[2]].token = t /\ slots[p[1]][p[2]].gen = g}
                        running == {i \in DOMAIN frames :
                          \/ frames[i].op = "call" /\ frames[i].call.token = t /\ frames[i].call.gen = g
                          \/ frames[i].op = "factory" /\ frames[i].token = t /\ frames[i].gen = g}
                    IN  Cardinality(waiting) + Cardinality(running) =
                          IF request[t].queued THEN 0 ELSE 1
  BY DEF RequestsServed
<1> DEFINE g == request[t].gen
           waiting == {p \in Loaders \X Slots : Waits(slots[p[1]][p[2]])
                         /\ slots[p[1]][p[2]].token = t /\ slots[p[1]][p[2]].gen = g}
           running == {i \in DOMAIN frames :
             \/ frames[i].op = "call" /\ frames[i].call.token = t /\ frames[i].call.gen = g
             \/ frames[i].op = "factory" /\ frames[i].token = t /\ frames[i].gen = g}
<1>1. waiting = Waiting(slots, t, g)
  BY DEF Waiting, WaitsFor
<1>2. running = Running(frames, t, g)
  <2>1. frames \in Seq(Frame)
    BY Typed
  <2>2. \A i \in DOMAIN frames : frames[i] \in Frame
    BY <2>1
  <2>3. \A i \in DOMAIN frames : frames[i].op \in {"poll", "factory", "call"}
    BY <2>2, FrameKinds
  <2> QED BY <2>3 DEF Running, RunsFor, TokenOf, GenOf
<1>3. IF request[t].queued THEN waiting = {} /\ running = {} ELSE Alone(waiting, running)
  <2>1. Works(slots, frames, request[t], age[t], t)
    BY DEF ServeInv
  <2> HIDE DEF waiting, running
  <2> QED BY <1>1, <1>2, <2>1 DEF Works
<1> HIDE DEF waiting, running
<1> SUFFICES Cardinality(waiting) + Cardinality(running) = IF request[t].queued THEN 0 ELSE 1
  BY DEF waiting, running
<1>4. Cardinality({}) = 0 /\ \A p : Cardinality({p}) = 1
  BY FS_EmptySet, FS_Singleton
<1>5. CASE request[t].queued
  BY <1>3, <1>4, <1>5
<1>6. CASE ~request[t].queued
  <2>1. CASE running = {} /\ \E p \in waiting : waiting = {p}
    <3>1. PICK p : waiting = {p}
      BY <2>1
    <3>2. Cardinality(waiting) = 1 /\ Cardinality(running) = 0
      BY <1>4, <2>1, <3>1
    <3> QED BY <1>6, <3>2
  <2>2. CASE waiting = {} /\ \E i \in running : running = {i}
    BY <1>4, <1>6, <2>2
  <2> QED BY <1>3, <1>6, <2>1, <2>2 DEF Alone
<1> QED BY <1>5, <1>6

\* Every request is under way: queued for the next poll, or in the hands of exactly
\* one call or factory, whatever was registered, removed, reloaded or dropped
\* meanwhile and in whatever order the answers come (core/resource/manager_inner.rs).
THEOREM OneCallEach == Spec => []RequestsServed
<1>1. TypeInv /\ ServeInv => RequestsServed
  BY ServedOnce
<1> QED BY <1>1, TypesHold, ServesHold, PTL

\* What a step may put in the place of a value.
Fresh == \A t \in Tokens : value'[t] # value[t] /\ value'[t] # None => value'[t] = age'[t]

LEMMA PublishFresh ==
  ASSUME TypeInv, NEW t \in Tokens, NEW v \in Ages, v = age[t], value' \in Inserted(t, v), age' = age
  PROVE  Fresh
<1>1. value \in [Tokens -> Ages \cup {None}]
  BY Typed
<1>2. /\ value'[t] = v \/ value'[t] = None
      /\ \A u \in Tokens : u # t => value'[u] = value[u] \/ value'[u] = None
  BY <1>1, InsertedFacts
<1> QED BY <1>2 DEF Fresh

LEMMA ResolveFresh ==
  ASSUME TypeInv, NEW t \in Tokens, NEW detached, NEW h, Resolve(t, detached, h)
  PROVE  Fresh
<1>1. CASE ResolveStatic(t, h)
  <2>1. age[t] \in Ages
    BY Typed
  <2>2. value' \in Inserted(t, age[t]) /\ age' = age
    BY <1>1 DEF ResolveStatic, Publish
  <2> QED BY <2>1, <2>2, PublishFresh
<1>2. CASE ~ResolveStatic(t, h)
  <2>1. value' = value
    BY <1>2 DEF Resolve, ResolveAtOnce, ResolveJoin, ResolveFactory, ResolveChain, ResolveUnserved
  <2> QED BY <2>1 DEF Fresh
<1> QED BY <1>1, <1>2

\* A factory that is still wanted runs for the token as it is.
LEMMA FactoryAge ==
  ASSUME TypeInv, ServeInv, frames # << >>, NEW f, f = Top, f.op = "factory", NEW t, t = f.token,
         Current(t, f.gen)
  PROVE  t \in Tokens /\ f.age \in Ages /\ f.age = age[t]
<1>1. f \in Frame /\ frames \in Seq(Frame)
  BY Typed, StackPopped DEF TypeInv, Top
<1>2. t \in Tokens /\ f.age \in Ages
  BY <1>1, FrameTypes DEF TokenOf, AgeOf
<1>3. RunsFor(f, t, f.gen) /\ AgeOf(f) = f.age
  BY DEF RunsFor, TokenOf, GenOf, AgeOf
<1>4. Last(frames) = f /\ Last(frames) = frames[Len(frames)]
  BY <1>1, Popped DEF Top
<1>5. Len(frames) \in Running(frames, t, f.gen)
  BY <1>1, <1>3, <1>4, PoppedRuns
<1>6. \A i \in Running(frames, t, f.gen) : AgeOf(frames[i]) = age[t]
  <2>1. Works(slots, frames, request[t], age[t], t)
    BY <1>2 DEF ServeInv
  <2>2. request[t] # None /\ request[t].gen = f.gen
    BY DEF Current
  <2> QED BY <2>1, <2>2 DEF Works
<1> QED BY <1>2, <1>3, <1>4, <1>5, <1>6

LEMMA FactoryFresh ==
  ASSUME TypeInv, ServeInv, NEW ok \in BOOLEAN, FactoryReturns(ok)
  PROVE  Fresh
<1>1. PICK f : f = Top
  OBVIOUS
<1>2. PICK t : t = f.token
  OBVIOUS
<1>3. frames # << >> /\ f.op = "factory" /\ age' = age
  BY <1>1 DEF FactoryReturns
<1>4. f \in Frame /\ frames \in Seq(Frame)
  BY <1>1, <1>3, Typed, StackPopped DEF TypeInv, Top
<1>5. t \in Tokens /\ f.age \in Ages
  BY <1>2, <1>3, <1>4, FrameTypes DEF TokenOf, AgeOf
<1>6. CASE value' = value
  BY <1>6 DEF Fresh
<1>7. CASE Current(t, f.gen) /\ value' \in Inserted(t, f.age)
  <2>1. f.age = age[t]
    BY <1>1, <1>2, <1>3, <1>7, FactoryAge
  <2> QED BY <1>3, <1>5, <1>7, <2>1, PublishFresh
<1> QED BY <1>1, <1>2, <1>6, <1>7 DEF FactoryReturns, Publish

LEMMA ReturnFresh ==
  ASSUME TypeInv, ServeInv, Return
  PROVE  Fresh
<1>1. CASE ReturnValue
  <2>1. PICK f : f = Top
    OBVIOUS
  <2>2. PICK t : t = f.call.token
    OBVIOUS
  <2>3. PICK g : g = f.call.gen
    OBVIOUS
  <2>4. Calling /\ Current(t, g) /\ value' \in Inserted(t, f.call.age) /\ age' = age
    BY <1>1, <2>1, <2>2, <2>3 DEF ReturnValue, Ongoing, Publish
  <2>5. t \in Tokens /\ f.call.age = age[t]
    BY <2>1, <2>2, <2>3, <2>4, TopServes
  <2>6. f.call.age \in Ages
    BY <2>1, <2>4, CallTop
  <2> QED BY <2>4, <2>5, <2>6, PublishFresh
<1>2. CASE ~ReturnValue
  <2>1. value' = value
    BY <1>2 DEF Return, ReturnStale, ReturnPending, ReturnMeta, ReturnMetaWanted, ReturnNotMine,
                ReturnError
  <2> QED BY <2>1 DEF Fresh
<1> QED BY <1>1, <1>2

LEMMA NextFresh == TypeInv /\ ServeInv /\ [Next]_vars => [Fresh]_vars
<1> SUFFICES ASSUME TypeInv, ServeInv, Next PROVE Fresh
  OBVIOUS
<1>1. ASSUME NEW t \in Tokens, NEW kind \in Offered, Register(t, kind) PROVE Fresh
  <2>1. value' = [value EXCEPT ![t] = None] /\ value \in [Tokens -> Ages \cup {None}]
    BY <1>1, Typed DEF Register
  <2> QED BY <2>1 DEF Fresh
<1>2. ASSUME NEW t \in Tokens, NEW h, \E detached \in BOOLEAN : Resolve(t, detached, h) PROVE Fresh
  BY <1>2, ResolveFresh
<1>3. ASSUME NEW h \in Handles, Get(h) PROVE Fresh
  <2>1. PICK t : t = handles[h].token
    OBVIOUS
  <2>2. t \in Tokens /\ \E detached \in BOOLEAN : Resolve(t, detached, h)
    BY <1>3, <2>1, Typed DEF Get, HandleState
  <2> QED BY <2>2, <1>2
<1>4. ASSUME NEW ok \in BOOLEAN, FactoryReturns(ok) PROVE Fresh
  BY <1>4, FactoryFresh
<1>5. CASE Return
  BY <1>5, ReturnFresh
<1>6. ASSUME value' = value PROVE Fresh
  BY <1>6 DEF Fresh
<1>7. ASSUME NEW t \in Tokens, ClearFailed(t) \/ Reload(t) \/ ProbeCompleted(t) \/ PollQueued(t) PROVE Fresh
  BY <1>6, <1>7 DEF ClearFailed, Reload, ProbeCompleted, PollQueued
<1>8. ASSUME NEW t \in Tokens, NEW detached \in BOOLEAN,
             ProbeJoin(t, detached) \/ ProbeAtOnce(t, detached) \/ ProbeChain(t, detached)
      PROVE  Fresh
  BY <1>6, <1>8 DEF ProbeJoin, ProbeAtOnce, ProbeChain
<1>9. ASSUME NEW h \in Handles, \/ \E t \in Tokens : Load(h, t)
                                \/ \E copy \in Handles : CloneHandle(h, copy)
                                \/ DropHandle(h)
      PROVE  Fresh
  BY <1>6, <1>9 DEF Load, CloneHandle, DropHandle
<1>10. CASE \/ PollBegin \/ PollSlot \/ PollEnd \/ WakeLate
            \/ \E l \in Loaders, s \in Slots : WakeSlot(l, s)
            \/ \E i \in DOMAIN frames : WakeRunning(i)
  BY <1>6, <1>10 DEF PollBegin, PollSlot, PollEnd, WakeLate, WakeSlot, WakeRunning
<1>11. ASSUME NEW t \in Tokens, Resolve(t, TRUE, None) PROVE Fresh
  <2>1. \E detached \in BOOLEAN : Resolve(t, detached, None)
    BY <1>11
  <2> QED BY <1>2, <2>1
<1> QED BY <1>1, <1>3, <1>4, <1>5, <1>7, <1>8, <1>9, <1>10, <1>11 DEF Next

\* A call or factory that was superseded publishes nothing: what appears in the
\* cache was made for the token as it is at that moment (core/resource/manager_inner.rs).
THEOREM NothingStale == Spec => NoStaleValue
<1>1. TypeInv /\ ServeInv /\ [Next]_vars =>
        [\A t \in Tokens : value'[t] # value[t] /\ value'[t] # None => value'[t] = age'[t]]_vars
  BY NextFresh DEF Fresh
<1> QED BY <1>1, TypesHold, ServesHold, PTL DEF Spec, NoStaleValue

-----------------------------------------------------------------------------
(***************************************************************************)
(* Wake-ups.                                                               *)
(***************************************************************************)
\* poll_pending runs and has not come to slot s of loader l.
Ahead(stack, l, s) ==
  /\ stack # << >> /\ stack[1].op = "poll"
  /\ stack[1].loader < l \/ (stack[1].loader = l /\ stack[1].slot <= s)

\* Call c waits in that slot, requests are R and the manager is ready or not: the
\* call's next wake-up will schedule the manager; if it was woken and is wanted, the
\* manager is scheduled or on its way.
CellTold(c, l, s, R, ready, stack) ==
  Waits(c) =>
    /\ c.ready \/ c.linked
    /\ c.ready /\ R[c.token] # None /\ R[c.token].gen = c.gen => ready \/ Ahead(stack, l, s)

CallTold(c, ready) == (c.ready \/ c.linked) /\ (c.ready => ready)

QueueTold(r, ready, stack) ==
  r # None /\ r.queued =>
    ready \/ (stack # << >> /\ stack[1].op = "poll" /\ r.gen <= stack[1].through)

WakeInv ==
  /\ managerLinked \/ hostWoken
  /\ managerReady => hostWoken
  /\ \A l \in Loaders, s \in Slots : CellTold(slots[l][s], l, s, request, managerReady, frames)
  /\ \A i \in DOMAIN frames : frames[i].op = "call" => CallTold(frames[i].call, managerReady)
  /\ \A t \in Tokens : QueueTold(request[t], managerReady, frames)

\* schedule tells the host, and takes no wake-up back.
LEMMA Scheduled ==
  ASSUME TypeInv, WakeInv, UNCHANGED wake \/ \E woken : WakeManager(woken)
  PROVE  /\ managerLinked' \/ hostWoken'
         /\ managerReady' => hostWoken'
         /\ managerReady => managerReady'
<1>1. CASE UNCHANGED wake
  BY <1>1 DEF wake, WakeInv
<1>2. ASSUME NEW woken, WakeManager(woken)
      PROVE  /\ managerLinked' \/ hostWoken'
             /\ managerReady' => hostWoken'
             /\ managerReady => managerReady'
  BY <1>2 DEF WakeManager, wake, WakeInv
<1> QED BY <1>1, <1>2

\* What becomes of the poll that runs, and of the calls.
PollKept(stack, other) ==
  stack # << >> /\ stack[1].op = "poll" => other # << >> /\ other[1] = stack[1]
CallKept(stack, other, i) ==
  i \in DOMAIN stack /\ stack[i].op = "call" /\ other[i].call = stack[i].call

\* A request keeps its generation, or is a new one.
Follows(t) ==
  request'[t] # None =>
    (request[t] # None /\ request'[t].gen = request[t].gen) \/ request'[t].gen > nextRequest
StillQueued(t) ==
  request'[t] # None /\ request'[t].queued =>
    managerReady' \/ (request[t] # None /\ request'[t].gen = request[t].gen /\ request[t].queued)

LEMMA WakesStay ==
  ASSUME TypeInv, WakeInv, UNCHANGED wake \/ \E woken : WakeManager(woken),
         PollKept(frames, frames'), \A t \in Tokens : Follows(t) /\ StillQueued(t),
         \A l \in Loaders, s \in Slots :
           \/ slots'[l][s] = slots[l][s]
           \/ CellTold(slots'[l][s], l, s, request', managerReady', frames'),
         \A i \in DOMAIN frames' : frames'[i].op = "call" =>
           CallKept(frames, frames', i) \/ CallTold(frames'[i].call, managerReady')
  PROVE  WakeInv'
<1>1. /\ managerLinked' \/ hostWoken'
      /\ managerReady' => hostWoken'
      /\ managerReady => managerReady'
  BY Scheduled
<1>2. \A l, s : Ahead(frames, l, s) => Ahead(frames', l, s)
  BY DEF Ahead, PollKept
<1>3. ASSUME NEW l \in Loaders, NEW s \in Slots
      PROVE  CellTold(slots'[l][s], l, s, request', managerReady', frames')
  <2> SUFFICES ASSUME slots'[l][s] = slots[l][s], Waits(slots[l][s])
               PROVE  CellTold(slots'[l][s], l, s, request', managerReady', frames')
    BY DEF CellTold
  <2>1. PICK c : c = slots[l][s]
    OBVIOUS
  <2>2. c \in CallState /\ c.gen <= nextRequest /\ c.gen \in Nat /\ nextRequest \in Nat
    BY <2>1, Typed DEF TypeInv, GridSound, Grid, Row, Waits, CallState
  <2>3. c.token \in Tokens
    BY <2>1, <2>2 DEF Waits, CallState
  <2>4. CellTold(c, l, s, request, managerReady, frames)
    BY <2>1 DEF WakeInv
  <2>5. ASSUME request'[c.token] # None, request'[c.token].gen = c.gen
        PROVE  request[c.token] # None /\ request[c.token].gen = c.gen
    <3>1. ~(c.gen > nextRequest)
      BY <2>2
    <3> QED BY <2>3, <2>5, <3>1 DEF Follows
  <2> QED BY <1>1, <1>2, <2>1, <2>4, <2>5 DEF CellTold
<1>4. ASSUME NEW i \in DOMAIN frames', frames'[i].op = "call"
      PROVE  CallTold(frames'[i].call, managerReady')
  <2> SUFFICES ASSUME CallKept(frames, frames', i) PROVE CallTold(frames'[i].call, managerReady')
    BY <1>4
  <2> QED BY <1>1 DEF CallKept, CallTold, WakeInv
<1>5. ASSUME NEW t \in Tokens PROVE QueueTold(request'[t], managerReady', frames')
  <2>1. QueueTold(request[t], managerReady, frames)
    BY DEF WakeInv
  <2> QED BY <1>1, <2>1 DEF QueueTold, StillQueued, PollKept
<1> QED BY <1>1, <1>3, <1>4, <1>5 DEF WakeInv

\* What the stack keeps when answers age, and when its top returns.
LEMMA AgedCalls ==
  ASSUME NEW stack \in Seq(Frame), NEW other, other = Aged(stack)
  PROVE  /\ DOMAIN other = DOMAIN stack /\ other \in Seq(Frame)
         /\ \A i \in DOMAIN stack :
              /\ stack[i].op = "poll" => other[i] = stack[i]
              /\ other[i].op = stack[i].op
              /\ stack[i].op = "call" => other[i].call = stack[i].call
<1>1. DOMAIN other = DOMAIN stack /\ other \in Seq(Frame)
      /\ \A i \in DOMAIN stack : Alike(stack[i], other[i])
  BY AgedFacts DEF StacksAlike
<1>2. \A i \in DOMAIN stack :
        other[i] = IF stack[i].op = "poll" THEN stack[i] ELSE [stack[i] EXCEPT !.fresh = FALSE]
  BY DEF Aged
<1>3. ASSUME NEW i \in DOMAIN stack, stack[i].op = "call" PROVE other[i].call = stack[i].call
  <2>1. PICK f \in Frame : f = stack[i]
    OBVIOUS
  <2>2. f \in CallFrame
    BY <1>3, <2>1, FrameKinds
  <2>3. other[i] = [f EXCEPT !.fresh = FALSE]
    BY <1>2, <1>3, <2>1
  <2> QED BY <2>1, <2>2, <2>3 DEF CallFrame
<1> QED BY <1>1, <1>2, <1>3 DEF Alike

\* The frames that are left are the ones there were.
FramesKept(stack, other) ==
  /\ PollKept(stack, other)
  /\ \A i \in DOMAIN other : other[i].op = "call" => CallKept(stack, other, i)

LEMMA StackWakes ==
  ASSUME TypeInv
  PROVE  /\ FramesKept(frames, frames) /\ FramesKept(frames, Aged(frames))
         /\ frames # << >> /\ Top.op # "poll" =>
              FramesKept(frames, Callers) /\ FramesKept(frames, Aged(Callers))
<1>1. frames \in Seq(Frame)
  BY Typed
<1>2. FramesKept(frames, frames)
  BY DEF FramesKept, PollKept, CallKept
<1>3. ASSUME NEW stack \in Seq(Frame), FramesKept(frames, stack) PROVE FramesKept(frames, Aged(stack))
  <2>1. PICK other : other = Aged(stack)
    OBVIOUS
  <2>2. /\ DOMAIN other = DOMAIN stack /\ other \in Seq(Frame)
        /\ \A i \in DOMAIN stack :
             /\ stack[i].op = "poll" => other[i] = stack[i]
             /\ other[i].op = stack[i].op
             /\ stack[i].op = "call" => other[i].call = stack[i].call
    BY <2>1, AgedCalls
  <2>3. PollKept(frames, other)
    <3> SUFFICES ASSUME frames # << >>, frames[1].op = "poll" PROVE other # << >> /\ other[1] = frames[1]
      BY DEF PollKept
    <3>1. stack # << >> /\ stack[1] = frames[1]
      BY <1>3 DEF FramesKept, PollKept
    <3>2. 1 \in DOMAIN stack
      BY <3>1
    <3> QED BY <2>2, <3>1, <3>2
  <2>4. \A i \in DOMAIN other : other[i].op = "call" => CallKept(frames, other, i)
    BY <1>3, <2>2 DEF FramesKept, CallKept
  <2> QED BY <2>1, <2>3, <2>4 DEF FramesKept
<1>4. ASSUME frames # << >>, Top.op # "poll" PROVE FramesKept(frames, Callers) /\ Callers \in Seq(Frame)
  <2>1. PICK less : less = Callers
    OBVIOUS
  <2>2. /\ less \in Seq(Frame) /\ Len(less) = Len(frames) - 1 /\ Top = frames[Len(frames)]
        /\ \A i \in DOMAIN less : less[i] = frames[i]
    BY <1>1, <1>4, <2>1, Popped DEF Top, Callers
  <2>3. DOMAIN less \subseteq DOMAIN frames /\ DOMAIN less = 1..Len(less) /\ Len(frames) \in Nat
        /\ Len(frames) # 0
    BY <1>1, <1>4, <2>2
  <2>4. PollKept(frames, less)
    <3> SUFFICES ASSUME frames[1].op = "poll" PROVE less # << >> /\ less[1] = frames[1]
      BY DEF PollKept
    <3>1. Len(frames) # 1
      BY <1>4, <2>2
    <3>2. 1 \in DOMAIN less
      BY <2>2, <2>3, <3>1
    <3> QED BY <2>2, <3>2
  <2>5. \A i \in DOMAIN less : less[i].op = "call" => CallKept(frames, less, i)
    BY <2>2, <2>3 DEF CallKept
  <2> QED BY <2>1, <2>2, <2>4, <2>5 DEF FramesKept
<1> QED BY <1>1, <1>2, <1>3, <1>4

\* One frame more.
OneMore(stack, more, f) ==
  /\ PollKept(stack, more)
  /\ \A i \in DOMAIN more : more[i].op = "call" => CallKept(stack, more, i) \/ more[i] = f

LEMMA PushedWakes ==
  ASSUME NEW stack, NEW other \in Seq(Frame), FramesKept(stack, other), NEW f \in Frame
  PROVE  OneMore(stack, Append(other, f), f)
<1>0. PICK more : more = Append(other, f)
  OBVIOUS
<1>1. /\ more \in Seq(Frame) /\ Len(more) = Len(other) + 1 /\ more[Len(more)] = f
      /\ \A i \in DOMAIN other : more[i] = other[i]
      /\ DOMAIN more = DOMAIN other \cup {Len(more)}
  BY <1>0, Pushed
<1>2. PollKept(stack, more)
  <2> SUFFICES ASSUME stack # << >>, stack[1].op = "poll" PROVE more # << >> /\ more[1] = stack[1]
    BY DEF PollKept
  <2>1. other # << >> /\ other[1] = stack[1]
    BY DEF FramesKept, PollKept
  <2>2. 1 \in DOMAIN other
    BY <2>1
  <2> QED BY <1>1, <2>1, <2>2
<1>3. \A i \in DOMAIN more : more[i].op = "call" => CallKept(stack, more, i) \/ more[i] = f
  BY <1>1 DEF FramesKept, CallKept
<1> QED BY <1>0, <1>2, <1>3 DEF OneMore

\* What keeps every wake-up: nothing that a step does to slots, frames or requests.
CellsKept ==
  \A l \in Loaders, s \in Slots :
    \/ slots'[l][s] = slots[l][s]
    \/ CellTold(slots'[l][s], l, s, request', managerReady', frames')
RequestsFollow == \A t \in Tokens : Follows(t) /\ StillQueued(t)

LEMMA Follow ==
  ASSUME \A t \in Tokens : request'[t] = request[t] \/ request'[t] = None
  PROVE  RequestsFollow
BY DEF RequestsFollow, Follows, StillQueued

\* A step that at most pops frames or makes their answers old.
LEMMA FewerWakes ==
  ASSUME TypeInv, WakeInv, UNCHANGED wake \/ \E woken : WakeManager(woken),
         RequestsFollow, CellsKept, NEW stack, frames' = stack, FramesKept(frames, stack)
  PROVE  WakeInv'
<1>1. PollKept(frames, frames') /\ \A i \in DOMAIN frames' : frames'[i].op = "call" => CallKept(frames, frames', i)
  BY DEF FramesKept
<1> QED BY <1>1, WakesStay DEF RequestsFollow, CellsKept

LEMMA SameSlotsWake ==
  ASSUME TypeInv, WakeInv, UNCHANGED wake \/ \E woken : WakeManager(woken),
         RequestsFollow, slots' = slots, frames' = frames \/ frames' = Aged(frames)
  PROVE  WakeInv'
<1>1. CellsKept
  BY DEF CellsKept
<1>2. FramesKept(frames, frames')
  BY StackWakes
<1> QED BY <1>1, <1>2, FewerWakes

\* A call that is invalidated is woken, but nobody wants it any more.
LEMMA InvalidatedCells ==
  ASSUME TypeInv, NEW t \in Tokens, slots' = InvalidatedGrid(slots, t),
         request'[t] = None \/ request'[t].gen > nextRequest
  PROVE  CellsKept
<1> SUFFICES ASSUME NEW l \in Loaders, NEW s \in Slots
             PROVE  \/ slots'[l][s] = slots[l][s]
                    \/ CellTold(slots'[l][s], l, s, request', managerReady', frames')
  BY DEF CellsKept
<1>1. GridSound(slots, nextRequest) /\ nextRequest \in Nat
  BY Typed DEF TypeInv
<1>2. PICK T : T = InvalidatedGrid(slots, t)
  OBVIOUS
<1>3. T[l][s] # Leased =>
        T[l][s] = Free \/ (T[l][s] = slots[l][s] /\ slots[l][s].token # t)
        \/ WokenFrom(slots[l], t, T[l][s])
  BY <1>1, <1>2, InvalidatedGridFacts
<1>4. PICK c : c = T[l][s]
  OBVIOUS
<1>5. CASE c = Leased \/ c = Free
  BY <1>2, <1>4, <1>5 DEF CellTold, Waits, Free
<1>6. CASE c = slots[l][s]
  BY <1>2, <1>4, <1>6
<1>7. CASE WokenFrom(slots[l], t, c)
  <2>1. PICK x \in Slots : Holds(slots[l][x], t) /\ c = Woken(slots[l][x])
    BY <1>7 DEF WokenFrom
  <2>2. slots[l][x] \in CallState /\ slots[l][x].gen <= nextRequest /\ slots[l][x].gen \in Nat
        /\ slots[l][x].token = t
    BY <1>1, <2>1 DEF GridSound, Grid, Row, Holds, CallState
  <2>3. c.ready /\ c.token = t /\ c.gen <= nextRequest /\ c.gen \in Nat
    BY <2>1, <2>2, WokenFacts
  <2>4. ~(request'[c.token] # None /\ request'[c.token].gen = c.gen)
    BY <1>1, <2>3
  <2> QED BY <1>2, <1>4, <2>3, <2>4 DEF CellTold
<1> QED BY <1>2, <1>3, <1>4, <1>5, <1>6, <1>7

LEMMA RegisterWakes ==
  ASSUME TypeInv, WakeInv, NEW t \in Tokens, NEW kind \in Offered, Register(t, kind)
  PROVE  WakeInv'
<1>1. /\ request' = WithRequest(request, t, None) /\ frames' = Aged(frames)
      /\ slots' = InvalidatedGrid(slots, t) /\ \E woken : WakeManager(woken)
  BY DEF Register, Invalidate, WithRequest, InvalidatedGrid
<1>2. request'[t] = None /\ \A u \in Tokens : u # t => request'[u] = request[u]
  BY <1>1, Forgotten
<1>3. RequestsFollow
  BY <1>2, Follow
<1>4. CellsKept
  BY <1>1, <1>2, InvalidatedCells
<1>5. FramesKept(frames, frames')
  BY <1>1, StackWakes
<1> QED BY <1>1, <1>3, <1>4, <1>5, FewerWakes

LEMMA DropHandleWakes ==
  ASSUME TypeInv, WakeInv, NEW h \in Handles, DropHandle(h)
  PROVE  WakeInv'
<1>1. PICK t : t = handles[h].token
  OBVIOUS
<1>2. frames' = frames /\ t \in Tokens
  BY <1>1, Typed DEF DropHandle, HandleState
<1>3. CASE UNCHANGED <<request, slots, wake>>
  <2>1. RequestsFollow
    BY <1>3, Follow
  <2> QED BY <1>2, <1>3, <2>1, SameSlotsWake
<1>4. CASE request' = WithRequest(request, t, None) /\ Invalidate(t)
  <2>1. slots' = InvalidatedGrid(slots, t) /\ \E woken : WakeManager(woken)
    BY <1>4 DEF Invalidate, InvalidatedGrid
  <2>2. request'[t] = None /\ \A u \in Tokens : u # t => request'[u] = request[u]
    BY <1>2, <1>4, Forgotten
  <2>3. RequestsFollow
    BY <2>2, Follow
  <2>4. CellsKept
    BY <1>2, <2>1, <2>2, InvalidatedCells
  <2>5. FramesKept(frames, frames')
    BY <1>2, StackWakes
  <2> QED BY <2>1, <2>3, <2>4, <2>5, FewerWakes
<1> QED BY <1>1, <1>3, <1>4 DEF DropHandle, WithRequest

LEMMA ReloadWakes ==
  ASSUME TypeInv, WakeInv, NEW t \in Tokens, Reload(t)
  PROVE  WakeInv'
<1>1. PICK r : r = [gen |-> nextRequest + 1, load |-> TRUE, queued |-> TRUE, detached |-> TRUE]
  OBVIOUS
<1>2. PICK yes \in BOOLEAN : yes = TRUE
  OBVIOUS
<1>3. /\ request' = WithRequest(request, t, r) /\ frames' = frames
      /\ slots' = InvalidatedGrid(slots, t) /\ WakeManager(yes)
  BY <1>1, <1>2 DEF Reload, WithRequest, InvalidatedGrid
<1>4. request'[t] = r /\ (\A u \in Tokens : u # t => request'[u] = request[u]) /\ managerReady' = TRUE
  BY <1>2, <1>3, Typed DEF WithRequest, WakeManager
<1>5. request'[t].gen > nextRequest
  BY <1>1, <1>4, Typed
<1>6. RequestsFollow
  <2>1. ASSUME NEW u \in Tokens PROVE Follows(u) /\ StillQueued(u)
    BY <1>4, <1>5 DEF Follows, StillQueued
  <2> QED BY <2>1 DEF RequestsFollow
<1>7. CellsKept
  BY <1>3, <1>5, InvalidatedCells
<1>8. FramesKept(frames, frames')
  BY <1>3, StackWakes
<1> QED BY <1>3, <1>6, <1>7, <1>8, FewerWakes

LEMMA JoinedFollow ==
  ASSUME TypeInv, NEW t \in Tokens, NEW r, Wants(request[t], r), request[t] # None,
         request' = WithRequest(request, t, r)
  PROVE  RequestsFollow
<1>1. request'[t] = r /\ \A u \in Tokens : u # t => request'[u] = request[u]
  BY Typed DEF WithRequest
<1> QED BY <1>1 DEF RequestsFollow, Follows, StillQueued, Wants

\* A call that loses nothing in whatever slot it is.
Anywhere(c) == \A l, s : CellTold(c, l, s, request', managerReady', frames')

LEMMA TellsAnywhere ==
  ASSUME NEW c, Idle(c) \/ c = Leased \/ CallTold(c, managerReady')
  PROVE  Anywhere(c)
BY DEF Anywhere, Idle, CallTold, CellTold, Waits

\* The calls of T are the calls of S, or c.
OneNew(S, T, c) == \A m \in Loaders, x \in Slots : T[m][x] = S[m][x] \/ T[m][x] = c

LEMMA GivenCells ==
  ASSUME NEW S, NEW T, NEW l, NEW s, NEW c, Given(S, T, l, s, c)
  PROVE  OneNew(S, T, c)
BY DEF Given, SameBut, OneNew

LEMMA TakenCells ==
  ASSUME NEW l \in Loaders, NEW s \in Slots, Taken(slots, slots', l, s)
  PROVE  CellsKept
<1>1. Anywhere(Leased)
  BY TellsAnywhere
<1>2. OneNew(slots, slots', Leased)
  BY DEF Taken, SameBut, OneNew
<1> QED BY <1>1, <1>2 DEF CellsKept, Anywhere, OneNew

LEMMA SettledCells ==
  ASSUME TypeInv, Calling, NEW f, f = Top, NEW c \in CallState, NEW d \in CallState,
         c.gen <= nextRequest, d.gen <= nextRequest, slots' = Settled(f, c, d),
         Anywhere(c), Anywhere(d)
  PROVE  CellsKept
<1>1. \E U : OneNew(slots, U, c) /\ OneNew(U, slots', d)
  <2>1. CASE f.held = << >>
    <3>1. PICK s \in Slots : Given(slots, slots', f.loader, s, c)
      BY <2>1, SettledFacts
    <3>2. OneNew(slots, slots', c)
      BY <3>1, GivenCells
    <3>3. OneNew(slots', slots', d)
      BY DEF OneNew
    <3> QED BY <3>2, <3>3
  <2>2. CASE f.held # << >>
    <3>1. PICK U : \E s \in Slots, y \in Slots :
            Given(slots, U, f.loader, s, c) /\ Given(U, slots', f.held[1].loader, y, d)
      BY <2>2, SettledFacts
    <3>2. OneNew(slots, U, c) /\ OneNew(U, slots', d)
      BY <3>1, GivenCells
    <3> QED BY <3>2
  <2> QED BY <2>1, <2>2
<1> QED BY <1>1 DEF CellsKept, Anywhere, OneNew

LEMMA ReturnsWake ==
  ASSUME TypeInv, WakeInv, Calling, NEW f, f = Top, NEW c \in CallState, NEW d \in CallState,
         c.gen <= nextRequest, d.gen <= nextRequest, slots' = Settled(f, c, d),
         Idle(c) \/ CallTold(c, managerReady'), Idle(d),
         frames' = Callers \/ frames' = Aged(Callers), RequestsFollow,
         UNCHANGED wake \/ \E woken : WakeManager(woken)
  PROVE  WakeInv'
<1>1. CellsKept
  BY TellsAnywhere, SettledCells
<1>2. FramesKept(frames, frames')
  BY CallTop, StackWakes
<1> QED BY <1>1, <1>2, FewerWakes

\* One frame more.
LEMMA MoreWakes ==
  ASSUME TypeInv, WakeInv, UNCHANGED wake \/ \E woken : WakeManager(woken),
         RequestsFollow, CellsKept, NEW stack \in Seq(Frame), FramesKept(frames, stack),
         NEW f \in Frame, f.op = "call" => CallTold(f.call, managerReady'),
         frames' = Append(stack, f)
  PROVE  WakeInv'
<1>1. OneMore(frames, frames', f)
  <2>1. OneMore(frames, Append(stack, f), f)
    BY PushedWakes
  <2> QED BY <2>1
<1>2. PollKept(frames, frames') /\ \A i \in DOMAIN frames' : frames'[i].op = "call" =>
        CallKept(frames, frames', i) \/ CallTold(frames'[i].call, managerReady')
  BY <1>1 DEF OneMore
<1> QED BY <1>1, <1>2, WakesStay DEF RequestsFollow, CellsKept

LEMMA BeginFollow ==
  ASSUME TypeInv, NEW t \in Tokens, NEW load \in BOOLEAN, NEW detached \in BOOLEAN,
         Begin(t, load, detached)
  PROVE  RequestsFollow
<1>1. /\ request'[t].gen = nextRequest + 1 /\ ~request'[t].queued /\ nextRequest \in Nat
      /\ \A u \in Tokens : u # t => request'[u] = request[u]
  BY BeginFacts
<1>2. request'[t].gen > nextRequest
  BY <1>1
<1>3. ASSUME NEW u \in Tokens PROVE Follows(u) /\ StillQueued(u)
  BY <1>1, <1>2 DEF Follows, StillQueued
<1> QED BY <1>3 DEF RequestsFollow

LEMMA ChainWakes ==
  ASSUME TypeInv, WakeInv, NEW t \in Tokens, NEW load \in BOOLEAN, NEW detached \in BOOLEAN,
         Begin(t, load, detached), NEW by, NEW h, NEW l \in Loaders, NEW s \in Slots, NEW f,
         Chained(t, by, h, l, s, f), UNCHANGED wake
  PROVE  WakeInv'
<1>1. RequestsFollow
  BY BeginFollow
<1>2. CellsKept
  BY TakenCells DEF Chained
<1>3. FramesKept(frames, frames) /\ frames \in Seq(Frame)
  BY StackWakes, Typed
<1>4. f \in Frame /\ CallTold(f.call, managerReady') /\ frames' = Append(frames, f)
  BY DEF Chained, CallTold
<1> QED BY <1>1, <1>2, <1>3, <1>4, MoreWakes

LEMMA ResolveWakes ==
  ASSUME TypeInv, WakeInv, NEW t \in Tokens, NEW detached \in BOOLEAN, NEW h, Asks(h, t),
         Resolve(t, detached, h)
  PROVE  WakeInv'
<1>1. CASE ResolveAtOnce(t, h) \/ ResolveStatic(t, h) \/ ResolveUnserved(t, h)
  <2>1. /\ request' = request /\ slots' = slots /\ UNCHANGED wake
        /\ frames' = frames \/ frames' = Aged(frames)
    BY <1>1 DEF ResolveAtOnce, ResolveStatic, ResolveUnserved
  <2>2. RequestsFollow
    BY <2>1, Follow
  <2> QED BY <2>1, <2>2, SameSlotsWake
<1>2. CASE ResolveJoin(t, detached, h)
  <2>1. request[t] # None /\ slots' = slots /\ UNCHANGED wake /\ frames' = frames
        /\ request' = [request EXCEPT ![t].detached = @ \/ detached, ![t].load = TRUE]
    BY <1>2 DEF ResolveJoin
  <2>2. PICK r \in Request : Wants(request[t], r) /\ request' = WithRequest(request, t, r)
    BY <2>1, Joined
  <2>3. RequestsFollow
    BY <2>1, <2>2, JoinedFollow
  <2> QED BY <2>1, <2>3, SameSlotsWake
<1>3. CASE ResolveFactory(t, detached, h)
  <2>1. PICK yes \in BOOLEAN : yes = TRUE
    OBVIOUS
  <2>2. PICK f : f = [op |-> "factory", token |-> t, gen |-> nextRequest + 1, age |-> age[t],
                      handle |-> h, fresh |-> h # None]
    OBVIOUS
  <2>3. Begin(t, yes, detached) /\ slots' = slots /\ UNCHANGED wake /\ frames' = Append(frames, f)
    BY <1>3, <2>1, <2>2 DEF ResolveFactory
  <2>4. RequestsFollow
    BY <2>3, BeginFollow
  <2>5. CellsKept
    BY <2>3 DEF CellsKept
  <2>6. f \in Frame /\ f.op # "call"
    <3>1. nextRequest + 1 \in 1..MaxRequest /\ t \in Tokens /\ age[t] \in Ages
      BY <2>3, BeginFacts, Typed
    <3>2. h \in Handles \cup {None}
      BY DEF Asks
    <3> QED BY <2>2, <3>1, <3>2 DEF Frame, FactoryFrame
  <2>7. FramesKept(frames, frames) /\ frames \in Seq(Frame)
    BY StackWakes, Typed
  <2> QED BY <2>3, <2>4, <2>5, <2>6, <2>7, MoreWakes
<1>4. CASE ResolveChain(t, detached, h)
  <2>1. PICK yes \in BOOLEAN : yes = TRUE
    OBVIOUS
  <2>2. UNCHANGED wake
    BY <1>4 DEF ResolveChain
  <2>3. /\ Begin(t, yes, detached)
        /\ \E l \in Loaders, s \in Slots : \E f : Chained(t, "resolve", h, l, s, f)
    BY <1>4, <2>1, ResolveChainTyped
  <2>4. PICK by : by = "resolve"
    OBVIOUS
  <2>5. PICK l \in Loaders, s \in Slots : \E f : Chained(t, by, h, l, s, f)
    BY <2>3, <2>4
  <2>6. PICK f : Chained(t, by, h, l, s, f)
    BY <2>5
  <2> QED BY <2>2, <2>3, <2>6, ChainWakes
<1> QED BY <1>1, <1>2, <1>3, <1>4 DEF Resolve

LEMMA FactoryReturnsWakes ==
  ASSUME TypeInv, WakeInv, NEW ok \in BOOLEAN, FactoryReturns(ok)
  PROVE  WakeInv'
<1>1. PICK f : f = Top
  OBVIOUS
<1>2. /\ frames # << >> /\ f.op = "factory" /\ slots' = slots /\ UNCHANGED wake
      /\ request' = request \/ request' = WithRequest(request, f.token, None)
      /\ frames' = Callers \/ frames' = Aged(Callers)
  BY <1>1 DEF FactoryReturns, WithRequest
<1>3. f.token \in Tokens
  <2>1. f \in Frame
    BY <1>1, <1>2, Typed, StackPopped DEF TypeInv, Top
  <2> QED BY <1>2, <2>1, FrameTypes DEF TokenOf
<1>4. \A t \in Tokens : request'[t] = request[t] \/ request'[t] = None
  BY <1>2, <1>3, Forgotten
<1>5. RequestsFollow
  BY <1>4, Follow
<1>6. CellsKept
  BY <1>2 DEF CellsKept
<1>7. FramesKept(frames, frames')
  BY <1>1, <1>2, StackWakes
<1> QED BY <1>2, <1>5, <1>6, <1>7, FewerWakes

LEMMA ProbeCompletedWakes ==
  ASSUME TypeInv, WakeInv, NEW t \in Tokens, ProbeCompleted(t)
  PROVE  WakeInv'
<1>1. PICK l \in Loaders, s \in Slots, x \in Slots :
        /\ slots[l][s] # Leased /\ slots[l][s].meta # None
        /\ \A m \in Loaders : m # l => slots'[m] = slots[m]
        /\ slots'[l][x] = slots[l][s]
        /\ x = s \/ slots'[l][s] = Leased
        /\ \A y \in Slots : y # x /\ y # s => slots'[l][y] = slots[l][y]
  BY CompletedFacts
<1>2. Anywhere(slots[l][s]) /\ Anywhere(Leased)
  BY <1>1, TellsAnywhere DEF Idle
<1>3. \A m \in Loaders, y \in Slots :
        slots'[m][y] = slots[m][y] \/ slots'[m][y] = slots[l][s] \/ slots'[m][y] = Leased
  BY <1>1
<1>4. CellsKept
  BY <1>2, <1>3 DEF CellsKept, Anywhere
<1>5. UNCHANGED wake /\ request' = request /\ frames' = frames
  BY DEF ProbeCompleted
<1>6. RequestsFollow
  BY <1>5, Follow
<1>7. FramesKept(frames, frames')
  BY <1>5, StackWakes
<1> QED BY <1>4, <1>5, <1>6, <1>7, FewerWakes

LEMMA ProbeWakes ==
  ASSUME TypeInv, WakeInv, NEW t \in Tokens, NEW detached \in BOOLEAN,
         ProbeJoin(t, detached) \/ ProbeAtOnce(t, detached) \/ ProbeChain(t, detached)
  PROVE  WakeInv'
<1>1. CASE ProbeJoin(t, detached)
  <2>1. request[t] # None /\ slots' = slots /\ UNCHANGED wake /\ frames' = frames
        /\ request' = [request EXCEPT ![t].detached = @ \/ detached]
    BY <1>1 DEF ProbeJoin
  <2>2. PICK r \in Request : Wants(request[t], r) /\ request' = WithRequest(request, t, r)
    BY <2>1, Joined
  <2>3. RequestsFollow
    BY <2>1, <2>2, JoinedFollow
  <2> QED BY <2>1, <2>3, SameSlotsWake
<1>2. CASE ProbeAtOnce(t, detached)
  <2>1. request' = request /\ slots' = slots /\ UNCHANGED wake /\ frames' = frames
    BY <1>2 DEF ProbeAtOnce
  <2>2. RequestsFollow
    BY <2>1, Follow
  <2> QED BY <2>1, <2>2, SameSlotsWake
<1>3. CASE ProbeChain(t, detached)
  <2>1. PICK no \in BOOLEAN : no = FALSE
    OBVIOUS
  <2>2. UNCHANGED wake
    BY <1>3 DEF ProbeChain
  <2>3. /\ Begin(t, no, detached)
        /\ \E l \in Loaders, s \in Slots : \E f : Chained(t, "probe", None, l, s, f)
    BY <1>3, <2>1, ProbeChainTyped
  <2>4. PICK by, h : by = "probe" /\ h = None
    OBVIOUS
  <2>5. PICK l \in Loaders, s \in Slots : \E f : Chained(t, by, h, l, s, f)
    BY <2>3, <2>4
  <2>6. PICK f : Chained(t, by, h, l, s, f)
    BY <2>5
  <2> QED BY <2>2, <2>3, <2>6, ChainWakes
<1> QED BY <1>1, <1>2, <1>3

\* What becomes of the running call: nothing that waits, or what it was told.
LEMMA RunningTold ==
  ASSUME TypeInv, WakeInv, Calling, NEW f, f = Top
  PROVE  CallTold(f.call, managerReady)
<1>1. frames # << >> /\ frames \in Seq(Frame) /\ f.op = "call"
  BY CallTop, Typed
<1>2. f = frames[Len(frames)] /\ Len(frames) \in DOMAIN frames
  BY <1>1, Popped DEF Top
<1> QED BY <1>1, <1>2 DEF WakeInv

LEMMA CallEndsWake ==
  ASSUME TypeInv, WakeInv, Calling, NEW f, f = Top, NEW c \in CallState, NEW d \in CallState,
         Idle(c), Idle(d), c.gen <= nextRequest, d.gen <= nextRequest, slots' = Settled(f, c, d),
         frames' = Callers \/ frames' = Aged(Callers), UNCHANGED wake,
         request' = request \/ request' = WithRequest(request, f.call.token, None)
  PROVE  WakeInv'
<1>1. f.call.token \in Tokens
  BY CallTop
<1>2. \A t \in Tokens : request'[t] = request[t] \/ request'[t] = None
  BY <1>1, Forgotten
<1>3. RequestsFollow
  BY <1>2, Follow
<1> QED BY <1>3, ReturnsWake

LEMMA ReturnStaleWakes ==
  ASSUME TypeInv, WakeInv, ReturnStale
  PROVE  WakeInv'
<1>1. PICK f : f = Top
  OBVIOUS
<1>2. PICK c, d : c = Free /\ d \in {Free, Refused(f)} /\ slots' = Settled(f, c, d)
  BY <1>1 DEF ReturnStale
<1>3. Calling /\ (frames' = Callers \/ frames' = Aged(Callers)) /\ UNCHANGED wake /\ request' = request
  BY <1>1 DEF ReturnStale
<1>4. /\ c \in CallState /\ c.gen <= nextRequest /\ d \in CallState /\ d.gen <= nextRequest
      /\ Refused(f).meta # None
  BY <1>1, <1>2, <1>3, RefusedFacts
<1>5. Idle(c) /\ Idle(d)
  BY <1>2, <1>4 DEF Idle, Free
<1> QED BY <1>1, <1>2, <1>3, <1>4, <1>5, CallEndsWake

LEMMA ReturnValueWakes ==
  ASSUME TypeInv, WakeInv, ReturnValue
  PROVE  WakeInv'
<1>1. PICK f, c : f = Top /\ c = Free
  OBVIOUS
<1>2. /\ Calling /\ slots' = Settled(f, c, c) /\ frames' = Aged(Callers) /\ UNCHANGED wake
      /\ request' = WithRequest(request, f.call.token, None)
  BY <1>1 DEF ReturnValue, Ongoing, WithRequest
<1>3. c \in CallState /\ c.gen <= nextRequest
  BY <1>1, <1>2, RefusedFacts
<1>4. Idle(c)
  BY <1>1 DEF Idle, Free
<1> QED BY <1>1, <1>2, <1>3, <1>4, CallEndsWake

LEMMA ReturnMetaWakes ==
  ASSUME TypeInv, WakeInv, ReturnMeta
  PROVE  WakeInv'
<1>1. PICK f, c, d : f = Top /\ c = Told(f.call) /\ d = Free
  OBVIOUS
<1>2. /\ Calling /\ slots' = Settled(f, c, d) /\ (frames' = Callers \/ frames' = Aged(Callers))
      /\ UNCHANGED wake /\ request' = WithRequest(request, f.call.token, None)
  BY <1>1 DEF ReturnMeta, Ongoing, WithRequest, Told
<1>3. /\ d \in CallState /\ d.gen <= nextRequest /\ f.call \in CallState /\ f.call.gen <= nextRequest
  BY <1>1, <1>2, RefusedFacts
<1>4. c \in CallState /\ c.gen <= nextRequest /\ c.meta # None
  BY <1>1, <1>3, ToldFacts
<1>5. Idle(c) /\ Idle(d)
  BY <1>1, <1>4 DEF Idle, Free
<1> QED BY <1>1, <1>2, <1>3, <1>4, <1>5, CallEndsWake

LEMMA ReturnErrorWakes ==
  ASSUME TypeInv, WakeInv, NEW notMine \in BOOLEAN, ReturnError(notMine)
  PROVE  WakeInv'
<1>1. PICK f : f = Top
  OBVIOUS
<1>2. PICK c, d : /\ c \in {Free, Refused(f)} /\ d \in {Free, Refused(f)}
                  /\ slots' = Settled(f, c, d)
  BY <1>1 DEF ReturnError
<1>3. /\ Calling /\ (frames' = Callers \/ frames' = Aged(Callers)) /\ UNCHANGED wake
      /\ request' = WithRequest(request, f.call.token, None)
  BY <1>1 DEF ReturnError, Ongoing, WithRequest
<1>4. /\ c \in CallState /\ c.gen <= nextRequest /\ d \in CallState /\ d.gen <= nextRequest
      /\ Refused(f).meta # None
  BY <1>1, <1>2, <1>3, RefusedFacts
<1>5. Idle(c) /\ Idle(d)
  BY <1>2, <1>4 DEF Idle, Free
<1> QED BY <1>1, <1>2, <1>3, <1>4, <1>5, CallEndsWake

LEMMA ReturnPendingWakes ==
  ASSUME TypeInv, WakeInv, ReturnPending
  PROVE  WakeInv'
<1>1. PICK f, c, d : f = Top /\ c = f.call /\ d = Free
  OBVIOUS
<1>2. /\ Calling /\ slots' = Settled(f, c, d) /\ frames' = Callers /\ UNCHANGED wake
      /\ request' = request
  BY <1>1 DEF ReturnPending, Ongoing
<1>3. c \in CallState /\ c.gen <= nextRequest /\ d \in CallState /\ d.gen <= nextRequest
  BY <1>1, <1>2, RefusedFacts
<1>4. CallTold(c, managerReady')
  BY <1>1, <1>2, RunningTold DEF wake
<1>5. RequestsFollow
  BY <1>2, Follow
<1>6. Idle(d)
  BY <1>1 DEF Idle, Free
<1> QED BY <1>1, <1>2, <1>3, <1>4, <1>5, <1>6, ReturnsWake

LEMMA ReturnMetaWantedWakes ==
  ASSUME TypeInv, WakeInv, ReturnMetaWanted
  PROVE  WakeInv'
<1>1. PICK f, c, d : f = Top /\ c = GoesOn(f.call) /\ d = Free
  OBVIOUS
<1>2. /\ Calling /\ slots' = Returned(f.loader, c) /\ f.by = "slot" /\ frames' = Callers
      /\ WakeManager(f.call.linked) /\ request' = request
  BY <1>1 DEF ReturnMetaWanted, Ongoing, GoesOn
<1>3. slots' = Settled(f, c, d)
  <2>1. f.held = << >>
    BY <1>1, <1>2, CallTop DEF CallSound
  <2> QED BY <1>2, <2>1 DEF Settled
<1>4. /\ f.call \in CallState /\ f.call.gen <= nextRequest /\ d \in CallState
      /\ d.gen <= nextRequest
  BY <1>1, <1>2, RefusedFacts
<1>5. c \in CallState /\ c.gen <= nextRequest /\ c.ready
  BY <1>1, <1>4, GoesOnFacts
<1>6. CallTold(f.call, managerReady)
  BY <1>1, <1>2, RunningTold
<1>7. managerReady'
  <2>1. CASE f.call.linked
    BY <1>2, <2>1 DEF WakeManager
  <2>2. CASE ~f.call.linked
    BY <1>2, <1>6, <2>2 DEF WakeManager, CallTold, wake
  <2> QED BY <2>1, <2>2
<1>8. CallTold(c, managerReady')
  BY <1>5, <1>7 DEF CallTold
<1>9. RequestsFollow
  BY <1>2, Follow
<1>10. Idle(d)
  BY <1>1 DEF Idle, Free
<1>11. \E woken : WakeManager(woken)
  BY <1>2
<1> QED BY <1>1, <1>2, <1>3, <1>4, <1>5, <1>8, <1>9, <1>10, <1>11, ReturnsWake

LEMMA ReturnNotMineWakes ==
  ASSUME TypeInv, WakeInv, ReturnNotMine
  PROVE  WakeInv'
<1>1. PICK f : f = Top
  OBVIOUS
<1>2. Calling /\ request' = request /\ UNCHANGED wake
  BY <1>1 DEF ReturnNotMine, Ongoing
<1>3. PICK l \in Loaders, s \in Slots, x \in Slots : \E S, h, probe : NotMine(f, S, x, l, s, h, probe)
  BY <1>1, NotMineFacts
<1>4. PICK S, h, probe : NotMine(f, S, x, l, s, h, probe)
  BY <1>3
<1>5. \E c : Idle(c) /\ OneNew(slots, S, c)
  <2>1. CASE S = slots
    BY <2>1 DEF OneNew, Idle
  <2>2. CASE Given(slots, S, f.loader, x, Free)
    <3>1. OneNew(slots, S, Free)
      BY <2>2, GivenCells
    <3> QED BY <3>1 DEF Idle, Free
  <2> QED BY <1>4, <2>1, <2>2 DEF NotMine
<1>6. PICK c : Idle(c) /\ OneNew(slots, S, c)
  BY <1>5
<1>7. OneNew(S, slots', Leased)
  <2>1. Taken(S, slots', l, s)
    BY <1>4, TakenFacts DEF NotMine, GridSound
  <2> QED BY <2>1 DEF Taken, SameBut, OneNew
<1>8. CellsKept
  <2>1. Anywhere(c) /\ Anywhere(Leased)
    BY <1>6, TellsAnywhere
  <2> QED BY <1>6, <1>7, <2>1 DEF CellsKept, Anywhere, OneNew
<1>9. RequestsFollow
  BY <1>2, Follow
<1>10. FramesKept(frames, Callers) /\ Callers \in Seq(Frame)
  <2>1. frames # << >> /\ Top.op # "poll" /\ frames \in Seq(Frame)
    BY <1>1, <1>2, CallTop, Typed
  <2> QED BY <2>1, StackWakes, Popped DEF Callers
<1>11. h \in Frame /\ CallTold(h.call, managerReady') /\ frames' = Append(Callers, h)
  BY <1>4 DEF NotMine, CallTold
<1> QED BY <1>2, <1>8, <1>9, <1>10, <1>11, MoreWakes

LEMMA PollQueuedWakes ==
  ASSUME TypeInv, WakeInv, NEW t \in Tokens, PollQueued(t)
  PROVE  WakeInv'
<1>1. /\ request[t] # None
      /\ \/ /\ request' = WithRequest(request, t, None) /\ slots' = slots /\ frames' = frames
         \/ \E l \in Loaders, s \in Slots : \E f : Dequeued(t, l, s, f)
  BY PollQueuedTyped
<1>2. UNCHANGED wake
  BY DEF PollQueued
<1>3. CASE request' = WithRequest(request, t, None) /\ slots' = slots /\ frames' = frames
  <2>1. \A u \in Tokens : request'[u] = request[u] \/ request'[u] = None
    BY <1>3, Forgotten
  <2>2. RequestsFollow
    BY <2>1, Follow
  <2> QED BY <1>2, <1>3, <2>2, SameSlotsWake
<1>4. CASE \E l \in Loaders, s \in Slots : \E f : Dequeued(t, l, s, f)
  <2>1. PICK l \in Loaders, s \in Slots : \E f : Dequeued(t, l, s, f)
    BY <1>4
  <2>2. PICK f : Dequeued(t, l, s, f)
    BY <2>1
  <2>3. /\ Taken(slots, slots', l, s) /\ f \in Frame /\ CallTold(f.call, managerReady')
        /\ frames' = Append(frames, f)
        /\ request'[t].gen = request[t].gen /\ ~request'[t].queued
        /\ \A u \in Tokens : u # t => request'[u] = request[u]
    BY <2>2 DEF Dequeued, CallTold
  <2>4. RequestsFollow
    <3>1. ASSUME NEW u \in Tokens PROVE Follows(u) /\ StillQueued(u)
      BY <1>1, <2>3 DEF Follows, StillQueued
    <3> QED BY <3>1 DEF RequestsFollow
  <2>5. CellsKept
    BY <2>3, TakenCells
  <2>6. FramesKept(frames, frames) /\ frames \in Seq(Frame)
    BY StackWakes, Typed
  <2> QED BY <1>2, <2>3, <2>4, <2>5, <2>6, MoreWakes
<1> QED BY <1>1, <1>3, <1>4

\* A poll begins with the first slot and with every reload asked for so far.
LEMMA PollBeginWakes ==
  ASSUME TypeInv, WakeInv, PollBegin
  PROVE  WakeInv'
<1>1. PICK f : f = [op |-> "poll", through |-> nextRequest, loader |-> 1, slot |-> 1]
  OBVIOUS
<1>2. /\ frames = << >> /\ ~managerReady' /\ managerLinked' /\ request' = request /\ slots' = slots
      /\ IF managerReady THEN frames' = <<f>> ELSE frames' = << >>
  BY <1>1 DEF PollBegin
<1>3. \A l, s : ~Ahead(frames, l, s)
  BY <1>2 DEF Ahead
<1>4. CASE managerReady
  <2>1. frames' # << >> /\ frames'[1] = f /\ DOMAIN frames' = {1}
    BY <1>2, <1>4
  <2>2. ASSUME NEW l \in Loaders, NEW s \in Slots PROVE Ahead(frames', l, s)
    BY <1>1, <2>1 DEF Ahead, Loaders, Slots
  <2>3. ASSUME NEW l \in Loaders, NEW s \in Slots
        PROVE  CellTold(slots'[l][s], l, s, request', managerReady', frames')
    <3>1. CellTold(slots[l][s], l, s, request, managerReady, frames)
      BY DEF WakeInv
    <3> QED BY <1>2, <2>2, <3>1 DEF CellTold
  <2>4. ASSUME NEW t \in Tokens PROVE QueueTold(request'[t], managerReady', frames')
    <3>1. request[t] # None => request[t].gen <= f.through
      BY <1>1, Typed
    <3> QED BY <1>1, <1>2, <2>1, <3>1 DEF QueueTold
  <2>5. \A i \in DOMAIN frames' : frames'[i].op # "call"
    BY <1>1, <2>1
  <2> QED BY <1>2, <2>3, <2>4, <2>5 DEF WakeInv
<1>5. CASE ~managerReady
  <2>1. frames' = frames
    BY <1>2, <1>5
  <2>2. ASSUME NEW l \in Loaders, NEW s \in Slots
        PROVE  CellTold(slots'[l][s], l, s, request', managerReady', frames')
    <3>1. CellTold(slots[l][s], l, s, request, managerReady, frames)
      BY DEF WakeInv
    <3> QED BY <1>2, <1>3, <1>5, <3>1 DEF CellTold
  <2>3. ASSUME NEW t \in Tokens PROVE QueueTold(request'[t], managerReady', frames')
    BY <1>2, <1>5 DEF WakeInv, QueueTold
  <2>4. DOMAIN frames' = {}
    BY <1>2, <2>1
  <2> QED BY <1>2, <2>2, <2>3, <2>4 DEF WakeInv
<1> QED BY <1>4, <1>5

\* A poll ends when no slot and no reload is before it.
LEMMA PollEndWakes ==
  ASSUME TypeInv, WakeInv, PollEnd
  PROVE  WakeInv'
<1>1. PICK f : f = Top
  OBVIOUS
<1>2. /\ Polling /\ f.loader \notin Loaders /\ Queued(f) = {} /\ frames' = << >>
      /\ request' = request /\ slots' = slots /\ UNCHANGED wake
  BY <1>1 DEF PollEnd
<1>3. f \in PollFrame /\ frames = <<f>>
  BY <1>1, <1>2, PollTop
<1>4. frames[1] = f
  BY <1>3
<1>5. f.loader = LoaderCount + 1
  BY <1>2, <1>3, Sizes DEF PollFrame, Loaders
<1>6. ASSUME NEW l \in Loaders, NEW s \in Slots PROVE ~Ahead(frames, l, s)
  BY <1>4, <1>5, Sizes DEF Ahead, Loaders
<1>7. ASSUME NEW l \in Loaders, NEW s \in Slots
      PROVE  CellTold(slots'[l][s], l, s, request', managerReady', frames')
  <2>1. CellTold(slots[l][s], l, s, request, managerReady, frames)
    BY DEF WakeInv
  <2> QED BY <1>2, <1>6, <2>1 DEF CellTold, wake
<1>8. ASSUME NEW t \in Tokens PROVE QueueTold(request'[t], managerReady', frames')
  <2>1. QueueTold(request[t], managerReady, frames)
    BY DEF WakeInv
  <2>2. request[t] # None /\ request[t].queued => ~(request[t].gen <= f.through)
    BY <1>2 DEF Queued
  <2> QED BY <1>2, <1>4, <2>1, <2>2 DEF QueueTold, wake
<1>9. DOMAIN frames' = {}
  BY <1>2
<1> QED BY <1>2, <1>7, <1>8, <1>9 DEF WakeInv, wake

LEMMA AdvancedAhead ==
  ASSUME NEW f \in PollFrame, f.loader \in Loaders, NEW g, g = Advanced(f), NEW stack, NEW other,
         stack # << >>, stack[1] = f, other # << >>, other[1] = g,
         NEW m \in Loaders, NEW y \in Slots, m # f.loader \/ y # f.slot, Ahead(stack, m, y)
  PROVE  Ahead(other, m, y)
<1>1. /\ g.op = "poll" /\ f.loader \in Nat /\ f.slot \in Nat /\ m \in Nat /\ y \in Nat
      /\ y <= Capacity /\ y >= 1 /\ Capacity \in Nat
  BY AdvancedFacts, Sizes DEF Loaders, Slots, PollFrame
<1>2. \/ f.slot < Capacity /\ g.loader = f.loader /\ g.slot = f.slot + 1
      \/ f.slot = Capacity /\ g.loader = f.loader + 1 /\ g.slot = 1
  BY AdvancedFacts
<1>3. f.loader < m \/ (f.loader = m /\ f.slot <= y)
  BY DEF Ahead
<1>4. g.loader < m \/ (g.loader = m /\ g.slot <= y)
  BY <1>1, <1>2, <1>3
<1> QED BY <1>1, <1>4 DEF Ahead

LEMMA PollSlotWakes ==
  ASSUME TypeInv, WakeInv, PollSlot
  PROVE  WakeInv'
<1>1. PICK f \in PollFrame, g \in PollFrame, l \in Loaders, s \in Slots :
        /\ f.op = "poll" /\ frames = <<f>> /\ l = f.loader /\ s = f.slot /\ g = Advanced(f)
        /\ slots[l][s] # Leased /\ slots[l][s] \in CallState
        /\ \/ /\ ~Waits(slots[l][s])
              /\ slots' = slots /\ frames' = <<g>>
           \/ /\ Waits(slots[l][s]) /\ ~slots[l][s].ready
              /\ slots' = WithCall(slots, l, s, Visited(slots[l][s])) /\ frames' = <<g>>
           \/ /\ Waits(slots[l][s]) /\ slots[l][s].ready
              /\ ~Current(slots[l][s].token, slots[l][s].gen)
              /\ slots' = WithCall(slots, l, s, Free) /\ frames' = <<g>>
           \/ /\ Waits(slots[l][s]) /\ slots[l][s].ready
              /\ Current(slots[l][s].token, slots[l][s].gen)
              /\ slots' = WithCall(slots, l, s, Leased)
              /\ frames' = << g, Call("slot", Visited(slots[l][s]), l, None, FALSE, << >>) >>
  BY PollSlotFacts
<1>2. PICK v : v = Visited(slots[l][s])
  OBVIOUS
<1>3. CallTold(v, managerReady')
  BY <1>1, <1>2, VisitedFacts DEF CallTold
<1>4. UNCHANGED wake /\ request' = request
  BY DEF PollSlot
<1>5. PICK h : h = Call("slot", v, l, None, FALSE, << >>)
  OBVIOUS
<1>6. h.call = v
  BY <1>5 DEF Call
<1>7. frames' = <<g>> \/ frames' = <<g, h>>
  BY <1>1, <1>2, <1>5
<1>8. frames # << >> /\ frames[1] = f /\ frames' # << >> /\ frames'[1] = g /\ g.op = "poll"
      /\ g.through = f.through
  BY <1>1, <1>7, AdvancedFacts
<1>9. \E c : (~Waits(c) \/ CallTold(c, managerReady')) /\ slots' = WithCall(slots, l, s, c)
  <2>1. CASE ~Waits(slots[l][s]) /\ slots' = slots
    <3>1. slots = WithCall(slots, l, s, slots[l][s])
      BY Typed DEF WithCall, Grid, Row
    <3> QED BY <2>1, <3>1
  <2>2. CASE slots' = WithCall(slots, l, s, v)
    BY <1>3, <2>2
  <2>3. CASE slots' = WithCall(slots, l, s, Free)
    BY <2>3 DEF Waits, Free
  <2>4. CASE slots' = WithCall(slots, l, s, Leased)
    BY <2>4 DEF Waits
  <2> QED BY <1>1, <1>2, <2>1, <2>2, <2>3, <2>4
<1>10. PICK c : (~Waits(c) \/ CallTold(c, managerReady')) /\ slots' = WithCall(slots, l, s, c)
  BY <1>9
<1>11. ASSUME NEW m \in Loaders, NEW y \in Slots
       PROVE  CellTold(slots'[m][y], m, y, request', managerReady', frames')
  <2>1. CASE m = l /\ y = s
    <3>1. slots'[m][y] = c
      BY <1>10, <2>1, Typed DEF WithCall, Grid, Row
    <3> QED BY <1>10, <3>1 DEF CellTold, CallTold
  <2>2. CASE m # l \/ y # s
    <3>1. slots'[m][y] = slots[m][y]
      BY <1>10, <2>2, Typed DEF WithCall, Grid, Row
    <3>2. CellTold(slots[m][y], m, y, request, managerReady, frames)
      BY DEF WakeInv
    <3>3. Ahead(frames, m, y) => Ahead(frames', m, y)
      BY <1>1, <1>8, <2>2, AdvancedAhead
    <3> QED BY <1>4, <3>1, <3>2, <3>3 DEF CellTold, wake
  <2> QED BY <2>1, <2>2
<1>12. ASSUME NEW t \in Tokens PROVE QueueTold(request'[t], managerReady', frames')
  <2>1. QueueTold(request[t], managerReady, frames)
    BY DEF WakeInv
  <2> QED BY <1>4, <1>8, <2>1 DEF QueueTold, wake
<1>13. ASSUME NEW i \in DOMAIN frames', frames'[i].op = "call"
       PROVE  CallTold(frames'[i].call, managerReady')
  <2>1. frames'[i] = g \/ frames'[i] = h
    BY <1>7, <1>13
  <2> QED BY <1>3, <1>6, <1>8, <1>13, <2>1
<1> QED BY <1>4, <1>11, <1>12, <1>13 DEF WakeInv, wake

LEMMA WakeSlotWakes ==
  ASSUME TypeInv, WakeInv, NEW l \in Loaders, NEW s \in Slots, WakeSlot(l, s)
  PROVE  WakeInv'
<1>1. PICK c, d : c = slots[l][s] /\ d = Woken(c)
  OBVIOUS
<1>2. /\ Waits(c) /\ WakeManager(c.linked) /\ request' = request /\ frames' = frames
  BY <1>1 DEF WakeSlot
<1>3. c \in CallState
  BY <1>1, <1>2, Typed DEF Waits, Grid, Row
<1>4. d.ready /\ d.token = c.token /\ d.gen = c.gen
  BY <1>1, <1>3, WokenFacts
<1>5. managerReady => managerReady'
  BY <1>2 DEF WakeManager, wake
<1>6. CellTold(d, l, s, request', managerReady', frames')
  <2>1. CellTold(c, l, s, request, managerReady, frames)
    BY <1>1 DEF WakeInv
  <2>2. CASE c.linked
    BY <1>2, <1>4, <2>2 DEF WakeManager, CellTold
  <2>3. CASE ~c.linked
    BY <1>2, <1>4, <1>5, <2>1, <2>3 DEF CellTold
  <2> QED BY <2>2, <2>3
<1>7. SameBut(slots, slots', l, s) /\ slots'[l][s] = d
  BY <1>1, WakeSlotTyped DEF Replaced
<1>8. CellsKept
  <2>1. ASSUME NEW m \in Loaders, NEW y \in Slots, ~(m = l /\ y = s)
        PROVE  slots'[m][y] = slots[m][y]
    BY <1>7, <2>1 DEF SameBut
  <2> QED BY <1>6, <1>7, <2>1 DEF CellsKept
<1>9. RequestsFollow
  BY <1>2, Follow
<1>10. FramesKept(frames, frames')
  BY <1>2, StackWakes
<1>11. \E woken : WakeManager(woken)
  BY <1>2
<1> QED BY <1>8, <1>9, <1>10, <1>11, FewerWakes

LEMMA WakeRunningWakes ==
  ASSUME TypeInv, WakeInv, NEW i \in DOMAIN frames, WakeRunning(i)
  PROVE  WakeInv'
<1>1. PICK c : c = frames[i].call
  OBVIOUS
<1>2. WakeManager(c.linked) /\ request' = request /\ slots' = slots
  BY <1>1 DEF WakeRunning
<1>3. /\ StacksAlike(frames, frames') /\ frames[i].op = "call" /\ c \in RunningCall
      /\ \A j \in DOMAIN frames : j # i => frames'[j] = frames[j]
      /\ frames'[i].call = Woken(c)
  BY <1>1, WakeRunningFacts
<1>4. Woken(c).ready
  BY <1>3, WokenFacts, CallTypes
<1>5. managerReady'
  <2>1. CallTold(c, managerReady)
    BY <1>1, <1>3 DEF WakeInv
  <2>2. CASE c.linked
    BY <1>2, <2>2 DEF WakeManager
  <2>3. CASE ~c.linked
    BY <1>2, <2>1, <2>3 DEF WakeManager, CallTold, wake
  <2> QED BY <2>2, <2>3
<1>6. CallTold(frames'[i].call, managerReady')
  BY <1>3, <1>4, <1>5 DEF CallTold
<1>7. frames \in Seq(Frame) /\ frames' \in Seq(Frame) /\ DOMAIN frames' = DOMAIN frames
      /\ \A j \in DOMAIN frames : frames'[j].op = frames[j].op
  BY <1>3, Typed DEF StacksAlike, Alike
<1>8. PollKept(frames, frames')
  <2> SUFFICES ASSUME frames # << >>, frames[1].op = "poll"
               PROVE  frames' # << >> /\ frames'[1] = frames[1]
    BY DEF PollKept
  <2>1. 1 \in DOMAIN frames
    BY <1>7
  <2> QED BY <1>3, <1>7, <2>1
<1>9. \A j \in DOMAIN frames' : frames'[j].op = "call" =>
        CallKept(frames, frames', j) \/ CallTold(frames'[j].call, managerReady')
  BY <1>3, <1>6, <1>7 DEF CallKept
<1>10. \A t \in Tokens : Follows(t) /\ StillQueued(t)
  BY <1>2 DEF Follows, StillQueued
<1>11. \A l \in Loaders, s \in Slots :
         \/ slots'[l][s] = slots[l][s]
         \/ CellTold(slots'[l][s], l, s, request', managerReady', frames')
  BY <1>2
<1>12. \E woken : WakeManager(woken)
  BY <1>2
<1> QED BY <1>8, <1>9, <1>10, <1>11, <1>12, WakesStay

LEMMA InitWakes == Init => WakeInv
<1>1. ASSUME Init, NEW l \in Loaders, NEW s \in Slots PROVE ~Waits(slots[l][s])
  BY <1>1 DEF Init, Waits, Free
<1>2. ASSUME Init PROVE managerReady /\ hostWoken /\ DOMAIN frames = {} /\ \A t \in Tokens : request[t] = None
  BY <1>2 DEF Init
<1> QED BY <1>1, <1>2 DEF WakeInv, CellTold, QueueTold

LEMMA NextWakes == TypeInv /\ WakeInv /\ [Next]_vars => WakeInv'
<1> SUFFICES ASSUME TypeInv, WakeInv, [Next]_vars PROVE WakeInv'
  OBVIOUS
<1>0. ASSUME request' = request, slots' = slots, frames' = frames \/ frames' = Aged(frames),
             UNCHANGED wake \/ \E woken : WakeManager(woken)
      PROVE  WakeInv'
  <2>1. RequestsFollow
    BY <1>0, Follow
  <2> QED BY <1>0, <2>1, SameSlotsWake
<1>1. ASSUME NEW t \in Tokens, NEW kind \in Offered, Register(t, kind) PROVE WakeInv'
  BY <1>1, RegisterWakes
<1>2. ASSUME NEW t \in Tokens, ClearFailed(t) PROVE WakeInv'
  BY <1>0, <1>2 DEF ClearFailed
<1>3. ASSUME NEW t \in Tokens, Reload(t) PROVE WakeInv'
  BY <1>3, ReloadWakes
<1>4. ASSUME NEW t \in Tokens, Resolve(t, TRUE, None) PROVE WakeInv'
  <2>1. Asks(None, t)
    BY DEF Asks
  <2>2. \E detached \in BOOLEAN : Resolve(t, detached, None)
    BY <1>4
  <2> QED BY <2>1, <2>2, ResolveWakes
<1>5. ASSUME NEW t \in Tokens, ProbeCompleted(t) PROVE WakeInv'
  BY <1>5, ProbeCompletedWakes
<1>6. ASSUME NEW t \in Tokens, NEW detached \in BOOLEAN,
             ProbeJoin(t, detached) \/ ProbeAtOnce(t, detached) \/ ProbeChain(t, detached)
      PROVE  WakeInv'
  BY <1>6, ProbeWakes
<1>7. ASSUME NEW t \in Tokens, PollQueued(t) PROVE WakeInv'
  BY <1>7, PollQueuedWakes
<1>8. ASSUME NEW h \in Handles, NEW t \in Tokens, Load(h, t) PROVE WakeInv'
  BY <1>0, <1>8 DEF Load
<1>9. ASSUME NEW h \in Handles, NEW copy \in Handles, CloneHandle(h, copy) PROVE WakeInv'
  BY <1>0, <1>9 DEF CloneHandle
<1>10. ASSUME NEW h \in Handles, DropHandle(h) PROVE WakeInv'
  BY <1>10, DropHandleWakes
<1>11. ASSUME NEW h \in Handles, Get(h) PROVE WakeInv'
  <2>1. PICK t : t = handles[h].token
    OBVIOUS
  <2>2. t \in Tokens /\ Asks(h, t)
    BY <1>11, <2>1, Typed DEF Get, Asks, HandleState
  <2>3. \E detached \in BOOLEAN : Resolve(t, detached, h)
    BY <1>11, <2>1 DEF Get
  <2> QED BY <2>2, <2>3, ResolveWakes
<1>12. ASSUME NEW ok \in BOOLEAN, FactoryReturns(ok) PROVE WakeInv'
  BY <1>12, FactoryReturnsWakes
<1>13. CASE PollBegin \/ PollSlot \/ PollEnd
  BY <1>13, PollBeginWakes, PollSlotWakes, PollEndWakes
<1>14. CASE Return
  BY <1>14, ReturnStaleWakes, ReturnPendingWakes, ReturnValueWakes, ReturnMetaWakes,
     ReturnMetaWantedWakes, ReturnNotMineWakes, ReturnErrorWakes DEF Return
<1>15. ASSUME NEW l \in Loaders, NEW s \in Slots, WakeSlot(l, s) PROVE WakeInv'
  BY <1>15, WakeSlotWakes
<1>16. ASSUME NEW i \in DOMAIN frames, WakeRunning(i) PROVE WakeInv'
  BY <1>16, WakeRunningWakes
<1>17. CASE WakeLate
  BY <1>0, <1>17 DEF WakeLate
<1>18. CASE UNCHANGED vars
  BY <1>0, <1>18 DEF vars
<1> QED BY <1>1, <1>2, <1>3, <1>4, <1>5, <1>6, <1>7, <1>8, <1>9, <1>10, <1>11, <1>12, <1>13,
           <1>14, <1>15, <1>16, <1>17, <1>18 DEF Next

LEMMA WakesHold == Spec => []WakeInv
<1>1. Init => WakeInv
  BY InitWakes
<1>2. TypeInv /\ WakeInv /\ [Next]_vars => WakeInv'
  BY NextWakes
<1> QED BY <1>1, <1>2, TypesHold, PTL DEF Spec

\* No wake-up is lost: between polls, a call that was woken and is still wanted, and
\* a reload in the queue, have the manager scheduled and the host told, wherever in
\* a poll, a callback or an invalidation they came (core/resource/wake.rs).
THEOREM NoWakeUpLost == Spec => []WakeUpsKept
<1>1. TypeInv /\ WakeInv => WakeUpsKept
  <2> SUFFICES ASSUME TypeInv, WakeInv, frames = << >>,
                      \/ \E t \in Tokens : request[t] # None /\ request[t].queued
                      \/ \E l \in Loaders, s \in Slots :
                           LET c == slots[l][s]
                           IN  Waits(c) /\ c.ready /\ Current(c.token, c.gen)
               PROVE  managerReady
    BY DEF WakeUpsKept, WakeInv
  <2>1. CASE \E t \in Tokens : request[t] # None /\ request[t].queued
    BY <2>1 DEF WakeInv, QueueTold
  <2>2. ASSUME NEW l \in Loaders, NEW s \in Slots, Waits(slots[l][s]), slots[l][s].ready,
               Current(slots[l][s].token, slots[l][s].gen)
        PROVE  managerReady
    <3>1. CellTold(slots[l][s], l, s, request, managerReady, frames)
      BY DEF WakeInv
    <3> QED BY <2>2, <3>1 DEF CellTold, Ahead, Current
  <2> QED BY <2>1, <2>2
<1> QED BY <1>1, TypesHold, WakesHold, PTL
=============================================================================
