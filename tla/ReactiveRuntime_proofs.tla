---------------------- MODULE ReactiveRuntime_proofs ----------------------
(***************************************************************************)
(* The runtime's safety for any number of signals, models, computeds,      *)
(* effects, Worlds and widgets, and closures nested to any depth.          *)
(***************************************************************************)
EXTENDS ReactiveRuntime, FiniteSetTheorems, SequenceTheorems, TLAPS

Facts == /\ Effects \cap Computeds = {} /\ Sources \cap Subscribers = {}
         /\ Signals \cap Models = {} /\ None \notin Worlds /\ None \notin Entities

LEMMA ConstantFacts == Facts
BY KindsAssumption, NoneIsNobody DEF Facts, Sources, Subscribers

-----------------------------------------------------------------------------
(***************************************************************************)
(* The stack of running closures.                                          *)
(***************************************************************************)
LEMMA PushFrame ==
  ASSUME NEW fs \in Seq(Frame), NEW f \in Frame
  PROVE  /\ Append(fs, f) \in Seq(Frame) /\ Len(fs) \in Nat
         /\ Len(Append(fs, f)) = Len(fs) + 1
         /\ DOMAIN fs = 1..Len(fs) /\ DOMAIN Append(fs, f) = 1..(Len(fs) + 1)
         /\ \A i \in 1..Len(fs) : Append(fs, f)[i] = fs[i]
         /\ Append(fs, f)[Len(fs) + 1] = f
BY AppendProperties

LEMMA CutFrames ==
  ASSUME NEW fs \in Seq(Frame), NEW k \in 0..Len(fs)
  PROVE  /\ SubSeq(fs, 1, k) \in Seq(Frame)
         /\ Len(SubSeq(fs, 1, k)) = k /\ Len(fs) \in Nat
         /\ DOMAIN fs = 1..Len(fs) /\ DOMAIN SubSeq(fs, 1, k) = 1..k
         /\ \A i \in 1..k : SubSeq(fs, 1, k)[i] = fs[i]
<1>1. Len(fs) \in Nat /\ DOMAIN fs = 1..Len(fs)
  BY LenProperties
<1>2. \A i \in 1..k : fs[i] \in Frame
  BY <1>1, ElementOfSeq
<1> QED
  BY <1>1, <1>2, SubSeqProperties, LenProperties

LEMMA RunningPushed ==
  ASSUME TypeOK, NEW f \in Frame, frames' = Append(frames, f)
  PROVE  Running' = Running \cup {f.who}
<1>1. /\ Len(frames) \in Nat /\ DOMAIN frames = 1..Len(frames)
      /\ DOMAIN frames' = 1..(Len(frames) + 1)
      /\ \A i \in 1..Len(frames) : frames'[i] = frames[i]
      /\ frames'[Len(frames) + 1] = f
  BY PushFrame DEF TypeOK
<1>2. Running' = {frames'[i].who : i \in 1..(Len(frames) + 1)}
  BY <1>1 DEF Running
<1>3. Running = {frames[i].who : i \in 1..Len(frames)}
  BY <1>1 DEF Running
<1> QED
  BY <1>1, <1>2, <1>3

LEMMA RunningCut ==
  ASSUME TypeOK, NEW k \in 0..Len(frames), frames' = SubSeq(frames, 1, k)
  PROVE  Running = Running' \cup {frames[i].who : i \in (k + 1)..Len(frames)}
<1>1. /\ Len(frames) \in Nat /\ DOMAIN frames = 1..Len(frames)
      /\ DOMAIN frames' = 1..k /\ \A i \in 1..k : frames'[i] = frames[i]
  BY CutFrames DEF TypeOK
<1>2. Running' = {frames[i].who : i \in 1..k}
  BY <1>1 DEF Running
<1>3. Running = {frames[i].who : i \in 1..Len(frames)}
  BY <1>1 DEF Running
<1> QED
  BY <1>1, <1>2, <1>3

LEMMA RunningPopped ==
  ASSUME TypeOK, frames # << >>, frames' = SubSeq(frames, 1, Len(frames) - 1)
  PROVE  Running = Running' \cup {Top.who}
<1>1. Len(frames) \in Nat \ {0}
  BY LenProperties, EmptySeq DEF TypeOK
<1> DEFINE k == Len(frames) - 1
<1>2. Running = Running' \cup {frames[i].who : i \in (k + 1)..Len(frames)}
  <2>1. k \in 0..Len(frames) /\ frames' = SubSeq(frames, 1, k)
    BY <1>1
  <2> HIDE DEF k
  <2> QED
    BY <2>1, RunningCut
<1> QED
  BY <1>1, <1>2 DEF Top

\* What is known of the innermost closure.
LEMMA TopFrame ==
  ASSUME TypeOK, frames # << >>
  PROVE  /\ Len(frames) \in Nat \ {0} /\ DOMAIN frames = 1..Len(frames)
         /\ Top = frames[Len(frames)] /\ Top \in Frame
         /\ Top.who \in Subscribers /\ Top.world \in Worlds \cup {None}
         /\ Top.who \in Running
<1>1. frames \in Seq(Frame)
  BY DEF TypeOK
<1>2. Len(frames) \in Nat \ {0} /\ DOMAIN frames = 1..Len(frames)
  BY <1>1, LenProperties, EmptySeq
<1>3. frames[Len(frames)] \in Frame
  BY <1>1, <1>2, ElementOfSeq
<1> QED
  BY <1>2, <1>3 DEF Top, Frame, Running
-----------------------------------------------------------------------------
(***************************************************************************)
(* Types.                                                                  *)
(***************************************************************************)
LEMMA BatchIsFinite ==
  ASSUME TypeOK, NEW E
  PROVE  Cardinality(batch \cap E) \in Nat /\ (batch = {} => Cardinality(batch \cap E) = 0)
<1>1. Cardinality(batch \cap E) \in Nat
  BY EffectsAreFinite, FS_Subset, FS_CardinalityType DEF TypeOK
<1>2. ASSUME batch = {} PROVE Cardinality(batch \cap E) = 0
  <2>1. batch \cap E = {}
    BY <1>2
  <2> QED
    BY <2>1, FS_EmptySet
<1> QED
  BY <1>1, <1>2

LEMMA DirtiedAreComputeds == \A source : Dirtied(source) \subseteq Computeds
BY DEF Dirtied

LEMMA InitType == Init => TypeOK
<1> SUFFICES ASSUME Init PROVE TypeOK
  OBVIOUS
<1>1. frames \in Seq(Frame)
  BY DEF Init
<1>2. ran \in BOOLEAN
  BY DEF Init
<1>3. passes \in 0..PassLimit /\ extra \in Nat
  BY PassAssumption DEF Init
<1> QED
  BY <1>1, <1>2, <1>3 DEF Init, TypeOK

LEMMA TypeStep ==
  ASSUME TypeOK, Next
  PROVE  TypeOK'
<1> USE DEF TypeOK
<1>1. ASSUME NEW s \in Signals, SetSignal(s) PROVE TypeOK'
  BY <1>1, DirtiedAreComputeds DEF SetSignal, Publish, Woken, queues, flush, tree, Sources
<1>2. ASSUME NEW m \in Models, NotifyModel(m) PROVE TypeOK'
  BY <1>2, DirtiedAreComputeds DEF NotifyModel, Publish, Woken, queues, flush, tree, Sources
<1>3. ASSUME NEW m \in Models, Retire(m) PROVE TypeOK'
  BY <1>3, DirtiedAreComputeds DEF Retire, queues, flush, tree
<1>4. ASSUME NEW s \in Signals, ReadSignal(s) PROVE TypeOK'
  BY <1>4, TopFrame DEF ReadSignal, Read, Bind, Tracks, queues, flush, tree, Sources
<1>5. ASSUME NEW m \in Models, ReadModel(m) PROVE TypeOK'
  <2>1. OwnerOf[m] \in Worlds \cup {None}
    BY OwnerAssumption
  <2> QED
    BY <1>5, <2>1, TopFrame DEF ReadModel, Read, Bind, Tracks, queues, flush, tree, Sources
<1>6. ASSUME NEW c \in Computeds, GetCached(c) PROVE TypeOK'
  <2>1. OwnerOf[c] \in Worlds \cup {None}
    BY OwnerAssumption
  <2> QED
    BY <1>6, <2>1, TopFrame DEF GetCached, Bind, Tracks, Subscription, queues, flush, tree, Subscribers
<1>7. ASSUME NEW c \in Computeds, Evaluate(c) PROVE TypeOK'
  <2>1. OwnerOf[c] \in Worlds \cup {None}
    BY OwnerAssumption
  <2>2. frames' \in Seq(Frame)
    BY <1>7, <2>1, PushFrame DEF Evaluate, Frame, Subscribers
  <2> QED
    BY <1>7, <2>1, <2>2, TopFrame DEF Evaluate, Bind, Tracks, Subscription, Column, queues, flush, tree, Subscribers
<1>8. CASE ReturnComputed
  <2>1. frames # << >> /\ Top.who \in Computeds
    BY <1>8 DEF ReturnComputed
  <2>2. frames' \in Seq(Frame)
    BY <1>8, <2>1, TopFrame, CutFrames DEF ReturnComputed
  <2>3. reads' \in [Subscribers -> SUBSET Sources]
    <3>1. reads[Top.who] \in SUBSET Sources
      BY <2>1, TopFrame
    <3> QED
      BY <1>8, <3>1 DEF ReturnComputed
  <2> QED
    BY <1>8, <2>2, <2>3 DEF ReturnComputed, queues, flush, tree
<1>9. ASSUME NEW k \in 0..Len(frames), Unwind(k) PROVE TypeOK'
  <2> DEFINE left == {frames[i].who : i \in (k + 1)..Len(frames)}
             unfinished == {e \in left \cap Effects : status[e] = "first"}
  <2>1. frames' \in Seq(Frame)
    BY <1>9, CutFrames DEF Unwind
  <2>2. Forget(unfinished) /\ UNCHANGED <<home, stale, tree, retired, released>>
    BY <1>9 DEF Unwind, Unregister
  <2>3. CASE k > 0 \/ flushing = None
    <3>1. Unregister(unfinished) /\ UNCHANGED flush
      BY <1>9, <2>3 DEF Unwind
    <3> HIDE DEF unfinished
    <3>2. extra' \in Nat /\ (flushing = None => extra' = 0)
      <4>1. /\ Cardinality(batch \cap unfinished) \in Nat
            /\ batch = {} => Cardinality(batch \cap unfinished) = 0
        BY BatchIsFinite
      <4>2. extra' = extra + Cardinality(batch \cap unfinished)
        BY <3>1 DEF Unregister
      <4> QED
        BY <4>1, <4>2
    <3> QED
      BY <2>1, <2>2, <3>1, <3>2 DEF Unregister, Forget, flush, tree
  <2>4. CASE ~(k > 0 \/ flushing = None)
    <3>1. /\ batch' = {} /\ later' = (batch \cup later) \ unfinished /\ extra' = 0
          /\ flushing' = None /\ passes' = 0 /\ ran' \in BOOLEAN
      BY <1>9, <2>4 DEF Unwind
    <3> HIDE DEF unfinished
    <3> QED
      BY <2>1, <2>2, <3>1, PassAssumption DEF Forget, tree
  <2> QED
    BY <2>3, <2>4
<1>10. ASSUME NEW e \in Effects, NEW w \in Worlds \cup {None}, Spawn(e, w) PROVE TypeOK'
  <2>1. frames' \in Seq(Frame)
    BY <1>10, PushFrame DEF Spawn, Frame, Subscribers
  <2> QED
    BY <1>10, <2>1 DEF Spawn, queues, flush, tree, ghosts
<1>11. ASSUME NEW e \in Effects, Dispose(e) PROVE TypeOK'
  <2>1. extra' \in Nat /\ (flushing = None => extra' = 0)
    BY <1>11, BatchIsFinite DEF Dispose, Unregister
  <2> QED
    BY <1>11, <2>1 DEF Dispose, Unregister, Forget, flush, tree
<1>12. ASSUME NEW e \in Effects, ReturnEffect(e) PROVE TypeOK'
  BY <1>12, TopFrame, CutFrames DEF ReturnEffect, queues, flush, tree, ghosts
<1>13. ASSUME NEW w \in Worlds, FlushBegin(w) PROVE TypeOK'
  <2>1. /\ Forget(Doomed(w)) /\ batch' = later \ Doomed(w) /\ later' = {} /\ extra' = 0
        /\ UNCHANGED <<home, stale, frames, tree, retired, released>>
    BY <1>13 DEF FlushBegin
  <2>2. /\ flushing' \in Worlds \cup {None} /\ passes' \in 0..PassLimit /\ ran' \in BOOLEAN
        /\ flushing' = None => batch' = {} /\ passes' = 0
    <3>1. CASE batch' = {}
      BY <1>13, <3>1 DEF FlushBegin, Idle, flush
    <3>2. CASE batch' # {}
      <4>1. flushing' = w /\ passes' = 1 /\ ran' \in BOOLEAN
        BY <1>13, <3>2 DEF FlushBegin
      <4> QED
        BY <4>1, PassAssumption, ConstantFacts DEF Facts
    <3> QED
      BY <3>1, <3>2
  <2> QED
    BY <2>1, <2>2 DEF Forget, tree
<1>14. ASSUME NEW w \in Worlds, ReleaseWorld(w) PROVE TypeOK'
  BY <1>14 DEF ReleaseWorld, flush, tree
<1>15. ASSUME NEW e \in Effects, FlushStep(e) PROVE TypeOK'
  <2>1. CASE PopForeign(e)
    BY <2>1 DEF PopForeign, Pop, flush, tree, ghosts
  <2>2. CASE PopDisabled(e)
    BY <2>2 DEF PopDisabled, Pop, flush, tree, ghosts
  <2>3. CASE PopRun(e)
    <3>1. << [who |-> e, world |-> home[e]] >> \in Seq(Frame)
      BY DEF Frame, Subscribers
    <3>2. e \in Subscribers /\ ran' \in BOOLEAN /\ extra' \in Nat
      BY <2>3 DEF PopRun, Pop, Subscribers
    <3> QED
      BY <2>3, <3>1, <3>2 DEF PopRun, Pop, tree, Column
  <2> QED
    BY <1>15, <2>1, <2>2, <2>3 DEF FlushStep
<1>16. ASSUME NEW marked \in BOOLEAN, EndPass(marked) PROVE TypeOK'
  <2>1. /\ flushing # None /\ batch = {} /\ extra' = 0 /\ ran' \in BOOLEAN
        /\ UNCHANGED <<status, home, deps, stale, frames, tree, retired, released, ghosts>>
    BY <1>16 DEF EndPass, PassOver
  <2>2. CASE (ran \/ marked) /\ passes < PassLimit
    <3>1. passes' = passes + 1 /\ batch' = later /\ later' = {} /\ flushing' = flushing
      BY <1>16, <2>2 DEF EndPass
    <3> QED
      BY <2>1, <2>2, <3>1, PassAssumption DEF tree, ghosts
  <2>3. CASE ~((ran \/ marked) /\ passes < PassLimit)
    <3>1. passes' = 0 /\ batch' = batch /\ later' = later /\ flushing' = None
      BY <1>16, <2>3 DEF EndPass
    <3> QED
      BY <2>1, <3>1, PassAssumption DEF tree, ghosts
  <2> QED
    BY <2>2, <2>3
<1>17. ASSUME NEW g \in Gates, Conceal(g) PROVE TypeOK'
  BY <1>17 DEF Conceal, queues, flush, ghosts
<1>18. ASSUME NEW g \in Gates, Reveal(g) PROVE TypeOK'
  BY <1>18 DEF Reveal, Gated, flush, ghosts
<1>19. ASSUME NEW n \in Entities, Despawn(n) PROVE TypeOK'
  BY <1>19 DEF Despawn, queues, flush, ghosts
<1> QED
  BY <1>1, <1>2, <1>3, <1>4, <1>5, <1>6, <1>7, <1>8, <1>9, <1>10, <1>11, <1>12,
     <1>13, <1>14, <1>15, <1>16, <1>17, <1>18, <1>19 DEF Next, FlushLoop
-----------------------------------------------------------------------------
(***************************************************************************)
(* The inductive invariant.                                                *)
(***************************************************************************)
\* What runs inside a computed is another computed.
ReadersInnermost ==
  \A i, j \in DOMAIN frames :
    i < j /\ frames[i].who \in Computeds =>
      frames[j].who \in Computeds /\ frames[j].who # frames[i].who

\* A closure runs in a World that is still there, a computed in its own; a computed
\* that is being evaluated is dirty and an effect that runs was spawned.
FramesSound ==
  \A i \in DOMAIN frames :
    /\ frames[i].who \in Computeds =>
         frames[i].world = OwnerOf[frames[i].who] /\ frames[i].who \in stale
    /\ frames[i].who \in Effects => status[frames[i].who] # "new"
    /\ frames[i].world \notin released

\* A flush that runs an effect knows it, and in a pass without one nothing of its
\* World was queued behind the batch.
RunSeen ==
  flushing # None =>
    /\ frames # << >> => ran = TRUE
    /\ ran = FALSE => \A e \in later : Foreign(e)

\* The effect of a widget belongs to the World of the widget, and a computed
\* depends on nothing that belongs to another World.
HomesKept ==
  /\ \A e \in Effects : Live(e) /\ EntityOf[e] # None => home[e] = OwnerOf[EntityOf[e]]
  /\ \A d \in deps : d[2] \in Computeds /\ d[1] \notin Signals =>
       OwnerOf[d[1]] \in {None, OwnerOf[d[2]]}

IInv ==
  /\ TypeOK
  /\ ReadersInnermost /\ FramesSound /\ RunSeen /\ HomesKept
  /\ EffectsStayHome /\ NothingLeftBehind /\ UnfinishedForgotten

LEMMA InitInv == Init => IInv
<1> SUFFICES ASSUME Init PROVE IInv
  OBVIOUS
<1>1. TypeOK
  BY InitType
<1>2. ReadersInnermost /\ FramesSound /\ RunSeen
  BY DEF Init, ReadersInnermost, FramesSound, RunSeen
<1>3. HomesKept /\ EffectsStayHome /\ NothingLeftBehind /\ UnfinishedForgotten
  BY DEF Init, HomesKept, EffectsStayHome, NothingLeftBehind, UnfinishedForgotten, Live, Queued
<1> QED
  BY <1>1, <1>2, <1>3 DEF IInv

\* While code may act no computed is being evaluated.
LEMMA NoReaderRuns ==
  ASSUME IInv, MayAct
  PROVE  Running \cap Computeds = {}
<1>1. CASE frames = << >>
  BY <1>1 DEF Running
<1>2. CASE frames # << >>
  <2>1. Top.who \in Effects /\ Top.who \notin Computeds
    BY <1>2, ConstantFacts DEF MayAct, Idle, Facts
  <2>2. Len(frames) \in Nat \ {0} /\ DOMAIN frames = 1..Len(frames) /\ Top = frames[Len(frames)]
    BY <1>2, TopFrame DEF IInv
  <2>3. \A i \in DOMAIN frames : frames[i].who \notin Computeds
    BY <2>1, <2>2 DEF IInv, ReadersInnermost
  <2> QED
    BY <2>3 DEF Running
<1> QED
  BY <1>1, <1>2

-----------------------------------------------------------------------------
(***************************************************************************)
(* The frames: each step leaves them alone, pushes one or cuts them off.   *)
(***************************************************************************)
FramesInv == ReadersInnermost /\ FramesSound

LEMMA FramesStay ==
  ASSUME FramesInv, UNCHANGED frames, released' = released,
         Running \cap stale \subseteq stale',
         \A e \in Effects : status[e] # "new" => status'[e] # "new"
  PROVE  FramesInv'
BY DEF FramesInv, ReadersInnermost, FramesSound, Running

LEMMA FramesPushed ==
  ASSUME TypeOK, FramesInv, NEW f \in Frame, frames' = Append(frames, f), UNCHANGED <<released, stale>>,
         f.world \notin released,
         f.who \in Computeds =>
           f.world = OwnerOf[f.who] /\ f.who \in stale /\ f.who \notin Running,
         f.who \in Effects => status'[f.who] # "new" /\ Running \cap Computeds = {},
         \A e \in Effects : status[e] # "new" => status'[e] # "new"
  PROVE  FramesInv'
<1>1. /\ Len(frames) \in Nat /\ DOMAIN frames = 1..Len(frames)
      /\ DOMAIN frames' = 1..(Len(frames) + 1)
      /\ \A i \in 1..Len(frames) : frames'[i] = frames[i]
      /\ frames'[Len(frames) + 1] = f
  BY PushFrame DEF TypeOK
<1>2. f.who \in Computeds \/ f.who \in Effects
  BY DEF Frame, Subscribers
<1>3. ReadersInnermost'
  BY <1>1, <1>2 DEF FramesInv, ReadersInnermost, Running
<1>4. FramesSound'
  BY <1>1, <1>2 DEF FramesInv, FramesSound
<1> QED
  BY <1>3, <1>4 DEF FramesInv

LEMMA FramesCut ==
  ASSUME TypeOK, FramesInv, NEW k \in 0..Len(frames), frames' = SubSeq(frames, 1, k),
         released' = released,
         \A i \in 1..k : frames[i].who \in stale => frames[i].who \in stale',
         \A e \in Effects : status[e] # "new" => status'[e] # "new"
  PROVE  FramesInv'
<1>1. /\ Len(frames) \in Nat /\ DOMAIN frames = 1..Len(frames)
      /\ DOMAIN frames' = 1..k /\ \A i \in 1..k : frames'[i] = frames[i]
  BY CutFrames DEF TypeOK
<1> QED
  BY <1>1 DEF FramesInv, ReadersInnermost, FramesSound
LEMMA FramesStep ==
  ASSUME IInv, Next
  PROVE  FramesInv'
<1>0. FramesInv /\ TypeOK
  BY DEF IInv, FramesInv
<1>1. ASSUME NEW s \in Signals, SetSignal(s) PROVE FramesInv'
  BY <1>0, <1>1, FramesStay DEF SetSignal, Publish
<1>2. ASSUME NEW m \in Models, NotifyModel(m) PROVE FramesInv'
  BY <1>0, <1>2, FramesStay DEF NotifyModel, Publish
<1>3. ASSUME NEW m \in Models, Retire(m) PROVE FramesInv'
  BY <1>0, <1>3, FramesStay DEF Retire
<1>4. ASSUME NEW s \in Signals, ReadSignal(s) PROVE FramesInv'
  BY <1>0, <1>4, FramesStay DEF ReadSignal, Read
<1>5. ASSUME NEW m \in Models, ReadModel(m) PROVE FramesInv'
  BY <1>0, <1>5, FramesStay DEF ReadModel, Read
<1>6. ASSUME NEW c \in Computeds, GetCached(c) PROVE FramesInv'
  BY <1>0, <1>6, FramesStay DEF GetCached
<1>7. ASSUME NEW c \in Computeds, Evaluate(c) PROVE FramesInv'
  <2> DEFINE f == [who |-> c, world |-> OwnerOf[c]]
  <2>1. f \in Frame /\ c \notin Effects
    BY OwnerAssumption, ConstantFacts DEF Frame, Subscribers, Facts
  <2>2. /\ frames' = Append(frames, f) /\ c \in stale /\ c \notin Running
        /\ OwnerOf[c] \notin released /\ UNCHANGED <<released, stale, status>>
    BY <1>7 DEF Evaluate, MayGet
  <2> QED
    BY <1>0, <2>1, <2>2, FramesPushed
<1>8. CASE ReturnComputed
  <2>1. /\ Len(frames) \in Nat \ {0} /\ DOMAIN frames = 1..Len(frames)
        /\ Top = frames[Len(frames)] /\ Top.who \in Computeds
        /\ frames' = SubSeq(frames, 1, Len(frames) - 1) /\ stale' = stale \ {Top.who}
        /\ UNCHANGED <<status, released>>
    BY <1>0, <1>8, TopFrame DEF ReturnComputed
  <2> DEFINE k == Len(frames) - 1
  <2>2. k \in 0..Len(frames) /\ frames' = SubSeq(frames, 1, k)
    BY <2>1
  <2>3. \A i \in 1..k : frames[i].who \in stale => frames[i].who \in stale'
    BY <1>0, <2>1 DEF FramesInv, ReadersInnermost
  <2>4. released' = released /\ \A e \in Effects : status[e] # "new" => status'[e] # "new"
    BY <2>1
  <2> HIDE DEF k
  <2> QED
    BY <1>0, <2>2, <2>3, <2>4, FramesCut
<1>9. ASSUME NEW k \in 0..Len(frames), Unwind(k) PROVE FramesInv'
  BY <1>0, <1>9, FramesCut DEF Unwind, Unregister, Forget
<1>10. ASSUME NEW e \in Effects, NEW w \in Worlds \cup {None}, Spawn(e, w) PROVE FramesInv'
  <2> DEFINE f == [who |-> e, world |-> w]
  <2>1. f \in Frame /\ e \notin Computeds
    BY ConstantFacts DEF Frame, Subscribers, Facts
  <2>2. frames' = Append(frames, f) /\ UNCHANGED <<released, stale>> /\ status' = [status EXCEPT ![e] = "first"]
    BY <1>10 DEF Spawn
  <2>3. w \notin released
    <3>1. CASE Idle
      BY <1>0, <1>10, <3>1, ConstantFacts DEF Spawn, Contexts, TypeOK, Facts
    <3>2. CASE ~Idle
      <4>1. w = Top.world /\ frames # << >>
        BY <1>10, <3>2 DEF Spawn, Contexts, MayAct
      <4> QED
        BY <1>0, <4>1, TopFrame DEF FramesInv, FramesSound
    <3> QED
      BY <3>1, <3>2
  <2>4. Running \cap Computeds = {}
    BY <1>10, NoReaderRuns DEF Spawn
  <2>5. \A d \in Effects : status[d] # "new" => status'[d] # "new"
    BY <1>0, <2>2 DEF TypeOK
  <2>6. status'[e] # "new"
    BY <1>0, <2>2 DEF TypeOK
  <2> QED
    BY <1>0, <2>1, <2>2, <2>3, <2>4, <2>5, <2>6, FramesPushed
<1>11. ASSUME NEW e \in Effects, Dispose(e) PROVE FramesInv'
  BY <1>0, <1>11, FramesStay DEF Dispose, Unregister, Forget
<1>12. ASSUME NEW e \in Effects, ReturnEffect(e) PROVE FramesInv'
  <2>1. /\ Len(frames) \in Nat \ {0} /\ frames' = SubSeq(frames, 1, Len(frames) - 1)
        /\ UNCHANGED <<stale, released>>
    BY <1>0, <1>12, TopFrame DEF ReturnEffect
  <2>2. \A d \in Effects : status[d] # "new" => status'[d] # "new"
    BY <1>0, <1>12 DEF ReturnEffect, TypeOK
  <2> QED
    BY <1>0, <2>1, <2>2, FramesCut
<1>13. ASSUME NEW w \in Worlds, FlushBegin(w) PROVE FramesInv'
  BY <1>0, <1>13, FramesStay DEF FlushBegin, Forget
<1>14. ASSUME NEW w \in Worlds, ReleaseWorld(w) PROVE FramesInv'
  <2>1. frames' = << >>
    BY <1>14 DEF ReleaseWorld, Idle
  <2> QED
    BY <2>1 DEF FramesInv, ReadersInnermost, FramesSound
<1>15. ASSUME NEW e \in Effects, FlushStep(e) PROVE FramesInv'
  <2>1. CASE PopForeign(e) \/ PopDisabled(e)
    BY <1>0, <2>1, FramesStay DEF PopForeign, PopDisabled
  <2>2. CASE PopRun(e)
    <3> DEFINE f == [who |-> e, world |-> home[e]]
    <3>1. e \in Queued /\ Live(e) /\ home[e] \notin released
      BY <2>2 DEF PopRun, Pop, Queued, IInv, NothingLeftBehind
    <3>2. f \in Frame /\ e \notin Computeds
      BY <1>0, ConstantFacts DEF Frame, Subscribers, Facts, TypeOK
    <3>3. frames' = << f >> /\ UNCHANGED <<status, released>>
      BY <2>2 DEF PopRun
    <3> QED
      BY <3>1, <3>2, <3>3 DEF FramesInv, ReadersInnermost, FramesSound, Live
  <2> QED
    BY <1>15, <2>1, <2>2 DEF FlushStep
<1>16. ASSUME NEW marked \in BOOLEAN, EndPass(marked) PROVE FramesInv'
  BY <1>0, <1>16, FramesStay DEF EndPass
<1>17. ASSUME NEW g \in Gates, Conceal(g) PROVE FramesInv'
  BY <1>0, <1>17, FramesStay DEF Conceal
<1>18. ASSUME NEW g \in Gates, Reveal(g) PROVE FramesInv'
  BY <1>0, <1>18, FramesStay DEF Reveal
<1>19. ASSUME NEW n \in Entities, Despawn(n) PROVE FramesInv'
  BY <1>0, <1>19, FramesStay DEF Despawn
<1> QED
  BY <1>1, <1>2, <1>3, <1>4, <1>5, <1>6, <1>7, <1>8, <1>9, <1>10, <1>11, <1>12,
     <1>13, <1>14, <1>15, <1>16, <1>17, <1>18, <1>19 DEF Next, FlushLoop
-----------------------------------------------------------------------------
(***************************************************************************)
(* First runs.                                                             *)
(***************************************************************************)
LEMMA UnfinishedStay ==
  ASSUME UnfinishedForgotten, UNCHANGED frames,
         \A e \in Effects : status'[e] = "first" => status[e] = "first"
  PROVE  UnfinishedForgotten'
BY DEF UnfinishedForgotten, Running

LEMMA UnfinishedStep ==
  ASSUME IInv, Next
  PROVE  UnfinishedForgotten'
<1>0. UnfinishedForgotten /\ TypeOK
  BY DEF IInv
<1>1. CASE \/ \E s \in Signals : SetSignal(s) \/ ReadSignal(s)
           \/ \E m \in Models : NotifyModel(m) \/ Retire(m) \/ ReadModel(m)
           \/ \E c \in Computeds : GetCached(c)
  BY <1>0, <1>1, UnfinishedStay
  DEF SetSignal, ReadSignal, NotifyModel, Retire, ReadModel, GetCached, Publish, Read
<1>2. ASSUME NEW c \in Computeds, Evaluate(c) PROVE UnfinishedForgotten'
  <2> DEFINE f == [who |-> c, world |-> OwnerOf[c]]
  <2>1. f \in Frame /\ frames' = Append(frames, f) /\ UNCHANGED status
    BY <1>2, OwnerAssumption DEF Frame, Subscribers, Evaluate
  <2> QED
    BY <1>0, <2>1, RunningPushed DEF UnfinishedForgotten
<1>3. CASE ReturnComputed
  <2>1. /\ frames # << >> /\ frames' = SubSeq(frames, 1, Len(frames) - 1)
        /\ Top.who \in Computeds /\ UNCHANGED status
    BY <1>3 DEF ReturnComputed
  <2>2. Top.who \notin Effects
    BY <2>1, ConstantFacts DEF Facts
  <2> QED
    BY <1>0, <2>1, <2>2, RunningPopped DEF UnfinishedForgotten
<1>4. ASSUME NEW k \in 0..Len(frames), Unwind(k) PROVE UnfinishedForgotten'
  <2> DEFINE left == {frames[i].who : i \in (k + 1)..Len(frames)}
             unfinished == {e \in left \cap Effects : status[e] = "first"}
  <2>1. Forget(unfinished) /\ Running = Running' \cup left
    BY <1>0, <1>4, RunningCut DEF Unwind, Unregister
  <2>2. ASSUME NEW e \in Effects, status'[e] = "first" PROVE status[e] = "first" /\ e \notin left
    BY <2>1, <2>2 DEF Forget
  <2> QED
    BY <1>0, <2>1, <2>2 DEF UnfinishedForgotten
<1>5. ASSUME NEW e \in Effects, NEW w \in Worlds \cup {None}, Spawn(e, w)
      PROVE  UnfinishedForgotten'
  <2> DEFINE f == [who |-> e, world |-> w]
  <2>1. f \in Frame /\ frames' = Append(frames, f) /\ status' = [status EXCEPT ![e] = "first"]
    BY <1>5 DEF Frame, Subscribers, Spawn
  <2> QED
    BY <1>0, <2>1, RunningPushed DEF UnfinishedForgotten, TypeOK
<1>6. ASSUME NEW e \in Effects, ReturnEffect(e) PROVE UnfinishedForgotten'
  <2>1. /\ frames # << >> /\ frames' = SubSeq(frames, 1, Len(frames) - 1) /\ Top.who = e
        /\ status' = IF status[e] = "first" THEN [status EXCEPT ![e] = "live"] ELSE status
    BY <1>6 DEF ReturnEffect
  <2>2. Running = Running' \cup {e}
    BY <1>0, <2>1, RunningPopped
  <2>3. ASSUME NEW d \in Effects, status'[d] = "first" PROVE status[d] = "first" /\ d # e
    BY <1>0, <2>1, <2>3 DEF TypeOK
  <2> QED
    BY <1>0, <2>2, <2>3 DEF UnfinishedForgotten
<1>7. CASE \E e \in Effects : Dispose(e)
  BY <1>0, <1>7, UnfinishedStay DEF Dispose, Unregister, Forget
<1>8. CASE \E w \in Worlds : FlushBegin(w) \/ ReleaseWorld(w)
  BY <1>0, <1>8, UnfinishedStay DEF FlushBegin, ReleaseWorld, Forget
<1>9. ASSUME NEW e \in Effects, FlushStep(e) PROVE UnfinishedForgotten'
  <2>1. frames = << >> /\ UNCHANGED status
    BY <1>9 DEF FlushStep, PopForeign, PopDisabled, PopRun, Pop
  <2> QED
    BY <1>0, <2>1 DEF UnfinishedForgotten, Running
<1>10. CASE \/ \E marked \in BOOLEAN : EndPass(marked)
            \/ \E g \in Gates : Conceal(g) \/ Reveal(g)
            \/ \E n \in Entities : Despawn(n)
  BY <1>0, <1>10, UnfinishedStay DEF EndPass, Conceal, Reveal, Despawn
<1> QED
  BY <1>1, <1>2, <1>3, <1>4, <1>5, <1>6, <1>7, <1>8, <1>9, <1>10 DEF Next, FlushLoop

-----------------------------------------------------------------------------
(***************************************************************************)
(* What a flush knows of its pass.                                         *)
(***************************************************************************)
LEMMA RunSeenStay ==
  ASSUME RunSeen, UNCHANGED <<flushing, ran>>,
         flushing # None => frames # << >>
  PROVE  RunSeen'
BY DEF RunSeen

LEMMA RunSeenStep ==
  ASSUME IInv, Next
  PROVE  RunSeen'
<1>0. RunSeen /\ TypeOK
  BY DEF IInv
<1>1. CASE \/ \E s \in Signals : SetSignal(s) \/ ReadSignal(s)
           \/ \E m \in Models : NotifyModel(m) \/ Retire(m) \/ ReadModel(m)
           \/ \E c \in Computeds : GetCached(c) \/ Evaluate(c)
           \/ ReturnComputed
           \/ \E e \in Effects, w \in Worlds \cup {None} : Spawn(e, w)
           \/ \E e \in Effects : Dispose(e) \/ ReturnEffect(e)
           \/ \E g \in Gates : Conceal(g) \/ Reveal(g)
           \/ \E n \in Entities : Despawn(n)
  <2>1. UNCHANGED <<flushing, ran>>
    BY <1>1 DEF SetSignal, ReadSignal, NotifyModel, Retire, ReadModel, GetCached, Publish, Read,
       Evaluate, ReturnComputed, Spawn, Dispose, Unregister, ReturnEffect, Conceal, Reveal, Despawn, flush
  <2>2. frames # << >> \/ flushing = None
    BY <1>1 DEF SetSignal, ReadSignal, NotifyModel, Retire, ReadModel, GetCached, Read,
       Evaluate, ReturnComputed, Spawn, Dispose, ReturnEffect, Conceal, Reveal, Despawn,
       MayAct, MayTouch, Idle, Tracks, MayGet
  <2> QED
    BY <1>0, <2>1, <2>2, RunSeenStay
<1>2. ASSUME NEW k \in 0..Len(frames), Unwind(k) PROVE RunSeen'
  <2>1. k < Len(frames)
    BY <1>2 DEF Unwind
  <2>2. frames # << >>
    BY <1>0, <2>1 DEF TypeOK
  <2> QED
    BY <1>0, <1>2, <2>2, RunSeenStay DEF Unwind, Unregister, flush, RunSeen
<1>3. ASSUME NEW w \in Worlds, FlushBegin(w) PROVE RunSeen'
  BY <1>3 DEF FlushBegin, Idle, RunSeen, flush
<1>4. ASSUME NEW w \in Worlds, ReleaseWorld(w) PROVE RunSeen'
  BY <1>4 DEF ReleaseWorld, Idle, RunSeen, flush
<1>5. ASSUME NEW e \in Effects, FlushStep(e) PROVE RunSeen'
  <2>1. CASE PopForeign(e)
    BY <1>0, <2>1 DEF PopForeign, Pop, RunSeen, Foreign, flush
  <2>2. CASE PopDisabled(e)
    BY <1>0, <2>2 DEF PopDisabled, Pop, RunSeen, Foreign, flush
  <2>3. CASE PopRun(e)
    BY <2>3 DEF PopRun, RunSeen
  <2> QED
    BY <1>5, <2>1, <2>2, <2>3 DEF FlushStep
<1>6. ASSUME NEW marked \in BOOLEAN, EndPass(marked) PROVE RunSeen'
  BY <1>6 DEF EndPass, PassOver, RunSeen
<1> QED
  BY <1>1, <1>2, <1>3, <1>4, <1>5, <1>6 DEF Next, FlushLoop
-----------------------------------------------------------------------------
(***************************************************************************)
(* Who belongs where.                                                      *)
(***************************************************************************)
Owner(y) == IF y \in Signals THEN None ELSE OwnerOf[y]

\* The invariants about owners, one for each part of the state.
RunsAtHome ==
  \A i \in DOMAIN frames : flushing # None /\ frames[i].who \in Effects =>
    frames[i].world \in {None, flushing}

EffectsAtHome ==
  \A e \in Effects : Live(e) =>
    /\ home[e] \notin released
    /\ EntityOf[e] # None => home[e] = OwnerOf[EntityOf[e]]

EdgesAtHome ==
  \A y, x : <<y, x>> \in deps =>
    /\ Owner(y) \notin released
    /\ x \in Effects => Live(x) /\ Owner(y) \in {None, home[x]}
    /\ x \in Computeds => OwnerOf[x] \notin released /\ Owner(y) \in {None, OwnerOf[x]}

QueuedLive == \A e \in Queued : Live(e)

PlaceInv == RunsAtHome /\ EffectsAtHome /\ EdgesAtHome /\ QueuedLive

LEMMA EdgeTypes ==
  ASSUME TypeOK, NEW y, NEW x, <<y, x>> \in deps
  PROVE  y \in Sources \cup Computeds /\ x \in Subscribers
BY DEF TypeOK

LEMMA PlaceParts ==
  ASSUME TypeOK
  PROVE  PlaceInv <=> HomesKept /\ EffectsStayHome /\ NothingLeftBehind
<1>1. \A d \in deps : d = <<d[1], d[2]>> /\ d[1] \in Sources \cup Computeds /\ d[2] \in Subscribers
  BY DEF TypeOK
<1>2. None \notin released
  BY ConstantFacts DEF TypeOK, Facts
<1>3. ASSUME PlaceInv PROVE HomesKept /\ EffectsStayHome /\ NothingLeftBehind
  <2>1. HomesKept
    BY <1>1, <1>3 DEF PlaceInv, EffectsAtHome, EdgesAtHome, HomesKept, Owner
  <2>2. EffectsStayHome
    BY <1>1, <1>3 DEF PlaceInv, RunsAtHome, EdgesAtHome, EffectsStayHome, Owner
  <2>3. NothingLeftBehind
    <3>1. ASSUME NEW d \in deps, NEW x \in {d[1], d[2]} \ (Effects \cup Signals)
          PROVE  OwnerOf[x] \notin released
      BY <1>1, <1>3 DEF PlaceInv, EdgesAtHome, Owner, Subscribers
    <3>2. ASSUME NEW d \in deps, d[2] \in Effects PROVE Live(d[2])
      BY <1>1, <1>3, <3>2 DEF PlaceInv, EdgesAtHome
    <3> QED
      BY <1>3, <3>1, <3>2 DEF PlaceInv, EffectsAtHome, QueuedLive, NothingLeftBehind
  <2> QED
    BY <2>1, <2>2, <2>3
<1>4. ASSUME HomesKept, EffectsStayHome, NothingLeftBehind PROVE PlaceInv
  <2>1. RunsAtHome /\ EffectsAtHome /\ QueuedLive
    BY <1>4 DEF HomesKept, EffectsStayHome, NothingLeftBehind, RunsAtHome, EffectsAtHome, QueuedLive
  <2>2. ASSUME NEW y, NEW x, <<y, x>> \in deps
        PROVE  /\ Owner(y) \notin released
               /\ x \in Effects => Live(x) /\ Owner(y) \in {None, home[x]}
               /\ x \in Computeds => OwnerOf[x] \notin released /\ Owner(y) \in {None, OwnerOf[x]}
    <3> DEFINE d == <<y, x>>
    <3>1. d \in deps /\ d[1] = y /\ d[2] = x /\ y \in Sources \cup Computeds /\ x \in Subscribers
      BY <2>2, EdgeTypes
    <3>2. y \notin Effects /\ (x \in Computeds => x \notin Effects \cup Signals)
      BY <3>1, ConstantFacts DEF Facts, Sources, Subscribers
    <3>3. y \notin Signals => OwnerOf[y] \notin released
      BY <1>4, <3>1, <3>2 DEF NothingLeftBehind
    <3>4. x \in Computeds => OwnerOf[x] \notin released
      BY <1>4, <3>1, <3>2 DEF NothingLeftBehind
    <3>5. x \in Effects => Live(x) /\ Owner(y) \in {None, home[x]}
      BY <1>4, <3>1 DEF NothingLeftBehind, EffectsStayHome, Owner
    <3>6. x \in Computeds => Owner(y) \in {None, OwnerOf[x]}
      BY <1>4, <3>1 DEF HomesKept, Owner
    <3> QED
      BY <1>2, <3>3, <3>4, <3>5, <3>6 DEF Owner
  <2> QED
    BY <2>1, <2>2 DEF PlaceInv, EdgesAtHome
<1> QED
  BY <1>3, <1>4

LEMMA PlacePartsPrimed ==
  ASSUME TypeOK'
  PROVE  PlaceInv' <=> HomesKept' /\ EffectsStayHome' /\ NothingLeftBehind'
BY PlaceParts, PTL

\* A subscription of x to y, which binds x when it is an effect without a World.
LEMMA Subscribed ==
  ASSUME TypeOK, PlaceInv, NEW y \in Sources \cup Computeds, NEW x \in Subscribers,
         deps' \subseteq deps \cup {<<y, x>>},
         MayRead(x, Owner(y)), Bind(x, Owner(y)), Owner(y) \notin released,
         x \in Effects => Live(x),
         x \in Computeds => OwnerOf[x] \notin released,
         UNCHANGED <<status, released>>
  PROVE  EffectsAtHome' /\ EdgesAtHome'
<1>1. \A e \in Effects : Live(e)' <=> Live(e)
  BY DEF Live
<1>2. Owner(y) \in Worlds \cup {None}
  BY OwnerAssumption DEF Owner, Sources
<1>3. /\ x \in Effects /\ Owner(y) # None => home[x] \in {None, Owner(y)} /\ home'[x] = Owner(y)
      /\ x \in Effects /\ Owner(y) = None => home' = home
      /\ x \notin Effects => home' = home /\ Owner(y) \in {None, OwnerOf[x]}
      /\ \A e \in Effects : e # x => home'[e] = home[e]
  BY ConstantFacts DEF MayRead, Bind, TypeOK, Facts
<1>4. ASSUME NEW e \in Effects, EntityOf[e] # None, Live(e) PROVE home[e] # None
  <2>1. EntityOf[e] \in Entities /\ home[e] = OwnerOf[EntityOf[e]]
    BY <1>4, BindingAssumption DEF PlaceInv, EffectsAtHome
  <2> QED
    BY <2>1, WidgetsHaveWorlds, ConstantFacts DEF Facts
<1>5. EffectsAtHome'
  BY <1>1, <1>3, <1>4 DEF PlaceInv, EffectsAtHome
<1>6. ASSUME NEW v, NEW u, <<v, u>> \in deps'
      PROVE  /\ Owner(v) \notin released
             /\ u \in Effects => Live(u) /\ Owner(v) \in {None, home'[u]}
             /\ u \in Computeds => OwnerOf[u] \notin released /\ Owner(v) \in {None, OwnerOf[u]}
  <2>1. CASE <<v, u>> \in deps
    BY <1>3, <2>1 DEF PlaceInv, EdgesAtHome
  <2>2. CASE v = y /\ u = x
    BY <1>3, <2>2, ConstantFacts DEF Facts
  <2> QED
    BY <1>6, <2>1, <2>2
<1> QED
  BY <1>1, <1>5, <1>6 DEF EdgesAtHome
\* Subscriptions and effects that go take nothing with them.
LEMMA Dropped ==
  ASSUME EffectsAtHome, EdgesAtHome, deps' \subseteq deps, UNCHANGED <<home, released>>,
         \A e \in Effects : Live(e)' => Live(e),
         \A y, x : <<y, x>> \in deps' /\ x \in Effects /\ Live(x) => Live(x)'
  PROVE  EffectsAtHome' /\ EdgesAtHome'
<1>1. EffectsAtHome'
  BY DEF EffectsAtHome
<1>2. EdgesAtHome'
  BY DEF EdgesAtHome
<1> QED
  BY <1>1, <1>2

LEMMA ForgetDrops ==
  ASSUME PlaceInv, NEW E \in SUBSET Effects, Forget(E), UNCHANGED <<home, released>>
  PROVE  /\ EffectsAtHome' /\ EdgesAtHome'
         /\ \A e \in Effects : Live(e)' <=> Live(e) /\ e \notin E
<1>1. \A e \in Effects : Live(e)' <=> Live(e) /\ e \notin E
  BY DEF Forget, Live
<1>2. /\ deps' \subseteq deps
      /\ \A y, x : <<y, x>> \in deps' => x \notin E
  BY DEF Forget
<1> QED
  BY <1>1, <1>2, Dropped DEF PlaceInv

LEMMA RunsStay ==
  ASSUME RunsAtHome, UNCHANGED frames, flushing' \in {flushing, None}
  PROVE  RunsAtHome'
BY DEF RunsAtHome

LEMMA RunsCut ==
  ASSUME TypeOK, RunsAtHome, NEW k \in 0..Len(frames), frames' = SubSeq(frames, 1, k),
         flushing' \in {flushing, None}
  PROVE  RunsAtHome'
BY CutFrames DEF TypeOK, RunsAtHome

LEMMA RunsStep ==
  ASSUME IInv, Next
  PROVE  RunsAtHome'
<1>0. RunsAtHome /\ TypeOK
  BY DEF IInv, EffectsStayHome, RunsAtHome
<1>1. CASE \/ \E s \in Signals : SetSignal(s) \/ ReadSignal(s)
           \/ \E m \in Models : NotifyModel(m) \/ Retire(m) \/ ReadModel(m)
           \/ \E c \in Computeds : GetCached(c)
           \/ \E e \in Effects : Dispose(e)
           \/ \E w \in Worlds : ReleaseWorld(w)
           \/ \E e \in Effects : PopForeign(e) \/ PopDisabled(e)
           \/ \E marked \in BOOLEAN : EndPass(marked)
           \/ \E g \in Gates : Conceal(g) \/ Reveal(g)
           \/ \E n \in Entities : Despawn(n)
  <2>1. UNCHANGED frames /\ flushing' \in {flushing, None}
    BY <1>1 DEF SetSignal, ReadSignal, NotifyModel, Retire, ReadModel, GetCached, Publish, Read,
       Dispose, ReleaseWorld, PopForeign, PopDisabled, EndPass, Conceal, Reveal, Despawn, flush
  <2> QED
    BY <1>0, <2>1, RunsStay
<1>2. ASSUME NEW c \in Computeds, Evaluate(c) PROVE RunsAtHome'
  <2> DEFINE f == [who |-> c, world |-> OwnerOf[c]]
  <2>1. f \in Frame /\ c \notin Effects
    BY OwnerAssumption, ConstantFacts DEF Frame, Subscribers, Facts
  <2>2. frames' = Append(frames, f) /\ UNCHANGED flushing
    BY <1>2 DEF Evaluate, flush
  <2> QED
    BY <1>0, <2>1, <2>2, PushFrame DEF RunsAtHome, TypeOK
<1>3. CASE ReturnComputed \/ \E e \in Effects : ReturnEffect(e)
  <2> DEFINE k == Len(frames) - 1
  <2>1. frames # << >> /\ frames' = SubSeq(frames, 1, k) /\ UNCHANGED flushing
    BY <1>3 DEF ReturnComputed, ReturnEffect, flush
  <2>2. k \in 0..Len(frames)
    BY <1>0, <2>1, TopFrame
  <2> HIDE DEF k
  <2> QED
    BY <1>0, <2>1, <2>2, RunsCut
<1>4. ASSUME NEW k \in 0..Len(frames), Unwind(k) PROVE RunsAtHome'
  <2>1. frames' = SubSeq(frames, 1, k) /\ flushing' \in {flushing, None}
    BY <1>4 DEF Unwind, flush
  <2> QED
    BY <1>0, <2>1, RunsCut
<1>5. ASSUME NEW e \in Effects, NEW w \in Worlds \cup {None}, Spawn(e, w) PROVE RunsAtHome'
  <2> DEFINE f == [who |-> e, world |-> w]
  <2>1. f \in Frame
    BY DEF Frame, Subscribers
  <2>2. frames' = Append(frames, f) /\ UNCHANGED flushing
    BY <1>5 DEF Spawn, flush
  <2>3. flushing # None => w \in {None, flushing}
    <3>1. CASE Idle
      BY <3>1 DEF Idle
    <3>2. CASE ~Idle
      <4>1. w = Top.world /\ frames # << >> /\ Top.who \in Effects
        BY <1>5, <3>2 DEF Spawn, Contexts, MayAct
      <4> QED
        BY <1>0, <4>1, TopFrame DEF RunsAtHome
    <3> QED
      BY <3>1, <3>2
  <2> QED
    BY <1>0, <2>1, <2>2, <2>3, PushFrame DEF RunsAtHome, TypeOK
<1>6. ASSUME NEW w \in Worlds, FlushBegin(w) PROVE RunsAtHome'
  BY <1>6 DEF FlushBegin, Idle, RunsAtHome
<1>7. ASSUME NEW e \in Effects, PopRun(e) PROVE RunsAtHome'
  BY <1>7 DEF PopRun, Foreign, RunsAtHome
<1> QED
  BY <1>1, <1>2, <1>3, <1>4, <1>5, <1>6, <1>7 DEF Next, FlushLoop, FlushStep

LEMMA PlaceStep ==
  ASSUME IInv, Next
  PROVE  EffectsAtHome' /\ EdgesAtHome' /\ QueuedLive'
<1> DEFINE P == EffectsAtHome /\ EdgesAtHome /\ QueuedLive
<1>0. PlaceInv /\ TypeOK /\ FramesSound
  BY PlaceParts DEF IInv
<1>1. ASSUME NEW p \in Sources, Publish(p) PROVE P'
  <2>1. UNCHANGED <<status, home, deps, batch, released>> /\ later' = later \cup (Woken(p) \ batch)
    BY <1>1 DEF Publish
  <2>2. \A e \in Woken(p) : Live(e)
    BY <1>0 DEF Woken, PlaceInv, EdgesAtHome
  <2> QED
    BY <1>0, <2>1, <2>2, Dropped DEF PlaceInv, QueuedLive, Queued, Live
<1>2. ASSUME NEW m \in Models, Retire(m) PROVE P'
  BY <1>0, <1>2, Dropped DEF Retire, queues, PlaceInv, QueuedLive, Queued, Live
<1>3. ASSUME NEW p \in Sources, Owner(p) \notin released, Read(p, Owner(p)) PROVE P'
  <2>1. /\ Tracks /\ MayRead(Top.who, Owner(p)) /\ Bind(Top.who, Owner(p))
        /\ deps' \subseteq deps \cup {<<p, Top.who>>}
        /\ UNCHANGED <<status, released, batch, later>>
    BY <1>3 DEF Read, queues
  <2>2. /\ Top.who \in Subscribers /\ (Top.who \in Effects => Live(Top.who))
        /\ Top.who \in Computeds => OwnerOf[Top.who] \notin released
    BY <1>0, <2>1, TopFrame DEF Tracks, FramesSound
  <2>3. EffectsAtHome' /\ EdgesAtHome'
    BY <1>0, <1>3, <2>1, <2>2, Subscribed
  <2> QED
    BY <1>0, <2>1, <2>3 DEF PlaceInv, QueuedLive, Queued, Live
<1>4. ASSUME NEW c \in Computeds, GetCached(c) \/ Evaluate(c) PROVE P'
  <2>1. /\ Owner(c) = OwnerOf[c] /\ OwnerOf[c] \notin released
        /\ UNCHANGED <<status, released, batch, later>>
    BY <1>4, ConstantFacts DEF GetCached, Evaluate, MayGet, Owner, Facts, Sources, Subscribers, queues
  <2>2. CASE Tracks
    <3>1. /\ MayRead(Top.who, Owner(c)) /\ Bind(Top.who, Owner(c))
          /\ deps' \subseteq deps \cup {<<c, Top.who>>}
      BY <1>4, <2>1, <2>2 DEF GetCached, Evaluate, MayGet, Subscription, Tracks
    <3>2. /\ Top.who \in Subscribers /\ (Top.who \in Effects => Live(Top.who))
          /\ Top.who \in Computeds => OwnerOf[Top.who] \notin released
      BY <1>0, <2>2, TopFrame DEF Tracks, FramesSound
    <3>3. EffectsAtHome' /\ EdgesAtHome'
      BY <1>0, <2>1, <3>1, <3>2, Subscribed
    <3> QED
      BY <1>0, <2>1, <3>3 DEF PlaceInv, QueuedLive, Queued, Live
  <2>3. CASE ~Tracks
    <3>1. deps' \subseteq deps /\ home' = home
      BY <1>4, <2>3 DEF GetCached, Evaluate, Subscription
    <3> QED
      BY <1>0, <2>1, <3>1, Dropped DEF PlaceInv, QueuedLive, Queued, Live
  <2> QED
    BY <2>2, <2>3
<1>5. CASE \/ ReturnComputed
           \/ \E marked \in BOOLEAN : EndPass(marked)
           \/ \E g \in Gates : Conceal(g)
           \/ \E n \in Entities : Despawn(n)
           \/ \E e \in Effects : PopForeign(e) \/ PopDisabled(e)
  <2>1. UNCHANGED <<status, home, deps, released>>
    BY <1>5 DEF ReturnComputed, EndPass, Conceal, Despawn, PopForeign, PopDisabled
  <2>2. Queued' \subseteq Queued
    BY <1>5 DEF ReturnComputed, EndPass, Conceal, Despawn, PopForeign, PopDisabled, Pop, Queued, queues
  <2> QED
    BY <1>0, <2>1, <2>2, Dropped DEF PlaceInv, QueuedLive, Live
<1>6. ASSUME NEW E \in SUBSET Effects, Forget(E), UNCHANGED <<home, released>>,
             Queued' \subseteq Queued \ E
      PROVE  P'
  <2>1. /\ EffectsAtHome' /\ EdgesAtHome'
        /\ \A e \in Effects : Live(e)' <=> Live(e) /\ e \notin E
    BY <1>0, <1>6, ForgetDrops
  <2>2. Queued \subseteq Effects
    BY <1>0 DEF TypeOK, Queued
  <2> QED
    BY <1>0, <1>6, <2>1, <2>2 DEF PlaceInv, QueuedLive
<1>7. ASSUME NEW k \in 0..Len(frames), Unwind(k) PROVE P'
  <2> DEFINE left == {frames[i].who : i \in (k + 1)..Len(frames)}
             unfinished == {e \in left \cap Effects : status[e] = "first"}
  <2>1. Forget(unfinished) /\ UNCHANGED <<home, released>> /\ unfinished \in SUBSET Effects
    BY <1>7 DEF Unwind, Unregister
  <2>2. Queued' \subseteq Queued \ unfinished
    <3>1. CASE k > 0 \/ flushing = None
      BY <1>7, <3>1 DEF Unwind, Unregister, Queued
    <3>2. CASE ~(k > 0 \/ flushing = None)
      BY <1>7, <3>2 DEF Unwind, Queued
    <3> QED
      BY <3>1, <3>2
  <2> HIDE DEF unfinished
  <2> QED
    BY <1>6, <2>1, <2>2
<1>8. ASSUME NEW e \in Effects, NEW w \in Worlds \cup {None}, Spawn(e, w) PROVE P'
  <2>1. /\ status[e] = "new" /\ UNCHANGED <<deps, batch, later, released>>
        /\ status' = [status EXCEPT ![e] = "first"] /\ home' = [home EXCEPT ![e] = w]
        /\ EntityOf[e] # None => w = OwnerOf[EntityOf[e]]
    BY <1>8 DEF Spawn, queues
  <2>2. w \notin released
    <3>1. CASE Idle
      BY <1>0, <1>8, <3>1, ConstantFacts DEF Spawn, Contexts, TypeOK, Facts
    <3>2. CASE ~Idle
      <4>1. w = Top.world /\ frames # << >>
        BY <1>8, <3>2 DEF Spawn, Contexts, MayAct
      <4> QED
        BY <1>0, <4>1, TopFrame DEF FramesSound
    <3> QED
      BY <3>1, <3>2
  <2>3. /\ ~Live(e) /\ \A d \in Effects : d # e => (Live(d)' <=> Live(d)) /\ home'[d] = home[d]
        /\ home'[e] = w
    BY <1>0, <2>1 DEF Live, TypeOK
  <2>4. EffectsAtHome'
    BY <1>0, <2>1, <2>2, <2>3 DEF PlaceInv, EffectsAtHome
  <2>5. \A y, x : <<y, x>> \in deps /\ x \in Effects => x # e
    BY <1>0, <2>3 DEF PlaceInv, EdgesAtHome
  <2>6. EdgesAtHome'
    BY <1>0, <2>1, <2>3, <2>5 DEF PlaceInv, EdgesAtHome
  <2>7. QueuedLive'
    BY <1>0, <2>1, <2>3 DEF PlaceInv, QueuedLive, Queued, TypeOK
  <2> QED
    BY <2>4, <2>6, <2>7
<1>9. ASSUME NEW e \in Effects, Dispose(e) PROVE P'
  BY <1>6, <1>9 DEF Dispose, Unregister, Queued
<1>10. ASSUME NEW e \in Effects, ReturnEffect(e) PROVE P'
  <2>1. UNCHANGED <<home, deps, batch, later, released>>
    BY <1>10 DEF ReturnEffect, queues
  <2>2. \A d \in Effects : Live(d)' <=> Live(d)
    BY <1>0, <1>10 DEF ReturnEffect, Live, TypeOK
  <2>3. Queued \subseteq Effects /\ Queued' = Queued
    BY <1>0, <2>1 DEF Queued, TypeOK
  <2> QED
    BY <1>0, <2>1, <2>2, <2>3, Dropped DEF PlaceInv, QueuedLive
<1>11. ASSUME NEW w \in Worlds, FlushBegin(w) PROVE P'
  <2>1. /\ Doomed(w) \in SUBSET Effects /\ Forget(Doomed(w)) /\ UNCHANGED <<home, released>>
        /\ Queued' \subseteq Queued \ Doomed(w)
    BY <1>11 DEF FlushBegin, Queued, Doomed
  <2> QED
    BY <1>6, <2>1
<1>12. ASSUME NEW w \in Worlds, ReleaseWorld(w) PROVE P'
  <2> DEFINE own == {e \in Effects : Live(e) /\ home[e] = w}
             Owned(x) == x \in Models \cup Computeds /\ OwnerOf[x] = w
  <2>1. /\ released' = released \cup {w} /\ home' = home
        /\ status' = [e \in Effects |-> IF e \in own THEN "gone" ELSE status[e]]
        /\ deps' = {d \in deps : ~Owned(d[1]) /\ ~Owned(d[2]) /\ d[2] \notin own}
        /\ later' = later \ own /\ batch' = batch
    BY <1>12 DEF ReleaseWorld
  <2>2. \A e \in Effects : Live(e)' <=> Live(e) /\ home[e] # w
    BY <2>1 DEF Live
  <2>3. EffectsAtHome'
    BY <1>0, <2>1, <2>2 DEF PlaceInv, EffectsAtHome
  <2>4. ASSUME NEW y, NEW x, <<y, x>> \in deps'
        PROVE  /\ <<y, x>> \in deps /\ Owner(y) # w
               /\ x \in Computeds => OwnerOf[x] # w
               /\ x \in Effects => home[x] # w
    <3>1. <<y, x>> \in deps /\ ~Owned(y) /\ ~Owned(x) /\ x \notin own
      BY <2>1, <2>4
    <3>2. y \in Sources \cup Computeds /\ w # None
      BY <1>0, <3>1, EdgeTypes, ConstantFacts DEF Facts
    <3>3. x \in Effects => Live(x)
      BY <1>0, <3>1 DEF PlaceInv, EdgesAtHome
    <3> QED
      BY <3>1, <3>2, <3>3 DEF Owner, Sources
  <2>5. EdgesAtHome'
    BY <1>0, <2>1, <2>2, <2>4 DEF PlaceInv, EdgesAtHome
  <2>6. QueuedLive'
    <3>1. batch = {} /\ later \subseteq Effects
      BY <1>0, <1>12 DEF ReleaseWorld, Idle, TypeOK
    <3> QED
      BY <1>0, <2>1, <2>2, <3>1 DEF PlaceInv, QueuedLive, Queued
  <2> QED
    BY <2>3, <2>5, <2>6
<1>13. ASSUME NEW e \in Effects, PopRun(e) PROVE P'
  <2>1. /\ UNCHANGED <<status, home, released>> /\ deps' \subseteq deps
        /\ Queued' \subseteq Queued
    BY <1>13 DEF PopRun, Pop, Queued
  <2> QED
    BY <1>0, <2>1, Dropped DEF PlaceInv, QueuedLive, Live
<1>14. ASSUME NEW g \in Gates, Reveal(g) PROVE P'
  <2>1. UNCHANGED <<status, home, deps, released>> /\ Queued' \subseteq Queued \cup Gated(g)
    BY <1>14 DEF Reveal, Queued
  <2>2. \A e \in Gated(g) : Live(e)
    BY DEF Gated
  <2> QED
    BY <1>0, <2>1, <2>2, Dropped DEF PlaceInv, QueuedLive, Live
<1>15. ASSUME NEW s \in Signals, SetSignal(s) \/ ReadSignal(s) PROVE P'
  <2>1. s \in Sources /\ Owner(s) = None /\ None \notin released
    BY <1>0, ConstantFacts DEF Owner, Sources, Facts, TypeOK
  <2> QED
    BY <1>1, <1>3, <1>15, <2>1 DEF SetSignal, ReadSignal
<1>16. ASSUME NEW m \in Models, NotifyModel(m) \/ ReadModel(m) PROVE P'
  <2>1. m \in Sources /\ Owner(m) = OwnerOf[m]
    BY ConstantFacts DEF Owner, Sources, Facts
  <2> QED
    BY <1>1, <1>3, <1>16, <2>1 DEF NotifyModel, ReadModel
<1> QED
  BY <1>2, <1>4, <1>5, <1>7, <1>8, <1>9, <1>10, <1>11, <1>12, <1>13, <1>14, <1>15, <1>16
  DEF Next, FlushLoop, FlushStep
-----------------------------------------------------------------------------
(***************************************************************************)
(* The theorems.                                                           *)
(***************************************************************************)
LEMMA Stutter ==
  ASSUME IInv, UNCHANGED vars
  PROVE  IInv'
<1>1. TypeOK'
  BY DEF IInv, TypeOK, vars, queues, flush, tree, ghosts
<1>2. ReadersInnermost' /\ FramesSound' /\ RunSeen'
  BY DEF IInv, ReadersInnermost, FramesSound, RunSeen, Foreign, vars, queues, flush
<1>3. HomesKept' /\ EffectsStayHome'
  BY DEF IInv, HomesKept, EffectsStayHome, Live, vars, flush
<1>4. NothingLeftBehind' /\ UnfinishedForgotten'
  BY DEF IInv, NothingLeftBehind, UnfinishedForgotten, Live, Queued, Running, vars, queues
<1> QED
  BY <1>1, <1>2, <1>3, <1>4 DEF IInv

LEMMA Step ==
  ASSUME IInv, [Next]_vars
  PROVE  IInv'
<1>1. CASE UNCHANGED vars
  BY <1>1, Stutter
<1>2. CASE Next
  <2>1. TypeOK' /\ FramesInv' /\ RunSeen' /\ UnfinishedForgotten'
    BY <1>2, TypeStep, FramesStep, RunSeenStep, UnfinishedStep DEF IInv
  <2>2. PlaceInv'
    BY <1>2, RunsStep, PlaceStep DEF PlaceInv
  <2>3. HomesKept' /\ EffectsStayHome' /\ NothingLeftBehind'
    BY <2>1, <2>2, PlacePartsPrimed
  <2> QED
    BY <2>1, <2>3 DEF IInv, FramesInv
<1> QED
  BY <1>1, <1>2

THEOREM Inductive == Spec => []IInv
BY InitInv, Step, PTL DEF Spec

\* The state keeps its type, and what a flush keeps for its pass is reset by its
\* end (ReactiveRuntime, flush_signal_dirty).
THEOREM Typing == Spec => []TypeOK
<1>1. IInv => TypeOK
  BY DEF IInv
<1> QED
  BY Inductive, <1>1, PTL

\* An effect in its first run is one whose closure is on the stack: when a panic
\* leaves it, however deep, it is no longer registered (UnregisterEffectGuard).
THEOREM FirstRunsEnd == Spec => []UnfinishedForgotten
<1>1. IInv => UnfinishedForgotten
  BY DEF IInv
<1> QED
  BY Inductive, <1>1, PTL

\* No entry of the queue and no subscription outlives the effect or the World it
\* belongs to (unregister_effect, reclaim_dead_effects, release_graph_owner).
THEOREM NothingOutlives == Spec => []NothingLeftBehind
<1>1. IInv => NothingLeftBehind
  BY DEF IInv
<1> QED
  BY Inductive, <1>1, PTL

\* Effects run in the flushes of their own World and depend on its sources and on
\* shared ones only (subscribe_automatic_graph, flush_signal_dirty).
THEOREM HomesHold == Spec => []EffectsStayHome
<1>1. IInv => EffectsStayHome
  BY DEF IInv
<1> QED
  BY Inductive, <1>1, PTL

LEMMA SettledStep ==
  ASSUME IInv, [Next]_vars, flushing # None, flushing' = None, frames = << >>, passes < PassLimit
  PROVE  \A e \in Queued' : Foreign(e)
<1>1. Next
  BY ConstantFacts DEF vars, flush
<1>2. PICK marked \in BOOLEAN : EndPass(marked)
  <2>1. ASSUME NEW k \in 0..Len(frames) PROVE ~Unwind(k)
    BY DEF Unwind
  <2>2. ~MayAct /\ ~Tracks /\ ~Idle
    BY DEF MayAct, Tracks, Idle
  <2>3. ASSUME NEW c \in Computeds PROVE ~GetCached(c) /\ ~Evaluate(c)
    BY <2>2 DEF GetCached, Evaluate, MayGet
  <2>4. ASSUME NEW e \in Effects PROVE ~FlushStep(e)
    BY DEF FlushStep, PopForeign, PopDisabled, PopRun, flush
  <2> QED
    BY <1>1, <2>1, <2>2, <2>3, <2>4
    DEF Next, FlushLoop, SetSignal, ReadSignal, NotifyModel, Retire, ReadModel, Read, ReturnComputed,
        Spawn, Dispose, ReturnEffect, FlushBegin, ReleaseWorld, MayTouch, Conceal, Reveal, Despawn
<1>3. /\ batch = {} /\ batch' = batch /\ later' = later /\ ran = FALSE
  <2>1. ~((ran \/ marked) /\ passes < PassLimit)
    BY <1>2 DEF EndPass
  <2>2. ~ran
    BY <2>1
  <2> QED
    BY <1>2, <2>1, <2>2 DEF EndPass, PassOver, IInv, TypeOK
<1>4. \A e \in later : Foreign(e)
  BY <1>3 DEF IInv, RunSeen
<1> QED
  BY <1>3, <1>4 DEF Queued

\* A flush that comes to its end below the cap leaves only effects of other Worlds
\* in the queue (flush_signal_dirty, core/reactive/mod.rs).
THEOREM FlushesSettle == Spec => FlushSettles
<1>1. IInv /\ [Next]_vars =>
        [flushing # None /\ flushing' = None /\ frames = << >> /\ passes < PassLimit =>
           \A e \in Queued' : Foreign(e)]_vars
  BY SettledStep
<1> QED
  BY Inductive, <1>1, PTL DEF Spec, FlushSettles


-----------------------------------------------------------------------------
(***************************************************************************)
(* What a publication reaches: the least set of clean computeds that is    *)
(* closed under the dependencies.                                          *)
(***************************************************************************)
ClosedFrom(edges, old, p, S) ==
  \A c \in Computeds \ old : (<<p, c>> \in edges \/ \E d \in S : <<d, c>> \in edges) => c \in S

Reach(edges, old, p) ==
  {c \in Computeds \ old : \A S \in SUBSET (Computeds \ old) : ClosedFrom(edges, old, p, S) => c \in S}

LEMMA DirtiedIsReach == \A p : Dirtied(p) = Reach(deps, stale, p)
BY DEF Dirtied, Reach, ClosedFrom

LEMMA DirtiedIsReachPrimed == \A p : Dirtied(p)' = Reach(deps', stale', p)
BY DEF Dirtied, Reach, ClosedFrom

\* What depends on the source or on what is reached is reached.
LEMMA ReachClosed ==
  ASSUME NEW edges, NEW old, NEW p, NEW y \in {p} \cup Reach(edges, old, p),
         NEW c \in Computeds \ old, <<y, c>> \in edges
  PROVE  c \in Reach(edges, old, p)
BY DEF Reach, ClosedFrom

\* What is reached stays so while no edge into a clean computed goes and no computed
\* becomes dirty.
LEMMA ReachKept ==
  ASSUME NEW edges, NEW edges2, NEW old, NEW old2, NEW p, old2 \subseteq old,
         \A y : \A c \in Computeds \ old : <<y, c>> \in edges => <<y, c>> \in edges2
  PROVE  Reach(edges, old, p) \subseteq Reach(edges2, old2, p)
<1> SUFFICES ASSUME NEW c \in Reach(edges, old, p) PROVE c \in Reach(edges2, old2, p)
  OBVIOUS
<1>1. c \in Computeds \ old /\ c \in Computeds \ old2
  BY DEF Reach
<1>2. ASSUME NEW S \in SUBSET (Computeds \ old2), ClosedFrom(edges2, old2, p, S) PROVE c \in S
  <2> DEFINE T == S \ old
  <2>1. ClosedFrom(edges, old, p, T)
    BY <1>2 DEF ClosedFrom
  <2>2. T \in SUBSET (Computeds \ old)
    OBVIOUS
  <2>3. c \in T
    BY <2>1, <2>2 DEF Reach
  <2> QED
    BY <2>3
<1> QED
  BY <1>1, <1>2 DEF Reach

\* When all that one source reaches becomes dirty, what else another one reaches
\* stays reached.
LEMMA ReachBesides ==
  ASSUME NEW edges, NEW edges2, NEW old, NEW old2, NEW p, NEW q,
         old2 = old \cup Reach(edges, old, q), p = q \/ \A c : <<p, c>> \in edges => <<p, c>> \in edges2,
         \A y \in Computeds : \A c : <<y, c>> \in edges => <<y, c>> \in edges2
  PROVE  Reach(edges, old, p) \ Reach(edges, old, q) \subseteq Reach(edges2, old2, p)
<1> SUFFICES ASSUME NEW c \in Reach(edges, old, p), c \notin Reach(edges, old, q)
             PROVE  c \in Reach(edges2, old2, p)
  OBVIOUS
<1>1. c \in Computeds \ old /\ c \in Computeds \ old2 /\ p # q
  BY DEF Reach
<1>2. ASSUME NEW S \in SUBSET (Computeds \ old2), ClosedFrom(edges2, old2, p, S) PROVE c \in S
  <2> DEFINE T == S \cup Reach(edges, old, q)
  <2>1. T \in SUBSET (Computeds \ old)
    BY DEF Reach
  <2>2. ASSUME NEW x \in Computeds \ old, <<p, x>> \in edges \/ \E d \in T : <<d, x>> \in edges
        PROVE  x \in T
    <3>1. CASE x \in Reach(edges, old, q)
      BY <3>1
    <3>2. CASE x \notin Reach(edges, old, q)
      <4>1. x \in Computeds \ old2
        BY <3>2
      <4>2. ASSUME NEW d \in T, <<d, x>> \in edges PROVE d \in S /\ <<d, x>> \in edges2
        <5>1. d \notin Reach(edges, old, q)
          BY <3>2, <4>2, ReachClosed
        <5> QED
          BY <4>2, <5>1
      <4> QED
        BY <1>1, <1>2, <2>2, <4>1, <4>2 DEF ClosedFrom
    <3> QED
      BY <3>1, <3>2
  <2>3. ClosedFrom(edges, old, p, T)
    BY <2>2 DEF ClosedFrom
  <2>4. c \in T
    BY <2>1, <2>3 DEF Reach
  <2> QED
    BY <2>4
<1> QED
  BY <1>1, <1>2 DEF Reach

\* When edges into the computeds of a set go that only themselves depend on what is
\* in the set, what is reached outside of it stays reached.
LEMMA ReachOutside ==
  ASSUME NEW edges, NEW edges2, NEW old, NEW p, NEW gone,
         \A c \in (Computeds \ old) \ gone : <<p, c>> \in edges => <<p, c>> \in edges2,
         \A y \in Computeds, c \in (Computeds \ old) \ gone :
           <<y, c>> \in edges => y \notin gone /\ <<y, c>> \in edges2
  PROVE  Reach(edges, old, p) \ gone \subseteq Reach(edges2, old, p)
<1> SUFFICES ASSUME NEW c \in Reach(edges, old, p), c \notin gone
             PROVE  c \in Reach(edges2, old, p)
  OBVIOUS
<1>1. c \in Computeds \ old
  BY DEF Reach
<1>2. ASSUME NEW S \in SUBSET (Computeds \ old), ClosedFrom(edges2, old, p, S) PROVE c \in S
  <2> DEFINE T == S \cup (gone \cap (Computeds \ old))
  <2>1. ClosedFrom(edges, old, p, T)
    BY <1>2 DEF ClosedFrom
  <2>2. T \in SUBSET (Computeds \ old)
    OBVIOUS
  <2>3. c \in T
    BY <2>1, <2>2 DEF Reach
  <2> QED
    BY <2>3
<1> QED
  BY <1>1, <1>2 DEF Reach
LEMMA ReachNothing ==
  ASSUME NEW edges, NEW old, NEW p, \A c \in Computeds : <<p, c>> \notin edges
  PROVE  Reach(edges, old, p) = {}
<1>1. ClosedFrom(edges, old, p, {}) /\ {} \in SUBSET (Computeds \ old)
  BY DEF ClosedFrom
<1> QED
  BY <1>1 DEF Reach

-----------------------------------------------------------------------------
(***************************************************************************)
(* The inductive invariant.                                                *)
(***************************************************************************)
\* A write to s would reach x.
Covers(s, x) == \E y \in {s} \cup Dirtied(s) : <<y, x>> \in deps

\* A computed that is being evaluated is a dependency of whoever asked for it.
Calls ==
  \A i \in DOMAIN frames :
    /\ i > 1
    /\ frames[i].who \in Computeds
    /\ frames[i - 1].who \in Effects => Live(frames[i - 1].who)
    => <<frames[i].who, frames[i - 1].who>> \in deps

RunningCurrent == Running \cap Computeds \cap behind = {}

NewUntouched == \A e \in Effects : status[e] = "new" => reads[e] = {} /\ e \notin behind

\* Whatever the value of a computed, finished or not, came from would dirty it.
ComputedsCovered ==
  \A x \in Computeds : x \notin stale \/ x \in Running => \A s \in reads[x] : Covers(s, x)

ValuesInv == CachesCurrent /\ RunningCurrent /\ ComputedsCovered

ReadInv == Calls /\ NewUntouched /\ ValuesInv

\* An effect that is not going to run anyway would be woken by whatever it read.
EffectsCovered ==
  \A e \in Effects : Live(e) /\ e \notin Queued /\ Enabled(e) =>
    \A s \in reads[e] : Covers(s, e)

\* Retirement queues nobody: what may be retired is read by effects themselves.
RetirablesReadDirectly == \A d \in deps : d[1] \in Retirable => d[2] \in Effects

WakeInv == EffectsCovered /\ NoLostUpdate

LEMMA InitRead == Init => ReadInv /\ WakeInv
<1> SUFFICES ASSUME Init PROVE ReadInv /\ WakeInv
  OBVIOUS
<1>1. Calls /\ NewUntouched /\ CachesCurrent /\ RunningCurrent
  BY DEF Init, Calls, NewUntouched, CachesCurrent, RunningCurrent, Subscribers
<1>2. ComputedsCovered
  BY DEF Init, ComputedsCovered, Running
<1>3. WakeInv
  BY DEF Init, WakeInv, EffectsCovered, NoLostUpdate, Live
<1> QED
  BY <1>1, <1>2, <1>3 DEF ReadInv, ValuesInv

-----------------------------------------------------------------------------
(***************************************************************************)
(* Coverage.                                                               *)
(***************************************************************************)
LEMMA CoverKept ==
  ASSUME NEW s, NEW x, Covers(s, x), stale' \subseteq stale,
         \A y : \A c \in Computeds \ stale : <<y, c>> \in deps => <<y, c>> \in deps',
         \A y : <<y, x>> \in deps => <<y, x>> \in deps'
  PROVE  Covers(s, x)'
<1>1. PICK y \in {s} \cup Dirtied(s) : <<y, x>> \in deps
  BY DEF Covers
<1>2. Dirtied(s) \subseteq Dirtied(s)'
  BY ReachKept, DirtiedIsReach, DirtiedIsReachPrimed
<1> QED
  BY <1>1, <1>2 DEF Covers

\* What q dirties is behind: x is covered as before, unless it is reached from q.
LEMMA CoverBesides ==
  ASSUME NEW s, NEW x, NEW q, Covers(s, x), stale' = stale \cup Dirtied(q),
         \A y \in Dirtied(q) : <<y, x>> \notin deps,
         s = q => deps' = deps,
         \A y, z : <<y, z>> \in deps /\ y # q => <<y, z>> \in deps',
         q \notin Computeds
  PROVE  Covers(s, x)'
<1>1. PICK y \in {s} \cup Dirtied(s) : <<y, x>> \in deps
  BY DEF Covers
<1>2. CASE y = s
  BY <1>1, <1>2 DEF Covers
<1>3. CASE y \in Dirtied(s) /\ y # s
  <2>1. y \in Dirtied(s) \ Dirtied(q) /\ y \in Computeds /\ y # q
    BY <1>1, <1>3, DirtiedAreComputeds
  <2>2. s # q
    BY <2>1
  <2>3. Dirtied(s) \ Dirtied(q) \subseteq Dirtied(s)'
    <3>1. stale' = stale \cup Reach(deps, stale, q)
      BY DirtiedIsReach
    <3>2. \A c : <<s, c>> \in deps => <<s, c>> \in deps'
      BY <2>2
    <3>3. \A z \in Computeds : \A c : <<z, c>> \in deps => <<z, c>> \in deps'
      OBVIOUS
    <3>4. Reach(deps, stale, s) \ Reach(deps, stale, q) \subseteq Reach(deps', stale', s)
      BY <3>1, <3>2, <3>3, ReachBesides
    <3> QED
      BY <3>4, DirtiedIsReach, DirtiedIsReachPrimed
  <2>4. <<y, x>> \in deps'
    BY <1>1, <2>1
  <2> QED
    BY <2>1, <2>3, <2>4 DEF Covers
<1> QED
  BY <1>1, <1>2, <1>3

\* A clean computed hands on what covers it.
LEMMA CoverThrough ==
  ASSUME NEW s, NEW c \in Computeds, NEW x, c \notin stale, Covers(s, c), <<c, x>> \in deps
  PROVE  Covers(s, x)
<1>1. c \in Dirtied(s)
  BY ReachClosed, DirtiedIsReach DEF Covers
<1> QED
  BY <1>1 DEF Covers

LEMMA CoverThroughPrimed ==
  ASSUME NEW s, NEW c \in Computeds, NEW x, c \notin stale', Covers(s, c)', <<c, x>> \in deps'
  PROVE  Covers(s, x)'
<1>1. c \in Dirtied(s)'
  BY ReachClosed, DirtiedIsReachPrimed DEF Covers
<1> QED
  BY <1>1 DEF Covers
-----------------------------------------------------------------------------
(***************************************************************************)
(* Who asked for the value of a computed.                                  *)
(***************************************************************************)
LEMMA CallsStay ==
  ASSUME Calls, UNCHANGED frames,
         \A e \in Effects : Live(e)' => Live(e),
         \A c \in Computeds : \A x : <<c, x>> \in deps /\ (x \in Effects => Live(x)')
            => <<c, x>> \in deps'
  PROVE  Calls'
BY DEF Calls

LEMMA CallsCut ==
  ASSUME TypeOK, Calls, NEW k \in 0..Len(frames), frames' = SubSeq(frames, 1, k),
         \A e \in Effects : Live(e)' => Live(e),
         \A c \in Computeds : \A x : <<c, x>> \in deps /\ (x \in Effects => Live(x)')
            => <<c, x>> \in deps'
  PROVE  Calls'
<1>1. /\ Len(frames) \in Nat /\ DOMAIN frames = 1..Len(frames)
      /\ DOMAIN frames' = 1..k /\ \A i \in 1..k : frames'[i] = frames[i]
  BY CutFrames DEF TypeOK
<1>2. \A i \in 1..k : i > 1 => i - 1 \in 1..k
  BY <1>1
<1> QED
  BY <1>1, <1>2 DEF Calls

LEMMA CallsPushed ==
  ASSUME TypeOK, Calls, NEW f \in Frame, frames' = Append(frames, f),
         \A e \in Running \cap Effects : Live(e)' => Live(e),
         \A c \in Computeds \cap Running : \A x : <<c, x>> \in deps /\ x \in Running => <<c, x>> \in deps',
         f.who \in Computeds /\ frames # << >> =>
           \A x : x = Top.who /\ (x \in Effects => Live(x)') => <<f.who, x>> \in deps'
  PROVE  Calls'
<1>1. /\ Len(frames) \in Nat /\ DOMAIN frames = 1..Len(frames)
      /\ DOMAIN frames' = 1..(Len(frames) + 1)
      /\ \A i \in 1..Len(frames) : frames'[i] = frames[i] /\ frames[i].who \in Running
      /\ frames'[Len(frames) + 1] = f
  BY PushFrame DEF TypeOK, Running
<1>2. ASSUME NEW i \in 2..Len(frames), NEW x, x = frames[i - 1].who,
             frames[i].who \in Computeds, x \in Effects => Live(x)'
      PROVE  <<frames[i].who, x>> \in deps'
  <2>1. /\ i - 1 \in 1..Len(frames) /\ i \in DOMAIN frames /\ i > 1 /\ i \in 1..Len(frames)
        /\ x \in Running
    BY <1>1, <1>2
  <2>2. x \in Effects => Live(x)
    BY <1>2, <2>1
  <2>3. <<frames[i].who, x>> \in deps
    BY <1>2, <2>1, <2>2 DEF Calls
  <2> QED
    BY <1>1, <1>2, <2>1, <2>3
<1>3. ASSUME Len(frames) > 0, NEW x, x = frames[Len(frames)].who, f.who \in Computeds,
             x \in Effects => Live(x)'
      PROVE  <<f.who, x>> \in deps'
  <2>1. frames # << >> /\ x = Top.who
    BY <1>1, <1>3 DEF Top
  <2> QED
    BY <1>3, <2>1
<1>4. SUFFICES ASSUME NEW i \in 2..(Len(frames) + 1), NEW x, x = frames'[i - 1].who,
                      frames'[i].who \in Computeds, x \in Effects => Live(x)'
               PROVE  <<frames'[i].who, x>> \in deps'
  BY <1>1 DEF Calls
<1>5. CASE i \in 2..Len(frames)
  <2>1. frames'[i] = frames[i] /\ frames'[i - 1] = frames[i - 1]
    BY <1>1, <1>5
  <2> QED
    BY <1>2, <1>4, <1>5, <2>1
<1>6. CASE i = Len(frames) + 1
  <2> DEFINE n == Len(frames)
  <2>0. n \in Nat /\ i = n + 1 /\ i \in 2..(n + 1)
    BY <1>1, <1>6
  <2> HIDE DEF n
  <2>2. n > 0 /\ i - 1 = n
    BY <2>0
  <2> USE DEF n
  <2>1. Len(frames) > 0 /\ frames'[i] = f /\ i - 1 = Len(frames)
    BY <1>1, <1>6, <2>2
  <2>3. frames'[i - 1] = frames[Len(frames)]
    BY <1>1, <2>1
  <2> QED
    BY <1>3, <1>4, <2>1, <2>3
<1>7. i \in 2..Len(frames) \/ i = Len(frames) + 1
  <2>1. Len(frames) \in Nat
    BY <1>1
  <2> QED
    BY <1>4, <2>1
<1> QED
  BY <1>5, <1>6, <1>7

LEMMA ForgetKeepsCalls ==
  ASSUME TypeOK, NEW E \in SUBSET Effects, Forget(E)
  PROVE  /\ \A e \in Effects : Live(e)' => Live(e)
         /\ \A y, x : <<y, x>> \in deps /\ (x \in Effects => Live(x)') => <<y, x>> \in deps'
<1>1. \A e \in Effects : Live(e)' => Live(e) /\ e \notin E
  BY DEF Forget, Live
<1> QED
  BY <1>1 DEF Forget

LEMMA CallsStep ==
  ASSUME IInv, Calls, Next
  PROVE  Calls'
<1>0. TypeOK /\ FramesSound
  BY DEF IInv
<1>1. CASE \/ \E s \in Signals : SetSignal(s) \/ ReadSignal(s)
           \/ \E m \in Models : NotifyModel(m) \/ ReadModel(m)
           \/ \E c \in Computeds : GetCached(c)
           \/ \E e \in Effects : PopForeign(e) \/ PopDisabled(e)
           \/ \E marked \in BOOLEAN : EndPass(marked)
           \/ \E g \in Gates : Conceal(g) \/ Reveal(g)
           \/ \E n \in Entities : Despawn(n)
  <2>1. UNCHANGED <<frames, status>> /\ deps \subseteq deps'
    BY <1>1 DEF SetSignal, ReadSignal, NotifyModel, ReadModel, GetCached, Publish, Read,
       PopForeign, PopDisabled, EndPass, Conceal, Reveal, Despawn
  <2> QED
    BY <2>1, CallsStay DEF Live
<1>2. ASSUME NEW m \in Models, Retire(m) PROVE Calls'
  <2>1. m \notin Computeds /\ UNCHANGED <<frames, status>> /\ deps' = {d \in deps : d[1] # m}
    BY <1>2, ConstantFacts DEF Retire, Facts, Sources, Subscribers
  <2> QED
    BY <2>1, CallsStay DEF Live
<1>3. ASSUME NEW c \in Computeds, Evaluate(c) PROVE Calls'
  <2> DEFINE f == [who |-> c, world |-> OwnerOf[c]]
  <2>1. f \in Frame /\ f.who = c
    BY OwnerAssumption DEF Frame, Subscribers
  <2>2. /\ frames' = Append(frames, f) /\ c \notin Running /\ UNCHANGED status
        /\ deps' = (deps \cup Subscription(c)) \ Column(c)
    BY <1>3 DEF Evaluate, MayGet
  <2>3. \A y : \A x \in Running : <<y, x>> \in deps \cup Subscription(c) => <<y, x>> \in deps'
    BY <2>2 DEF Column
  <2>4. ASSUME frames # << >>, NEW x, x = Top.who, x \in Effects => Live(x)'
        PROVE  <<c, x>> \in deps'
    <3>1. Tracks /\ x \in Running
      BY <1>0, <2>2, <2>4, TopFrame DEF Tracks, Live
    <3> QED
      BY <2>3, <2>4, <3>1 DEF Subscription
  <2>5. \A e \in Running \cap Effects : Live(e)' => Live(e)
    BY <2>2 DEF Live
  <2>6. \A d \in Computeds \cap Running : \A x : <<d, x>> \in deps /\ x \in Running => <<d, x>> \in deps'
    BY <2>3
  <2> HIDE DEF f
  <2> QED
    BY <1>0, <2>1, <2>2, <2>4, <2>5, <2>6, CallsPushed
<1>4. CASE ReturnComputed \/ \E e \in Effects : ReturnEffect(e)
  <2> DEFINE k == Len(frames) - 1
  <2>1. frames # << >> /\ frames' = SubSeq(frames, 1, k) /\ UNCHANGED deps
    BY <1>4 DEF ReturnComputed, ReturnEffect
  <2>2. k \in 0..Len(frames)
    BY <1>0, <2>1, TopFrame
  <2>3. \A d \in Effects : Live(d)' => Live(d)
    BY <1>0, <1>4 DEF ReturnComputed, ReturnEffect, Live, TypeOK
  <2> HIDE DEF k
  <2> QED
    BY <1>0, <2>1, <2>2, <2>3, CallsCut
<1>5. ASSUME NEW k \in 0..Len(frames), Unwind(k) PROVE Calls'
  <2> DEFINE left == {frames[i].who : i \in (k + 1)..Len(frames)}
             unfinished == {e \in left \cap Effects : status[e] = "first"}
  <2>1. Forget(unfinished) /\ unfinished \in SUBSET Effects /\ frames' = SubSeq(frames, 1, k)
    BY <1>5 DEF Unwind, Unregister
  <2> HIDE DEF unfinished
  <2>2. /\ \A e \in Effects : Live(e)' => Live(e)
        /\ \A y, x : <<y, x>> \in deps /\ (x \in Effects => Live(x)') => <<y, x>> \in deps'
    BY <1>0, <2>1, ForgetKeepsCalls
  <2> QED
    BY <1>0, <2>1, <2>2, CallsCut
<1>6. ASSUME NEW e \in Effects, NEW w \in Worlds \cup {None}, Spawn(e, w) PROVE Calls'
  <2> DEFINE f == [who |-> e, world |-> w]
  <2>1. f \in Frame /\ f.who \notin Computeds
    BY ConstantFacts DEF Frame, Subscribers, Facts
  <2>2. /\ frames' = Append(frames, f) /\ status[e] = "new"
        /\ status' = [status EXCEPT ![e] = "first"] /\ UNCHANGED deps
    BY <1>6 DEF Spawn
  <2>3. \A d \in Running \cap Effects : Live(d)' => Live(d)
    BY <1>0, <2>2 DEF TypeOK, Live, FramesSound, Running
  <2> HIDE DEF f
  <2> QED
    BY <1>0, <2>1, <2>2, <2>3, CallsPushed
<1>7. ASSUME NEW e \in Effects, Dispose(e) PROVE Calls'
  <2>1. {e} \in SUBSET Effects /\ Forget({e}) /\ UNCHANGED frames
    BY <1>7 DEF Dispose, Unregister
  <2> QED
    BY <1>0, <2>1, ForgetKeepsCalls, CallsStay
<1>8. CASE \/ \E w \in Worlds : FlushBegin(w) \/ ReleaseWorld(w)
           \/ \E e \in Effects : PopRun(e)
  <2>1. \A i \in DOMAIN frames' : ~(i > 1)
    BY <1>8 DEF FlushBegin, ReleaseWorld, Idle, PopRun
  <2> QED
    BY <2>1 DEF Calls
<1> QED
  BY <1>1, <1>2, <1>3, <1>4, <1>5, <1>6, <1>7, <1>8 DEF Next, FlushLoop, FlushStep

LEMMA NewStep ==
  ASSUME IInv, NewUntouched, Next
  PROVE  NewUntouched'
<1>0. TypeOK /\ FramesSound
  BY DEF IInv
<1>1. CASE \/ \E s \in Signals : SetSignal(s)
           \/ \E m \in Models : NotifyModel(m)
  BY <1>1 DEF SetSignal, NotifyModel, Publish, NewUntouched
<1>2. CASE \/ \E e \in Effects : PopForeign(e) \/ PopDisabled(e) \/ PopRun(e) \/ ReturnEffect(e)
           \/ \E e \in Effects, w \in Worlds \cup {None} : Spawn(e, w)
           \/ \E marked \in BOOLEAN : EndPass(marked)
           \/ \E g \in Gates : Conceal(g) \/ Reveal(g)
           \/ \E n \in Entities : Despawn(n)
  <2>1. \A e \in Effects : status'[e] = "new" => status[e] = "new"
    BY <1>0, <1>2 DEF PopForeign, PopDisabled, PopRun, Spawn, EndPass, Conceal, Reveal, Despawn,
       ReturnEffect, TypeOK
  <2>2. behind' \subseteq behind /\ \A e \in Effects : reads'[e] = reads[e] \/ reads'[e] = {}
    BY <1>0, <1>2 DEF PopForeign, PopDisabled, PopRun, Spawn, EndPass, Conceal, Reveal, Despawn,
       ReturnEffect, ghosts, TypeOK, Subscribers
  <2> QED
    BY <2>1, <2>2 DEF NewUntouched
<1>3. CASE \/ \E m \in Models : Retire(m)
           \/ \E e \in Effects : Dispose(e)
           \/ \E k \in 0..Len(frames) : Unwind(k)
           \/ \E w \in Worlds : FlushBegin(w) \/ ReleaseWorld(w)
  <2>1. \A e \in Effects : status'[e] = "new" => status[e] = "new"
    BY <1>3 DEF Retire, Dispose, Unregister, Unwind, FlushBegin, ReleaseWorld, Forget
  <2>2. behind' \subseteq behind
    BY <1>3 DEF Retire, Dispose, Unregister, Unwind, FlushBegin, ReleaseWorld, Forget
  <2>3. \A e \in Effects : reads'[e] \subseteq reads[e]
    BY <1>3 DEF Retire, Dispose, Unregister, Unwind, FlushBegin, ReleaseWorld, Forget, Subscribers
  <2> QED
    BY <2>1, <2>2, <2>3 DEF NewUntouched
<1>4. ASSUME UNCHANGED status,
             \A e \in Effects : e \notin Running => reads'[e] = reads[e] /\ (e \in behind' => e \in behind)
      PROVE  NewUntouched'
  BY <1>0, <1>4 DEF NewUntouched, FramesSound, Running
<1>5. CASE \/ \E s \in Signals : ReadSignal(s)
           \/ \E m \in Models : ReadModel(m)
           \/ \E c \in Computeds : GetCached(c)
  <2>1. Top.who \in Running
    BY <1>0, <1>5, TopFrame DEF ReadSignal, ReadModel, Read, GetCached, Tracks
  <2> QED
    BY <1>0, <1>4, <1>5, <2>1 DEF ReadSignal, ReadModel, Read, GetCached, TypeOK, Subscribers
<1>6. ASSUME NEW c \in Computeds, Evaluate(c) PROVE NewUntouched'
  BY <1>0, <1>4, <1>6, ConstantFacts DEF Evaluate, TypeOK, Subscribers, Facts
<1>7. CASE ReturnComputed
  <2>1. Len(frames) # 1 => frames[Len(frames) - 1].who \in Running
    BY <1>0, <1>7, TopFrame DEF ReturnComputed, Running
  <2> QED
    BY <1>0, <1>4, <1>7, <2>1 DEF ReturnComputed, TypeOK, Subscribers
<1> QED
  BY <1>1, <1>2, <1>3, <1>5, <1>6, <1>7 DEF Next, FlushLoop, FlushStep
-----------------------------------------------------------------------------
(***************************************************************************)
(* The values of the computeds.                                            *)
(***************************************************************************)
\* No computed is touched.
LEMMA ValuesStay ==
  ASSUME ValuesInv, UNCHANGED stale, Running' \cap Computeds \subseteq Running,
         \A y : \A c \in Computeds : <<y, c>> \in deps => <<y, c>> \in deps',
         \A c \in Computeds : reads'[c] = reads[c],
         behind' \cap Computeds \subseteq behind
  PROVE  ValuesInv'
<1>1. CachesCurrent' /\ RunningCurrent'
  BY DEF ValuesInv, CachesCurrent, RunningCurrent
<1>2. ASSUME NEW x \in Computeds, x \notin stale' \/ x \in Running', NEW s \in reads'[x]
      PROVE  Covers(s, x)'
  <2>1. Covers(s, x)
    BY <1>2 DEF ValuesInv, ComputedsCovered
  <2> QED
    BY <2>1, CoverKept
<1> QED
  BY <1>1, <1>2 DEF ValuesInv, ComputedsCovered

\* What q reaches becomes dirty, be it with a write to q or with its retirement.
LEMMA ValuesDirtied ==
  ASSUME ValuesInv, NEW q \in Sources, Running \cap Computeds = {}, UNCHANGED frames,
         stale' = stale \cup Dirtied(q),
         \A y, z : <<y, z>> \in deps /\ y # q => <<y, z>> \in deps',
         \/ /\ UNCHANGED <<deps, reads>>
            /\ behind' = behind \cup {x \in Subscribers : q \in reads[x]}
         \/ /\ \A x \in Computeds : reads'[x] = reads[x] \ {q}
            /\ UNCHANGED behind
  PROVE  ValuesInv'
<1>1. q \notin Computeds
  BY ConstantFacts DEF Facts, Subscribers
<1>2. Running' \cap Computeds = {}
  BY DEF Running
<1>3. ASSUME NEW x \in Computeds, x \notin stale' PROVE \A y \in Dirtied(q) \cup {q} : <<y, x>> \notin deps
  <2>1. x \in Computeds \ stale /\ x \notin Dirtied(q)
    BY <1>3
  <2> QED
    BY <2>1, ReachClosed, DirtiedIsReach
<1>4. ASSUME NEW x \in Computeds, x \notin stale' PROVE q \notin reads[x]
  BY <1>3, <1>4 DEF ValuesInv, ComputedsCovered, Covers
<1>5. CachesCurrent'
  BY <1>4 DEF ValuesInv, CachesCurrent
<1>6. ASSUME NEW x \in Computeds, x \notin stale', NEW s \in reads'[x]
      PROVE  Covers(s, x)'
  <2>1. s \in reads[x] /\ s # q
    BY <1>4, <1>6
  <2>2. Covers(s, x)
    BY <1>6, <2>1 DEF ValuesInv, ComputedsCovered
  <2> QED
    BY <1>1, <1>3, <1>6, <2>1, <2>2, CoverBesides
<1> QED
  BY <1>2, <1>5, <1>6 DEF ValuesInv, RunningCurrent, ComputedsCovered

LEMMA ReadsTypes ==
  ASSUME TypeOK
  PROVE  \A x \in Subscribers : \A t \in Subscribers : \A r :
           [reads EXCEPT ![t] = r][x] = IF x = t THEN r ELSE reads[x]
BY DEF TypeOK

\* The innermost closure comes to depend on y and on what the value of y came from.
LEMMA ValuesRead ==
  ASSUME TypeOK, ValuesInv, frames # << >>, UNCHANGED <<stale, frames>>,
         NEW y, NEW from, NEW x, x = Top.who,
         deps' = deps \cup {<<y, x>>},
         reads' = [reads EXCEPT ![x] = @ \cup from],
         behind' = behind,
         from = {y} \/ (y \in Computeds \ stale /\ from = reads[y])
  PROVE  ValuesInv'
<1>1. x \in Subscribers
  BY TopFrame
<1>2. \A c \in Computeds : reads'[c] = IF c = x THEN reads[x] \cup from ELSE reads[c]
  BY <1>1, ReadsTypes DEF Subscribers
<1>3. Running' = Running
  BY DEF Running
<1>4. CachesCurrent' /\ RunningCurrent'
  BY <1>3 DEF ValuesInv, CachesCurrent, RunningCurrent
<1>5. ASSUME NEW c \in Computeds, c \notin stale' \/ c \in Running', NEW s \in reads'[c]
      PROVE  Covers(s, c)'
  <2>1. CASE s \in reads[c]
    <3>1. Covers(s, c)
      BY <1>3, <1>5, <2>1 DEF ValuesInv, ComputedsCovered
    <3> QED
      BY <3>1, CoverKept
  <2>2. CASE s \notin reads[c]
    <3>1. c = x /\ s \in from
      BY <1>2, <1>5, <2>2
    <3>2. CASE from = {y}
      BY <3>1, <3>2 DEF Covers
    <3>3. CASE y \in Computeds \ stale /\ from = reads[y]
      <4>1. Covers(s, y)
        BY <3>1, <3>3 DEF ValuesInv, ComputedsCovered
      <4>2. Covers(s, y)'
        BY <4>1, CoverKept
      <4> QED
        BY <3>1, <3>3, <4>2, CoverThroughPrimed
    <3> QED
      BY <3>2, <3>3
  <2> QED
    BY <2>1, <2>2
<1> QED
  BY <1>4, <1>5 DEF ValuesInv, ComputedsCovered
\* What is left of a World that is dropped was not covered through it.
LEMMA ReleaseKeepsCover ==
  ASSUME IInv, NEW w \in Worlds, ReleaseWorld(w), NEW s, NEW x \in Subscribers, Covers(s, x),
         x \in Computeds => OwnerOf[x] # w,
         x \in Effects => home[x] # w
  PROVE  Covers(s, x)'
<1> DEFINE own == {e \in Effects : Live(e) /\ home[e] = w}
           Owned(y) == y \in Models \cup Computeds /\ OwnerOf[y] = w
           gone == {c \in Computeds : OwnerOf[c] = w}
<1>1. /\ deps' = {d \in deps : ~Owned(d[1]) /\ ~Owned(d[2]) /\ d[2] \notin own}
      /\ stale' = stale /\ w # None
  BY ConstantFacts DEF ReleaseWorld, Facts
<1>2. TypeOK /\ EdgesAtHome
  BY PlaceParts DEF IInv, PlaceInv
<1>3. ASSUME NEW y, NEW z, <<y, z>> \in deps,
             z \in Computeds => OwnerOf[z] # w, z \in Effects => home[z] # w
      PROVE  <<y, z>> \in deps' /\ y \notin gone
  <2>1. y \in Sources \cup Computeds /\ z \in Subscribers
    BY <1>2, <1>3, EdgeTypes
  <2>2. Owner(y) # w
    BY <1>1, <1>2, <1>3, <2>1 DEF EdgesAtHome, Subscribers
  <2>3. ~Owned(y) /\ y \notin gone
    BY <2>1, <2>2, ConstantFacts DEF Owner, Facts, Sources, Subscribers
  <2>4. ~Owned(z) /\ z \notin own
    BY <1>3, <2>1, ConstantFacts DEF Facts, Sources, Subscribers
  <2> QED
    BY <1>1, <1>3, <2>3, <2>4
<1>4. Reach(deps, stale, s) \ gone \subseteq Reach(deps', stale, s)
  <2>1. ASSUME NEW c \in (Computeds \ stale) \ gone, NEW y, <<y, c>> \in deps
        PROVE  <<y, c>> \in deps' /\ y \notin gone
    BY <1>3, <2>1, ConstantFacts DEF Facts
  <2> HIDE DEF gone
  <2> QED
    BY <2>1, ReachOutside
<1>5. PICK y \in {s} \cup Dirtied(s) : <<y, x>> \in deps
  BY DEF Covers
<1>6. <<y, x>> \in deps' /\ y \notin gone
  BY <1>3, <1>5
<1>7. y = s \/ y \in Dirtied(s)'
  BY <1>1, <1>4, <1>5, <1>6, DirtiedIsReach, DirtiedIsReachPrimed
<1> QED
  BY <1>6, <1>7 DEF Covers

LEMMA ValuesStep ==
  ASSUME IInv, ReadInv, Next
  PROVE  ValuesInv'
<1>0. TypeOK /\ ValuesInv /\ Calls /\ FramesInv
  BY DEF IInv, ReadInv, FramesInv
<1>1. CASE \/ \E s \in Signals : SetSignal(s)
           \/ \E m \in Models : NotifyModel(m)
  <2>1. PICK q \in Sources : MayAct /\ Publish(q)
    BY <1>1 DEF SetSignal, NotifyModel, Sources
  <2>2. Running \cap Computeds = {}
    BY <2>1, NoReaderRuns
  <2> QED
    BY <1>0, <2>1, <2>2, ValuesDirtied DEF Publish
<1>2. ASSUME NEW m \in Models, Retire(m) PROVE ValuesInv'
  <2>1. Running \cap Computeds = {} /\ m \in Sources
    BY <1>2, NoReaderRuns DEF Retire, Sources
  <2>2. /\ UNCHANGED <<frames, behind>> /\ stale' = stale \cup Dirtied(m)
        /\ \A y, z : <<y, z>> \in deps /\ y # m => <<y, z>> \in deps'
        /\ \A x \in Computeds : reads'[x] = reads[x] \ {m}
    BY <1>2 DEF Retire, ghosts, Subscribers
  <2> QED
    BY <1>0, <2>1, <2>2, ValuesDirtied
<1>3. CASE \/ \E s \in Signals : ReadSignal(s)
           \/ \E m \in Models : ReadModel(m)
  <2>1. PICK p \in Sources, o \in Worlds \cup {None} : Read(p, o)
    BY <1>3, OwnerAssumption DEF ReadSignal, ReadModel, Sources
  <2> DEFINE from == {p}
  <2>2. /\ frames # << >> /\ UNCHANGED <<stale, frames, behind>>
        /\ deps' = deps \cup {<<p, Top.who>>}
        /\ reads' = [reads EXCEPT ![Top.who] = @ \cup from]
    BY <2>1 DEF Read, Tracks
  <2> HIDE DEF from
  <2>3. from = {p}
    BY DEF from
  <2> QED
    BY <1>0, <2>2, <2>3, ValuesRead
<1>4. ASSUME NEW c \in Computeds, GetCached(c) PROVE ValuesInv'
  <2> DEFINE from == reads[c]
  <2>1. /\ frames # << >> /\ UNCHANGED <<stale, frames>> /\ c \notin stale
        /\ deps' = deps \cup {<<c, Top.who>>}
        /\ reads' = [reads EXCEPT ![Top.who] = @ \cup from]
    BY <1>4 DEF GetCached, Tracks, Subscription
  <2>2. behind' = behind
    BY <1>0, <1>4 DEF GetCached, ValuesInv, CachesCurrent
  <2>3. c \in Computeds \ stale /\ from = reads[c]
    BY <2>1
  <2> HIDE DEF from
  <2> QED
    BY <1>0, <2>1, <2>2, <2>3, ValuesRead
<1>5. ASSUME NEW c \in Computeds, Evaluate(c) PROVE ValuesInv'
  <2>1. /\ c \in stale /\ c \notin Running /\ stale' = stale
        /\ deps' = (deps \cup Subscription(c)) \ Column(c)
        /\ reads' = [reads EXCEPT ![c] = {}] /\ behind' = behind \ {c}
        /\ frames' = Append(frames, [who |-> c, world |-> OwnerOf[c]])
    BY <1>5 DEF Evaluate, MayGet
  <2>2. Running' = Running \cup {c}
    BY <1>0, <2>1, RunningPushed, OwnerAssumption DEF Frame, Subscribers
  <2>3. CachesCurrent' /\ RunningCurrent'
    BY <1>0, <2>1, <2>2 DEF ValuesInv, CachesCurrent, RunningCurrent
  <2>4. \A x \in Computeds : reads'[x] = IF x = c THEN {} ELSE reads[x]
    BY <1>0, <2>1, ReadsTypes DEF Subscribers
  <2>5. ASSUME NEW x \in Computeds, x \notin stale' \/ x \in Running', NEW s \in reads'[x]
        PROVE  Covers(s, x)'
    <3>1. x # c /\ s \in reads[x]
      BY <2>4, <2>5
    <3>2. Covers(s, x)
      BY <1>0, <2>1, <2>2, <2>5, <3>1 DEF ValuesInv, ComputedsCovered
    <3>3. \A y, z : <<y, z>> \in deps /\ z # c => <<y, z>> \in deps'
      BY <2>1 DEF Column
    <3> QED
      BY <2>1, <3>1, <3>2, <3>3, CoverKept
  <2> QED
    BY <2>3, <2>5 DEF ValuesInv, ComputedsCovered
<1>6. CASE ReturnComputed
  <2>0. PICK c \in Computeds : c = Top.who
    BY <1>6 DEF ReturnComputed
  <2> DEFINE n == Len(frames)
  <2>1. /\ frames # << >> /\ stale' = stale \ {c} /\ UNCHANGED <<deps, behind>>
        /\ frames' = SubSeq(frames, 1, n - 1) /\ status' = status
        /\ reads' = IF n = 1 THEN reads ELSE [reads EXCEPT ![frames[n - 1].who] = @ \cup reads[c]]
    BY <1>6, <2>0 DEF ReturnComputed
  <2>2. /\ n \in Nat \ {0} /\ DOMAIN frames = 1..n /\ Top = frames[n] /\ c \in Running
        /\ Running = Running' \cup {c}
    BY <1>0, <2>0, <2>1, TopFrame, RunningPopped
  <2>3. CachesCurrent' /\ RunningCurrent'
    BY <1>0, <2>1, <2>2 DEF ValuesInv, CachesCurrent, RunningCurrent
  <2>4. ASSUME NEW s, NEW x, Covers(s, x) PROVE Covers(s, x)'
    BY <2>1, <2>4, CoverKept
  <2>5. ASSUME NEW s \in reads[c] PROVE Covers(s, c)'
    BY <1>0, <2>1, <2>2, <2>4, <2>5 DEF ValuesInv, ComputedsCovered
  <2>6. ASSUME NEW x \in Computeds, x \notin stale' \/ x \in Running', NEW s \in reads'[x]
        PROVE  Covers(s, x)'
    <3>1. CASE s \in reads[x]
      <4>1. x \notin stale \/ x \in Running
        BY <2>1, <2>2, <2>6
      <4> QED
        BY <1>0, <2>4, <3>1, <4>1 DEF ValuesInv, ComputedsCovered
    <3>2. CASE s \notin reads[x]
      <4>1. n # 1
        BY <2>1, <2>6, <3>2
      <4>2. n \in DOMAIN frames /\ n - 1 \in DOMAIN frames /\ n > 1
        BY <2>2, <4>1
      <4>3. frames[n - 1].who \in Subscribers
        <5>1. frames \in Seq(Frame) /\ n - 1 \in 1..Len(frames)
          BY <1>0, <2>2, <4>2 DEF TypeOK
        <5>2. frames[n - 1] \in Frame
          BY <5>1, ElementOfSeq
        <5> QED
          BY <5>2 DEF Frame
      <4>4. x = frames[n - 1].who /\ s \in reads[c]
        BY <1>0, <2>1, <2>6, <3>2, <4>1, <4>3, ReadsTypes DEF Subscribers
      <4>5. <<c, x>> \in deps
        BY <1>0, <2>0, <2>1, <2>2, <2>6, <4>2, <4>4, ConstantFacts DEF Calls, Facts
      <4> QED
        BY <2>1, <2>5, <4>4, <4>5, CoverThroughPrimed
    <3> QED
      BY <3>1, <3>2
  <2> QED
    BY <2>3, <2>6 DEF ValuesInv, ComputedsCovered
<1>7. ASSUME NEW E \in SUBSET Effects, Forget(E), UNCHANGED stale, Running' \subseteq Running
      PROVE  ValuesInv'
  <2>1. E \cap Computeds = {}
    BY ConstantFacts DEF Facts
  <2>2. \A y : \A c \in Computeds : <<y, c>> \in deps => <<y, c>> \in deps'
    BY <1>7, <2>1 DEF Forget
  <2>3. /\ \A c \in Computeds : reads'[c] = reads[c]
        /\ behind' \subseteq behind
    BY <1>7, <2>1 DEF Forget, Subscribers
  <2> QED
    BY <1>0, <1>7, <2>2, <2>3, ValuesStay
<1>8. ASSUME NEW k \in 0..Len(frames), Unwind(k) PROVE ValuesInv'
  <2> DEFINE left == {frames[i].who : i \in (k + 1)..Len(frames)}
             unfinished == {e \in left \cap Effects : status[e] = "first"}
  <2>1. /\ unfinished \in SUBSET Effects /\ Forget(unfinished) /\ UNCHANGED stale
        /\ Running' \subseteq Running
    BY <1>0, <1>8, RunningCut DEF Unwind, Unregister
  <2> HIDE DEF unfinished
  <2> QED
    BY <1>7, <2>1
<1>9. ASSUME NEW e \in Effects, NEW w \in Worlds \cup {None}, Spawn(e, w) PROVE ValuesInv'
  <2>1. Running' = Running \cup {e} /\ e \notin Computeds
    BY <1>0, <1>9, RunningPushed, ConstantFacts DEF Spawn, Frame, Subscribers, Facts
  <2> QED
    BY <1>0, <1>9, <2>1, ValuesStay DEF Spawn, ghosts
<1>10. ASSUME NEW e \in Effects, Dispose(e) PROVE ValuesInv'
  <2>1. {e} \in SUBSET Effects /\ Forget({e}) /\ UNCHANGED stale /\ Running' = Running
    BY <1>10 DEF Dispose, Unregister, Running
  <2> QED
    BY <1>7, <2>1
<1>11. ASSUME NEW e \in Effects, ReturnEffect(e) PROVE ValuesInv'
  <2>1. Running' \subseteq Running
    BY <1>0, <1>11, RunningPopped DEF ReturnEffect
  <2> QED
    BY <1>0, <1>11, <2>1, ValuesStay DEF ReturnEffect, ghosts
<1>12. ASSUME NEW w \in Worlds, FlushBegin(w) PROVE ValuesInv'
  <2>1. /\ Doomed(w) \in SUBSET Effects /\ Forget(Doomed(w)) /\ UNCHANGED stale
        /\ Running' = Running
    BY <1>12 DEF FlushBegin, Doomed, Running
  <2> QED
    BY <1>7, <2>1
<1>13. ASSUME NEW w \in Worlds, ReleaseWorld(w) PROVE ValuesInv'
  <2> DEFINE own == {e \in Effects : Live(e) /\ home[e] = w}
             Owned(x) == x \in Models \cup Computeds /\ OwnerOf[x] = w
  <2>1. /\ reads' = [x \in Subscribers |-> IF x \in own \/ Owned(x) THEN {} ELSE reads[x]]
        /\ behind' = {x \in behind : x \notin own /\ ~Owned(x)}
        /\ UNCHANGED stale /\ frames = << >> /\ frames' = << >>
    BY <1>13 DEF ReleaseWorld, Idle
  <2>2. Running = {} /\ Running' = {}
    BY <2>1 DEF Running
  <2>3. CachesCurrent' /\ RunningCurrent'
    BY <1>0, <2>1, <2>2 DEF ValuesInv, CachesCurrent, RunningCurrent
  <2>4. ASSUME NEW x \in Computeds, x \notin stale', NEW s \in reads'[x]
        PROVE  Covers(s, x)'
    <3>1. s \in reads[x] /\ OwnerOf[x] # w /\ x \in Subscribers
      BY <2>1, <2>4 DEF Subscribers
    <3>2. Covers(s, x)
      BY <1>0, <2>1, <2>4, <3>1 DEF ValuesInv, ComputedsCovered
    <3>3. x \notin Effects
      BY ConstantFacts DEF Facts
    <3> QED
      BY <1>13, <3>1, <3>2, <3>3, ReleaseKeepsCover
  <2> QED
    BY <2>2, <2>3, <2>4 DEF ValuesInv, ComputedsCovered
<1>14. ASSUME NEW e \in Effects, PopRun(e) PROVE ValuesInv'
  <2>1. /\ deps' = deps \ Column(e) /\ reads' = [reads EXCEPT ![e] = {}] /\ behind' = behind \ {e}
        /\ frames' = << [who |-> e, world |-> home[e]] >> /\ UNCHANGED stale
    BY <1>14 DEF PopRun
  <2>2. Running' = {e} /\ e \notin Computeds
    BY <2>1, ConstantFacts DEF Running, Facts
  <2>3. \A y : \A c \in Computeds : <<y, c>> \in deps => <<y, c>> \in deps'
    BY <2>1, <2>2 DEF Column
  <2>4. \A c \in Computeds : reads'[c] = reads[c]
    BY <1>0, <2>1, <2>2, ReadsTypes DEF Subscribers
  <2> QED
    BY <1>0, <2>1, <2>2, <2>3, <2>4, ValuesStay
<1>15. CASE \/ \E e \in Effects : PopForeign(e) \/ PopDisabled(e)
            \/ \E marked \in BOOLEAN : EndPass(marked)
            \/ \E g \in Gates : Conceal(g) \/ Reveal(g)
            \/ \E n \in Entities : Despawn(n)
  <2>1. UNCHANGED <<stale, deps, reads, behind, frames>>
    BY <1>15 DEF PopForeign, PopDisabled, EndPass, Conceal, Reveal, Despawn, ghosts
  <2> QED
    BY <1>0, <2>1, ValuesStay DEF Running
<1> QED
  BY <1>1, <1>2, <1>3, <1>4, <1>5, <1>6, <1>8, <1>9, <1>10, <1>11, <1>12, <1>13, <1>14, <1>15
  DEF Next, FlushLoop, FlushStep
-----------------------------------------------------------------------------
(***************************************************************************)
(* The effects, one at a time.                                             *)
(***************************************************************************)
Waits(e) == Live(e) /\ e \notin Queued /\ Enabled(e)

Wakeable(e) == Waits(e) => e \notin behind /\ \A s \in reads[e] : Covers(s, e)

LEMMA WakeParts == WakeInv <=> \A e \in Effects : Wakeable(e)
BY DEF WakeInv, EffectsCovered, NoLostUpdate, Wakeable, Waits

LEMMA WakePartsPrimed == WakeInv' <=> \A e \in Effects : Wakeable(e)'
BY DEF WakeInv, EffectsCovered, NoLostUpdate, Wakeable, Waits

\* The effect is not touched.
LEMMA WakeStays ==
  ASSUME NEW e \in Effects, Wakeable(e), Waits(e)' => Waits(e),
         reads'[e] \subseteq reads[e], e \in behind' => e \in behind,
         stale' \subseteq stale,
         \A y : \A c \in Computeds \ stale : <<y, c>> \in deps => <<y, c>> \in deps',
         Waits(e)' => \A y : <<y, e>> \in deps => <<y, e>> \in deps'
  PROVE  Wakeable(e)'
<1> SUFFICES ASSUME Waits(e)' PROVE e \notin behind' /\ \A s \in reads'[e] : Covers(s, e)'
  BY DEF Wakeable
<1>1. e \notin behind'
  BY DEF Wakeable
<1>2. ASSUME NEW s \in reads'[e] PROVE Covers(s, e)'
  <2>1. Covers(s, e)
    BY <1>2 DEF Wakeable
  <2> QED
    BY <2>1, CoverKept
<1> QED
  BY <1>1, <1>2

LEMMA WakePublish ==
  ASSUME IInv, NEW e \in Effects, Wakeable(e), NEW q \in Sources, Publish(q), UNCHANGED tree
  PROVE  Wakeable(e)'
<1>1. /\ stale' = stale \cup Dirtied(q) /\ later' = later \cup (Woken(q) \ batch)
      /\ behind' = behind \cup {x \in Subscribers : q \in reads[x]}
      /\ UNCHANGED <<status, deps, batch, reads, concealed, dead>>
  BY DEF Publish, tree
<1> SUFFICES ASSUME Waits(e)' PROVE e \notin behind' /\ \A s \in reads'[e] : Covers(s, e)'
  BY DEF Wakeable
<1>2. Waits(e) /\ e \notin Woken(q)
  BY <1>1 DEF Waits, Live, Enabled, Queued
<1>3. \A y \in {q} \cup Dirtied(q) : <<y, e>> \notin deps
  BY <1>2 DEF Woken
<1>4. q \notin reads[e]
  BY <1>2, <1>3 DEF Wakeable, Covers
<1>5. e \notin behind'
  BY <1>1, <1>2, <1>4 DEF Wakeable
<1>6. ASSUME NEW s \in reads'[e] PROVE Covers(s, e)'
  <2>1. Covers(s, e) /\ q \notin Computeds
    BY <1>1, <1>2, <1>6, ConstantFacts DEF Wakeable, Facts, Subscribers
  <2> QED
    BY <1>1, <1>3, <2>1, CoverBesides
<1> QED
  BY <1>5, <1>6

\* A model that no computed reads is retired.
LEMMA WakeRetire ==
  ASSUME IInv, RetirablesReadDirectly, NEW e \in Effects, Wakeable(e), NEW m \in Models, Retire(m)
  PROVE  Wakeable(e)'
<1>1. /\ m \in Retirable /\ stale' = stale \cup Dirtied(m) /\ deps' = {d \in deps : d[1] # m}
      /\ reads'[e] = reads[e] \ {m}
      /\ UNCHANGED <<status, queues, tree, behind>>
  BY DEF Retire, Subscribers
<1>2. Dirtied(m) = {}
  <2>1. \A c \in Computeds : <<m, c>> \notin deps
    BY <1>1, ConstantFacts DEF RetirablesReadDirectly, Facts
  <2> QED
    BY <2>1, ReachNothing, DirtiedIsReach
<1> SUFFICES ASSUME Waits(e)' PROVE e \notin behind' /\ \A s \in reads'[e] : Covers(s, e)'
  BY DEF Wakeable
<1>3. Waits(e)
  BY <1>1 DEF Waits, Live, Enabled, Queued, queues, tree
<1>4. ASSUME NEW s \in reads'[e] PROVE Covers(s, e)'
  <2>1. Covers(s, e) /\ s # m /\ m \notin Computeds
    BY <1>1, <1>3, <1>4, ConstantFacts DEF Wakeable, Facts, Sources, Subscribers
  <2>2. \A y, z : <<y, z>> \in deps /\ y # m => <<y, z>> \in deps'
    BY <1>1
  <2> QED
    BY <1>1, <1>2, <2>1, <2>2, CoverBesides
<1> QED
  BY <1>1, <1>3, <1>4 DEF Wakeable

\* The innermost closure comes to depend on y and on what the value of y came from.
LEMMA WakeRead ==
  ASSUME TypeOK, ValuesInv, NEW e \in Effects, Wakeable(e), Waits(e)' => Waits(e),
         frames # << >>, UNCHANGED stale, NEW y, NEW from, NEW x \in Subscribers,
         deps' = deps \cup {<<y, x>>},
         reads' = [reads EXCEPT ![x] = @ \cup from],
         behind' = behind,
         from = {y} \/ (y \in Computeds \ stale /\ from = reads[y])
  PROVE  Wakeable(e)'
<1>1. reads'[e] = IF e = x THEN reads[x] \cup from ELSE reads[e]
  BY ReadsTypes DEF Subscribers
<1>2. CASE e # x
  BY <1>1, <1>2, WakeStays
<1>3. CASE e = x
  <2> SUFFICES ASSUME Waits(e)' PROVE e \notin behind' /\ \A s \in reads'[e] : Covers(s, e)'
    BY DEF Wakeable
  <2>1. ASSUME NEW s \in reads[e] PROVE Covers(s, e)'
    <3>1. Covers(s, e)
      BY <2>1 DEF Wakeable
    <3> QED
      BY <3>1, CoverKept
  <2>2. ASSUME NEW s \in from PROVE Covers(s, e)'
    <3>1. CASE from = {y}
      BY <1>3, <2>2, <3>1 DEF Covers
    <3>2. CASE y \in Computeds \ stale /\ from = reads[y]
      <4>1. Covers(s, y)
        BY <2>2, <3>2 DEF ValuesInv, ComputedsCovered
      <4>2. Covers(s, y)'
        BY <4>1, CoverKept
      <4> QED
        BY <1>3, <3>2, <4>2, CoverThroughPrimed
    <3> QED
      BY <3>1, <3>2
  <2> QED
    BY <1>1, <1>3, <2>1, <2>2 DEF Wakeable
<1> QED
  BY <1>2, <1>3

\* A computed returns to the effect that asked for it.
LEMMA WakeReturn ==
  ASSUME IInv, ReadInv, NEW e \in Effects, Wakeable(e), ReturnComputed
  PROVE  Wakeable(e)'
<1>0. TypeOK /\ ValuesInv /\ Calls
  BY DEF IInv, ReadInv
<1> DEFINE n == Len(frames)
<1>1. PICK c \in Computeds : c = Top.who
  BY DEF ReturnComputed
<1>2. /\ frames # << >> /\ stale' = stale \ {c} /\ UNCHANGED <<deps, behind, status, queues, tree>>
      /\ reads' = IF n = 1 THEN reads ELSE [reads EXCEPT ![frames[n - 1].who] = @ \cup reads[c]]
  BY <1>1 DEF ReturnComputed
<1>3. n \in Nat \ {0} /\ DOMAIN frames = 1..n /\ Top = frames[n] /\ c \in Running
  BY <1>0, <1>1, <1>2, TopFrame
<1>4. Waits(e)' <=> Waits(e)
  BY <1>2 DEF Waits, Live, Enabled, Queued, queues, tree
<1>5. ASSUME NEW s, NEW x, Covers(s, x) PROVE Covers(s, x)'
  BY <1>2, <1>5, CoverKept
<1>6. ASSUME Waits(e), NEW s \in reads'[e] PROVE Covers(s, e)'
  <2>1. CASE s \in reads[e]
    BY <1>5, <1>6, <2>1 DEF Wakeable
  <2>2. CASE s \notin reads[e]
    <3>1. n # 1
      BY <1>2, <1>6, <2>2
    <3>2. n \in DOMAIN frames /\ n - 1 \in 1..n /\ n > 1
      BY <1>3, <3>1
    <3>3. frames[n - 1].who \in Subscribers
      <4>1. frames[n - 1] \in Frame
        BY <1>0, <3>2, ElementOfSeq DEF TypeOK
      <4> QED
        BY <4>1 DEF Frame
    <3>4. e = frames[n - 1].who /\ s \in reads[c]
      BY <1>0, <1>2, <1>6, <2>2, <3>1, <3>3, ReadsTypes DEF Subscribers
    <3>5. <<c, e>> \in deps
      BY <1>0, <1>1, <1>3, <1>6, <3>2, <3>4 DEF Calls, Waits
    <3>6. Covers(s, c)'
      BY <1>0, <1>3, <1>5, <3>4 DEF ValuesInv, ComputedsCovered
    <3> QED
      BY <1>2, <3>5, <3>6, CoverThroughPrimed
  <2> QED
    BY <2>1, <2>2
<1> QED
  BY <1>2, <1>4, <1>6 DEF Wakeable

LEMMA WakeForget ==
  ASSUME TypeOK, NEW e \in Effects, Wakeable(e), NEW E \in SUBSET Effects, Forget(E),
         UNCHANGED <<stale, tree>>, Queued \ E \subseteq Queued'
  PROVE  Wakeable(e)'
<1>1. /\ Live(e)' => Live(e) /\ e \notin E
      /\ reads'[e] \subseteq reads[e] /\ behind' \subseteq behind
  BY DEF Forget, Live, Subscribers
<1>2. Waits(e)' => Waits(e) /\ e \notin E
  BY <1>1 DEF Waits, Enabled, tree
<1>3. \A y, x : <<y, x>> \in deps /\ x \notin E => <<y, x>> \in deps'
  BY DEF Forget
<1>4. E \cap Computeds = {}
  BY ConstantFacts DEF Facts
<1> QED
  BY <1>1, <1>2, <1>3, <1>4, WakeStays

\* Behind the gate that opens nobody is left that could run.
LEMMA WakeReveal ==
  ASSUME IInv, NEW e \in Effects, Wakeable(e), NEW g \in Gates, Reveal(g)
  PROVE  Wakeable(e)'
<1>1. /\ concealed' = concealed \ {g} /\ later' = later \cup (Gated(g) \ batch)
      /\ UNCHANGED <<status, home, deps, stale, batch, dead, reads, behind>>
  BY DEF Reveal, ghosts
<1>2. Waits(e)' => Waits(e)
  <2> SUFFICES ASSUME Waits(e)' PROVE Waits(e)
    OBVIOUS
  <2>1. Live(e) /\ e \notin Queued /\ e \notin Gated(g) /\ EntityOf[e] \notin dead
    BY <1>1 DEF Waits, Live, Queued, Enabled
  <2>2. g \notin GatesOf[e]
    <3>1. g \in GatesOf[e] => EntityOf[e] # None
      BY BindingAssumption
    <3>2. EntityOf[e] # None => home[e] = OwnerOf[EntityOf[e]]
      BY <2>1 DEF IInv, HomesKept
    <3> QED
      BY <2>1, <3>1, <3>2 DEF Gated
  <2>3. GatesOf[e] \cap concealed = {}
    BY <1>1, <2>2 DEF Waits, Enabled
  <2> QED
    BY <2>1, <2>3 DEF Waits, Enabled
<1> QED
  BY <1>1, <1>2, WakeStays
LEMMA WakeStep ==
  ASSUME IInv, ReadInv, RetirablesReadDirectly, NEW e \in Effects, Wakeable(e), Next
  PROVE  Wakeable(e)'
<1>0. TypeOK /\ ValuesInv /\ Calls
  BY DEF IInv, ReadInv
<1>1. CASE \/ \E s \in Signals : SetSignal(s)
           \/ \E m \in Models : NotifyModel(m)
  <2>1. PICK q \in Sources : Publish(q) /\ UNCHANGED tree
    BY <1>1 DEF SetSignal, NotifyModel, Sources
  <2> QED
    BY <2>1, WakePublish
<1>2. CASE \E m \in Models : Retire(m)
  BY <1>2, WakeRetire
<1>3. CASE \/ \E s \in Signals : ReadSignal(s)
           \/ \E m \in Models : ReadModel(m)
  <2>1. PICK p \in Sources, o \in Worlds \cup {None} : Read(p, o)
    BY <1>3, OwnerAssumption DEF ReadSignal, ReadModel, Sources
  <2> DEFINE from == {p}
  <2>2. /\ frames # << >> /\ UNCHANGED <<stale, behind>>
        /\ deps' = deps \cup {<<p, Top.who>>}
        /\ reads' = [reads EXCEPT ![Top.who] = @ \cup from]
    BY <2>1 DEF Read, Tracks
  <2>3. Waits(e)' => Waits(e)
    BY <2>1 DEF Read, Waits, Live, Queued, Enabled, queues, tree
  <2>4. Top.who \in Subscribers
    BY <1>0, <2>2, TopFrame
  <2> HIDE DEF from
  <2>5. from = {p}
    BY DEF from
  <2> QED
    BY <1>0, <2>2, <2>3, <2>4, <2>5, WakeRead
<1>4. ASSUME NEW c \in Computeds, GetCached(c) PROVE Wakeable(e)'
  <2> DEFINE from == reads[c]
  <2>1. /\ frames # << >> /\ UNCHANGED stale /\ c \notin stale
        /\ deps' = deps \cup {<<c, Top.who>>}
        /\ reads' = [reads EXCEPT ![Top.who] = @ \cup from]
    BY <1>4 DEF GetCached, Tracks, Subscription
  <2>2. behind' = behind
    BY <1>0, <1>4 DEF GetCached, ValuesInv, CachesCurrent
  <2>3. Waits(e)' => Waits(e)
    BY <1>4 DEF GetCached, Waits, Live, Queued, Enabled, queues, tree
  <2>4. Top.who \in Subscribers
    BY <1>0, <2>1, TopFrame
  <2>5. c \in Computeds \ stale /\ from = reads[c]
    BY <2>1
  <2> HIDE DEF from
  <2> QED
    BY <1>0, <2>1, <2>2, <2>3, <2>4, <2>5, WakeRead
<1>5. ASSUME NEW c \in Computeds, Evaluate(c) PROVE Wakeable(e)'
  <2>1. /\ c \in stale /\ stale' = stale /\ behind' \subseteq behind
        /\ deps' = (deps \cup Subscription(c)) \ Column(c)
        /\ reads' = [reads EXCEPT ![c] = {}]
        /\ UNCHANGED <<status, queues, tree>>
    BY <1>5 DEF Evaluate
  <2>2. e # c /\ reads'[e] = reads[e]
    BY <1>0, <2>1, ReadsTypes, ConstantFacts DEF Facts, Subscribers
  <2>3. \A y, z : <<y, z>> \in deps /\ z # c => <<y, z>> \in deps'
    BY <2>1 DEF Column
  <2>4. Waits(e)' => Waits(e)
    BY <2>1 DEF Waits, Live, Queued, Enabled, queues, tree
  <2> QED
    BY <2>1, <2>2, <2>3, <2>4, WakeStays
<1>6. CASE ReturnComputed
  BY <1>6, WakeReturn
<1>7. ASSUME NEW k \in 0..Len(frames), Unwind(k) PROVE Wakeable(e)'
  <2> DEFINE left == {frames[i].who : i \in (k + 1)..Len(frames)}
             unfinished == {d \in left \cap Effects : status[d] = "first"}
  <2>1. Forget(unfinished) /\ unfinished \in SUBSET Effects /\ UNCHANGED <<stale, tree>>
    BY <1>7 DEF Unwind, Unregister
  <2>2. Queued \ unfinished \subseteq Queued'
    <3>1. CASE k > 0 \/ flushing = None
      BY <1>7, <3>1 DEF Unwind, Unregister, Queued
    <3>2. CASE ~(k > 0 \/ flushing = None)
      BY <1>7, <3>2 DEF Unwind, Queued
    <3> QED
      BY <3>1, <3>2
  <2> HIDE DEF unfinished
  <2> QED
    BY <1>0, <2>1, <2>2, WakeForget
<1>8. ASSUME NEW d \in Effects, NEW w \in Worlds \cup {None}, Spawn(d, w) PROVE Wakeable(e)'
  <2>1. /\ status[d] = "new" /\ status' = [status EXCEPT ![d] = "first"]
        /\ UNCHANGED <<deps, stale, queues, tree, reads, behind>>
    BY <1>8 DEF Spawn, ghosts
  <2>2. CASE e = d
    BY <2>1, <2>2 DEF ReadInv, NewUntouched, Wakeable
  <2>3. CASE e # d
    <3>1. Waits(e)' => Waits(e)
      BY <1>0, <2>1, <2>3 DEF TypeOK, Waits, Live, Queued, Enabled, queues, tree
    <3> QED
      BY <2>1, <3>1, WakeStays
  <2> QED
    BY <2>2, <2>3
<1>9. ASSUME NEW d \in Effects, Dispose(d) PROVE Wakeable(e)'
  <2>1. /\ {d} \in SUBSET Effects /\ Forget({d}) /\ UNCHANGED <<stale, tree>>
        /\ Queued \ {d} \subseteq Queued'
    BY <1>9 DEF Dispose, Unregister, Queued
  <2> QED
    BY <1>0, <2>1, WakeForget
<1>10. ASSUME NEW d \in Effects, ReturnEffect(d) PROVE Wakeable(e)'
  <2>1. UNCHANGED <<deps, stale, queues, tree, reads, behind>> /\ (Live(e)' => Live(e))
    BY <1>0, <1>10 DEF ReturnEffect, ghosts, TypeOK, Live
  <2>2. Waits(e)' => Waits(e)
    BY <2>1 DEF Waits, Queued, Enabled, queues, tree
  <2> QED
    BY <2>1, <2>2, WakeStays
<1>11. ASSUME NEW w \in Worlds, FlushBegin(w) PROVE Wakeable(e)'
  <2>1. batch = {}
    BY <1>0, <1>11 DEF FlushBegin, Idle, TypeOK
  <2>2. /\ Doomed(w) \in SUBSET Effects /\ Forget(Doomed(w)) /\ UNCHANGED <<stale, tree>>
        /\ Queued \ Doomed(w) \subseteq Queued'
    BY <1>11, <2>1 DEF FlushBegin, Queued, Doomed
  <2> QED
    BY <1>0, <2>2, WakeForget
<1>12. ASSUME NEW w \in Worlds, ReleaseWorld(w) PROVE Wakeable(e)'
  <2> DEFINE own == {d \in Effects : Live(d) /\ home[d] = w}
  <2>1. /\ Live(e)' => Live(e) /\ home[e] # w
        /\ e \notin own => (e \in Queued => e \in Queued')
        /\ UNCHANGED tree /\ reads'[e] \subseteq reads[e] /\ behind' \subseteq behind
    BY <1>12 DEF ReleaseWorld, Live, Queued, Subscribers
  <2>2. Waits(e)' => Waits(e) /\ home[e] # w
    BY <2>1 DEF Waits, Enabled, tree
  <2>3. ASSUME Waits(e)', NEW s \in reads'[e] PROVE Covers(s, e)'
    <3>1. Covers(s, e) /\ home[e] # w /\ e \in Subscribers /\ e \notin Computeds
      BY <2>1, <2>2, <2>3, ConstantFacts DEF Wakeable, Subscribers, Facts
    <3> QED
      BY <1>12, <3>1, ReleaseKeepsCover
  <2> QED
    BY <2>1, <2>2, <2>3 DEF Wakeable
<1>13. ASSUME NEW d \in Effects, PopForeign(d) \/ PopDisabled(d) PROVE Wakeable(e)'
  <2>1. /\ UNCHANGED <<status, deps, stale, tree, reads, behind>>
        /\ Queued \subseteq Queued' \/ (~Enabled(d) /\ Queued \ {d} \subseteq Queued')
    BY <1>13 DEF PopForeign, PopDisabled, Pop, Queued, ghosts
  <2>2. Waits(e)' => Waits(e)
    BY <2>1 DEF Waits, Live, Enabled, tree
  <2> QED
    BY <2>1, <2>2, WakeStays
<1>14. ASSUME NEW d \in Effects, PopRun(d) PROVE Wakeable(e)'
  <2>1. /\ UNCHANGED <<status, stale, tree>> /\ deps' = deps \ Column(d)
        /\ reads' = [reads EXCEPT ![d] = {}] /\ behind' = behind \ {d}
        /\ Queued \ {d} \subseteq Queued'
    BY <1>14 DEF PopRun, Pop, Queued
  <2>2. reads'[e] = IF e = d THEN {} ELSE reads[e]
    BY <1>0, <2>1, ReadsTypes DEF Subscribers
  <2>3. CASE e = d
    BY <2>1, <2>2, <2>3 DEF Wakeable
  <2>4. CASE e # d
    <3>1. Waits(e)' => Waits(e)
      BY <2>1, <2>4 DEF Waits, Live, Enabled, tree
    <3>2. \A y, z : <<y, z>> \in deps /\ z # d => <<y, z>> \in deps'
      BY <2>1 DEF Column
    <3>3. d \notin Computeds
      BY ConstantFacts DEF Facts
    <3> QED
      BY <2>1, <2>2, <2>4, <3>1, <3>2, <3>3, WakeStays
  <2> QED
    BY <2>3, <2>4
<1>15. CASE \/ \E marked \in BOOLEAN : EndPass(marked)
            \/ \E g \in Gates : Conceal(g)
            \/ \E n \in Entities : Despawn(n)
  <2>1. UNCHANGED <<status, deps, stale, reads, behind>> /\ Queued' = Queued
    BY <1>15 DEF EndPass, PassOver, Conceal, Despawn, Queued, queues, ghosts
  <2>2. Enabled(e)' => Enabled(e)
    BY <1>15 DEF EndPass, Conceal, Despawn, Enabled, tree
  <2>3. Waits(e)' => Waits(e)
    BY <2>1, <2>2 DEF Waits, Live
  <2> QED
    BY <2>1, <2>3, WakeStays
<1>16. CASE \E g \in Gates : Reveal(g)
  BY <1>16, WakeReveal
<1> QED
  BY <1>1, <1>2, <1>3, <1>4, <1>5, <1>6, <1>7, <1>8, <1>9, <1>10, <1>11, <1>12, <1>13, <1>14,
     <1>15, <1>16
  DEF Next, FlushLoop, FlushStep

-----------------------------------------------------------------------------
(***************************************************************************)
(* The theorems.                                                           *)
(***************************************************************************)
LEMMA StutterValues ==
  ASSUME UNCHANGED vars
  PROVE  (ReadInv => ReadInv') /\ (WakeInv => WakeInv')
<1>1. UNCHANGED <<status, deps, stale, batch, later, frames, concealed, dead, reads, behind>>
  BY DEF vars, queues, tree, ghosts
<1>2. \A s : Dirtied(s)' = Dirtied(s)
  BY <1>1, DirtiedIsReach, DirtiedIsReachPrimed
<1>3. \A s, x : Covers(s, x)' <=> Covers(s, x)
  BY <1>1, <1>2 DEF Covers
<1>4. ReadInv => ReadInv'
  BY <1>1, <1>3 DEF ReadInv, ValuesInv, Calls, NewUntouched, CachesCurrent, RunningCurrent, ComputedsCovered, Live, Running
<1>5. WakeInv => WakeInv'
  BY <1>1, <1>3 DEF WakeInv, EffectsCovered, NoLostUpdate, Live, Queued, Enabled
<1> QED
  BY <1>4, <1>5

LEMMA ReadStep ==
  ASSUME IInv, ReadInv, [Next]_vars
  PROVE  ReadInv'
<1>1. CASE UNCHANGED vars
  BY <1>1, StutterValues
<1>2. CASE Next
  BY <1>2, CallsStep, NewStep, ValuesStep DEF ReadInv
<1> QED
  BY <1>1, <1>2

LEMMA WakesStep ==
  ASSUME IInv, ReadInv, RetirablesReadDirectly, WakeInv, [Next]_vars
  PROVE  WakeInv'
<1>1. CASE UNCHANGED vars
  BY <1>1, StutterValues
<1>2. CASE Next
  BY <1>2, WakeStep, WakeParts, WakePartsPrimed
<1> QED
  BY <1>1, <1>2

\* What the invariant says of reads holds in every state.
THEOREM ReadsCovered == Spec => []ReadInv
BY Inductive, InitRead, ReadStep, PTL DEF Spec

\* A computed that missed a write is dirty: Computed::get evaluates it again
\* (mark_computed_dirty, core/reactive/mod.rs).
THEOREM CachesStayCurrent == Spec => []CachesCurrent
<1>1. ReadInv => CachesCurrent
  BY DEF ReadInv, ValuesInv
<1> QED
  BY ReadsCovered, <1>1, PTL

\* As long as no computed reads a model that may be retired, an effect that missed
\* a write is queued, or a gate that queues it when it opens is closed
\* (publish_graph_source, ModelSource::retire, retained::wake).
THEOREM UpdatesKept == Spec /\ []RetirablesReadDirectly => []NoLostUpdate
<1>1. WakeInv => NoLostUpdate
  BY DEF WakeInv
<1>2. Init => WakeInv
  BY InitRead
<1> QED
  BY Inductive, ReadsCovered, <1>1, <1>2, WakesStep, PTL DEF Spec
=============================================================================
