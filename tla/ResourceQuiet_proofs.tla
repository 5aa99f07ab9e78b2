----------------------- MODULE ResourceQuiet_proofs -----------------------
(***************************************************************************)
(* What ResourceManager promises when callbacks leave it alone, or, for    *)
(* handles and loads, when no loader probes.                               *)
(***************************************************************************)
EXTENDS ResourceManager_proofs

-----------------------------------------------------------------------------
(***************************************************************************)
(* What is shown and what is asked for, when no probe is disturbed.        *)
(***************************************************************************)
\* Either no loader probes, or callbacks leave the manager alone.
Quiet == Probing = {} \/ ~Reentrant

\* Nobody asks for the token of a probe as long as the loaders look at it: the load
\* would join the probe's request and be lost when that is answered.
ProbeAlone(f, R) ==
  f.op = "call" /\ f.by # "slot" /\ f.call.probe
    /\ R[TokenOf(f)] # None /\ R[TokenOf(f)].gen = GenOf(f) => ~R[TokenOf(f)].load
AloneInv == \A i \in DOMAIN frames : ProbeAlone(frames[i], request)

NoProbe(c) == Waits(c) => ~c.probe
NoProbes ==
  /\ \A l \in Loaders, s \in Slots : NoProbe(slots[l][s])
  /\ \A i \in DOMAIN frames : frames[i].op = "call" => ~frames[i].call.probe

\* A load of token t was asked for, or failed, when F failed and R are the requests.
Due(t, F, R) == t \in F \/ (R[t] # None /\ R[t].load)

\* What a handle shows, and what the callback of frame f may tell its handle: the
\* answer to whoever asked since the last change is the fallback still.
Shows(x, V, F, R) ==
  x # None /\ x.shown # None =>
    /\ V[x.token] # None => x.shown = V[x.token]
    /\ x.shown = Fallback => Due(x.token, F, R)
Promises(f, V, F, R) ==
  f.op # "poll" /\ f.fresh => V[TokenOf(f)] = None /\ Due(TokenOf(f), F, R)

ShowInv ==
  /\ \A h \in Handles : Shows(handles[h], value, failed, request)
  /\ \A i \in DOMAIN frames : Promises(frames[i], value, failed, request)

\* Frame i of the stack was there before the step, and nobody asks it again.
Root(stack, other, i) ==
  /\ i \in DOMAIN stack /\ Alike(stack[i], other[i])
  /\ other[i].op # "poll" /\ other[i].fresh => stack[i].fresh
Rooted(stack, other) == \A i \in DOMAIN other : Root(stack, other, i)
RootedBut(stack, other, f) == \A i \in DOMAIN other : Root(stack, other, i) \/ other[i] = f

LEMMA StackRoots ==
  ASSUME TypeInv
  PROVE  /\ Rooted(frames, frames) /\ Rooted(frames, Aged(frames))
         /\ frames # << >> => Rooted(frames, Callers) /\ Rooted(frames, Aged(Callers))
<1>1. frames \in Seq(Frame)
  BY Typed
<1>2. \A f : Alike(f, f)
  BY DEF Alike
<1>3. Rooted(frames, frames)
  BY <1>2 DEF Rooted, Root
<1>4. ASSUME NEW stack \in Seq(Frame), Rooted(frames, stack) PROVE Rooted(frames, Aged(stack))
  <2>1. PICK other : other = Aged(stack)
    OBVIOUS
  <2>2. /\ DOMAIN other = DOMAIN stack
        /\ \A i \in DOMAIN stack : Alike(stack[i], other[i])
        /\ \A i \in DOMAIN stack : stack[i].op # "poll" => ~other[i].fresh
    BY <2>1, AgedFacts DEF StacksAlike
  <2>3. ASSUME NEW i \in DOMAIN other PROVE Root(frames, other, i)
    <3>1. i \in DOMAIN frames /\ Alike(frames[i], stack[i]) /\ Alike(stack[i], other[i])
      BY <1>4, <2>2, <2>3 DEF Rooted, Root
    <3>2. Alike(frames[i], other[i])
      BY <3>1 DEF Alike
    <3>3. other[i].op # "poll" => ~other[i].fresh
      BY <2>2, <2>3, <3>1 DEF Alike
    <3> QED BY <3>1, <3>2, <3>3 DEF Root
  <2> QED BY <2>1, <2>3 DEF Rooted
<1>5. ASSUME frames # << >> PROVE Rooted(frames, Callers) /\ Callers \in Seq(Frame)
  <2>1. PICK less : less = Callers
    OBVIOUS
  <2>2. /\ less \in Seq(Frame) /\ Len(less) = Len(frames) - 1
        /\ \A i \in DOMAIN less : less[i] = frames[i]
    BY <1>1, <1>5, <2>1, Popped DEF Callers
  <2>3. DOMAIN less \subseteq DOMAIN frames
    BY <1>1, <2>2
  <2>4. Rooted(frames, less)
    BY <1>2, <2>2, <2>3 DEF Rooted, Root
  <2> QED BY <2>1, <2>2, <2>4
<1> QED BY <1>1, <1>3, <1>4, <1>5

LEMMA PushedRoots ==
  ASSUME NEW stack, NEW other \in Seq(Frame), Rooted(stack, other), NEW f \in Frame
  PROVE  RootedBut(stack, Append(other, f), f)
<1>1. PICK more : more = Append(other, f)
  OBVIOUS
<1>2. /\ more[Len(more)] = f /\ DOMAIN more = DOMAIN other \cup {Len(more)}
      /\ \A i \in DOMAIN other : more[i] = other[i]
  BY <1>1, Pushed
<1>3. ASSUME NEW i \in DOMAIN more PROVE Root(stack, more, i) \/ more[i] = f
  BY <1>2 DEF Rooted, Root
<1> QED BY <1>1, <1>3 DEF RootedBut

\* The frames after every step but those of poll_pending itself: what was there, and
\* at most one callback that begins.
LEMMA CalledRoots ==
  ASSUME TypeInv, NEW f \in Frame, frames' = Append(frames, f)
  PROVE  RootedBut(frames, frames', f)
<1>1. Rooted(frames, frames) /\ frames \in Seq(Frame)
  BY StackRoots, Typed
<1>2. RootedBut(frames, Append(frames, f), f)
  BY <1>1, PushedRoots
<1> QED BY <1>2

LEMMA NextCalledRoots ==
  ASSUME TypeInv, frames # << >>, NEW f \in Frame, frames' = Append(Callers, f)
  PROVE  RootedBut(frames, frames', f)
<1>1. Rooted(frames, Callers) /\ Callers \in Seq(Frame)
  BY StackRoots, Typed, Popped DEF Callers
<1>2. RootedBut(frames, Append(Callers, f), f)
  BY <1>1, PushedRoots
<1> QED BY <1>2

LEMMA WakeRunningRoots ==
  ASSUME TypeInv, NEW i \in DOMAIN frames, WakeRunning(i)
  PROVE  Rooted(frames, frames')
<1>1. /\ StacksAlike(frames, frames')
      /\ \A j \in DOMAIN frames : frames[j].op # "poll" => frames'[j].fresh = frames[j].fresh
  BY WakeRunningFacts
<1> QED BY <1>1 DEF Rooted, Root, StacksAlike, Alike

\* A request is the one it was, and nobody wants more of it.
Eases(t) ==
  request'[t] # None =>
    /\ request[t] # None /\ request'[t].gen = request[t].gen
    /\ request'[t].load => request[t].load

LEMMA AloneStays ==
  ASSUME TypeInv, AloneInv, \A t \in Tokens : Eases(t),
         NEW f, RootedBut(frames, frames', f), ProbeAlone(f, request')
  PROVE  AloneInv'
<1> SUFFICES ASSUME NEW i \in DOMAIN frames' PROVE ProbeAlone(frames'[i], request')
  BY DEF AloneInv
<1> SUFFICES ASSUME Root(frames, frames', i) PROVE ProbeAlone(frames'[i], request')
  BY DEF RootedBut
<1>1. PICK g, h : g = frames[i] /\ h = frames'[i]
  OBVIOUS
<1>2. /\ Alike(g, h) /\ ProbeAlone(g, request) /\ g \in Frame
  BY <1>1, Typed DEF Root, AloneInv
<1>3. PICK t : t = TokenOf(g)
  OBVIOUS
<1>4. g.op = "call" => t \in Tokens /\ Eases(t)
  BY <1>2, <1>3, FrameTypes
<1>5. g.op = "call" => g.op = h.op /\ TokenOf(h) = t /\ GenOf(h) = GenOf(g) /\ h.by = g.by
                       /\ h.call.probe = g.call.probe
  BY <1>2, <1>3 DEF Alike
<1>6. h.op = g.op
  BY <1>2 DEF Alike
<1>7. ProbeAlone(h, request')
  BY <1>2, <1>3, <1>4, <1>5, <1>6 DEF ProbeAlone, Eases
<1> QED BY <1>1, <1>7

LEMMA AloneStaysRooted ==
  ASSUME TypeInv, AloneInv, \A t \in Tokens : Eases(t), Rooted(frames, frames')
  PROVE  AloneInv'
<1>1. PICK f : f = [op |-> "poll"]
  OBVIOUS
<1>2. ProbeAlone(f, request')
  BY <1>1 DEF ProbeAlone
<1>3. RootedBut(frames, frames', f)
  BY DEF Rooted, RootedBut
<1> QED BY <1>2, <1>3, AloneStays

\* When callbacks leave the manager alone, nothing runs when the manager is used.
LEMMA ActsAlone ==
  ASSUME TypeInv, ~Reentrant, MayAct
  PROVE  /\ frames = << >> /\ Aged(frames) = << >>
         /\ \A f \in Frame : frames' = Append(frames, f) => \A i \in DOMAIN frames' : frames'[i] = f
<1>1. frames = << >>
  BY DEF MayAct
<1>2. Aged(frames) = << >>
  BY <1>1 DEF Aged
<1> QED BY <1>1, <1>2

\* The poll goes on to the next slot, with or without a call for this one.
SlotVisited(g, h) ==
  /\ frames' = <<g>> \/ frames' = <<g, h>>
  /\ g.op = "poll" /\ h.op = "call" /\ h.by = "slot" /\ h.handle = None /\ ~h.fresh /\ h.held = << >>

LEMMA PollSlotFrames ==
  ASSUME TypeInv, PollSlot
  PROVE  \E g, h : SlotVisited(g, h)
<1>1. PICK f \in PollFrame, g \in PollFrame, l \in Loaders, s \in Slots :
        /\ f.op = "poll" /\ frames = <<f>> /\ l = f.loader /\ s = f.slot /\ g = Advanced(f)
        /\ slots[l][s] # Leased /\ slots[l][s] \in CallState
        /\ \/ /\ ~Waits(slots[l][s])
              /\ slots' = slots /\ frames' = <<g>>
           \/ /\ Waits(slots[l][s]) /\ ~slots[l][s].ready
              /\ slots' = WithCall(slots, l, s, Visited(slots[l][s])) /\ frames' = <<g>>
           \/ /\ Waits(slots[l][s]) /\ slots[l][s].ready
              /\ ~Current(slots[l][s].token, slots[l][s].gen)
              /\ slots' = WithCall(slots, l, s, Free) /\ frames' = <<g>>
           \/ /\ Waits(slots[l][s]) /\ slots[l][s].ready
              /\ Current(slots[l][s].token, slots[l][s].gen)
              /\ slots' = WithCall(slots, l, s, Leased)
              /\ frames' = << g, Call("slot", Visited(slots[l][s]), l, None, FALSE, << >>) >>
  BY PollSlotFacts
<1>2. PICK h : h = Call("slot", Visited(slots[l][s]), l, None, FALSE, << >>)
  OBVIOUS
<1>3. h.op = "call" /\ h.by = "slot" /\ h.handle = None /\ ~h.fresh /\ h.held = << >>
  BY <1>2 DEF Call
<1>4. g.op = "poll" /\ (frames' = <<g>> \/ frames' = <<g, h>>)
  BY <1>1, <1>2 DEF PollFrame
<1> QED BY <1>3, <1>4 DEF SlotVisited

LEMMA QuietAlone ==
  ASSUME TypeInv, TypeInv', AloneInv, ~Reentrant, [Next]_vars
  PROVE  AloneInv'
<1>0. ASSUME MayAct, frames' = frames \/ frames' = Aged(frames) PROVE AloneInv'
  <2>1. DOMAIN frames' = {}
    BY <1>0, ActsAlone
  <2> QED BY <2>1 DEF AloneInv
<1>1. ASSUME MayAct, NEW f \in Frame, frames' = Append(frames, f), ProbeAlone(f, request')
      PROVE  AloneInv'
  <2>1. \A i \in DOMAIN frames' : frames'[i] = f
    BY <1>1, ActsAlone
  <2> QED BY <1>1, <2>1 DEF AloneInv
<1>2. ASSUME request' = request, Rooted(frames, frames') PROVE AloneInv'
  <2>1. \A t \in Tokens : Eases(t)
    BY <1>2 DEF Eases
  <2> QED BY <1>2, <2>1, AloneStaysRooted
<1>3. ASSUME NEW t \in Tokens, NEW kind \in Offered, Register(t, kind) PROVE AloneInv'
  BY <1>0, <1>3 DEF Register
<1>4. ASSUME NEW t \in Tokens, ClearFailed(t) \/ Reload(t) \/ ProbeCompleted(t) PROVE AloneInv'
  BY <1>0, <1>4 DEF ClearFailed, Reload, ProbeCompleted
<1>5. ASSUME NEW t \in Tokens, NEW h, Asks(h, t), NEW detached \in BOOLEAN, Resolve(t, detached, h)
      PROVE  AloneInv'
  <2>1. CASE ResolveAtOnce(t, h) \/ ResolveStatic(t, h) \/ ResolveJoin(t, detached, h) \/ ResolveUnserved(t, h)
    BY <1>0, <2>1 DEF ResolveAtOnce, ResolveStatic, ResolveJoin, ResolveUnserved
  <2>2. CASE ResolveFactory(t, detached, h)
    <3>1. PICK f : f = [op |-> "factory", token |-> t, gen |-> nextRequest + 1, age |-> age[t],
                        handle |-> h, fresh |-> h # None]
      OBVIOUS
    <3>2. frames' = Append(frames, f) /\ MayAct
      BY <2>2, <3>1 DEF ResolveFactory, MayCall
    <3>3. f.op = "factory"
      BY <3>1
    <3>4. \A i \in DOMAIN frames' : frames'[i] = f
      BY <3>2, ActsAlone
    <3> QED BY <3>3, <3>4 DEF AloneInv, ProbeAlone
  <2>3. CASE ResolveChain(t, detached, h)
    <3>1. PICK l \in Loaders, s \in Slots : \E f : Chained(t, "resolve", h, l, s, f)
      BY <1>5, <2>3, ResolveChainTyped
    <3>2. PICK f : Chained(t, "resolve", h, l, s, f)
      BY <3>1
    <3>3. f \in Frame /\ f.op = "call" /\ f.by = "resolve" /\ frames' = Append(frames, f) /\ MayAct
      BY <2>3, <3>2 DEF Chained, ResolveChain, MayCall
    <3>4. \A i \in DOMAIN frames' : frames'[i] = f
      BY <3>3, ActsAlone
    <3>5. \A i \in DOMAIN frames' : frames'[i].op = "call" => CallSound(frames'[i])
      BY DEF TypeInv, StackSound, FrameSound
    <3>6. \A i \in DOMAIN frames' : ~frames'[i].call.probe
      BY <3>3, <3>4, <3>5 DEF CallSound
    <3> QED BY <3>6 DEF AloneInv, ProbeAlone
  <2> QED BY <1>5, <2>1, <2>2, <2>3 DEF Resolve
<1>6. ASSUME NEW t \in Tokens, NEW detached \in BOOLEAN, ProbeJoin(t, detached) \/ ProbeAtOnce(t, detached)
      PROVE  AloneInv'
  BY <1>0, <1>6 DEF ProbeJoin, ProbeAtOnce, MayProbe
<1>7. ASSUME NEW t \in Tokens, NEW detached \in BOOLEAN, ProbeChain(t, detached) PROVE AloneInv'
  <2>1. PICK l \in Loaders, s \in Slots : \E f : Chained(t, "probe", None, l, s, f)
    BY <1>7, ProbeChainTyped
  <2>2. PICK f : Chained(t, "probe", None, l, s, f)
    BY <2>1
  <2>3. PICK no \in BOOLEAN : no = FALSE
    OBVIOUS
  <2>4. Begin(t, no, detached)
    BY <1>7, <2>3 DEF ProbeChain
  <2>5. ~request'[t].load
    BY <2>3, <2>4, BeginFacts
  <2>6. ProbeAlone(f, request')
    BY <2>2, <2>5 DEF ProbeAlone, Chained
  <2>7. f \in Frame /\ frames' = Append(frames, f) /\ MayAct
    BY <1>7, <2>2 DEF Chained, ProbeChain, MayProbe
  <2> QED BY <1>1, <2>6, <2>7
<1>8. ASSUME NEW h \in Handles, \/ \E t \in Tokens : Load(h, t)
                                \/ \E copy \in Handles : CloneHandle(h, copy)
                                \/ DropHandle(h)
      PROVE  AloneInv'
  BY <1>0, <1>8 DEF Load, CloneHandle, DropHandle
<1>9. ASSUME NEW t \in Tokens, PollQueued(t) PROVE AloneInv'
  <2>1. /\ request[t] # None
        /\ \/ /\ request' = WithRequest(request, t, None) /\ slots' = slots /\ frames' = frames
           \/ \E l \in Loaders, s \in Slots : \E f : Dequeued(t, l, s, f)
    BY <1>9, PollQueuedTyped
  <2>2. CASE request' = WithRequest(request, t, None) /\ slots' = slots /\ frames' = frames
    <3>1. \A u \in Tokens : Eases(u)
      BY <2>2, Forgotten DEF Eases
    <3> QED BY <2>2, <3>1, StackRoots, AloneStaysRooted
  <2>3. ASSUME NEW l \in Loaders, NEW s \in Slots, NEW f, Dequeued(t, l, s, f) PROVE AloneInv'
    <3>1. /\ f \in Frame /\ f.op = "call" /\ f.by = "queued" /\ frames' = Append(frames, f)
          /\ request'[t].gen = request[t].gen /\ request'[t].load = request[t].load
          /\ \A u \in Tokens : u # t => request'[u] = request[u]
      BY <2>3 DEF Dequeued
    <3>2. \A u \in Tokens : Eases(u)
      BY <2>1, <3>1 DEF Eases
    <3>3. RootedBut(frames, frames', f)
      BY <3>1, CalledRoots
    <3>4. PICK n : n = Len(frames')
      OBVIOUS
    <3>5. n \in DOMAIN frames' /\ frames'[n] = f
      BY <3>1, <3>4, Typed
    <3>6. CallSound(f)
      BY <3>1, <3>5 DEF TypeInv, StackSound, FrameSound
    <3>7. ProbeAlone(f, request')
      BY <3>1, <3>6 DEF CallSound, ProbeAlone
    <3> QED BY <3>2, <3>3, <3>7, AloneStays
  <2> QED BY <2>1, <2>2, <2>3
<1>10. ASSUME NEW ok \in BOOLEAN, FactoryReturns(ok) PROVE AloneInv'
  <2>1. PICK f : f = Top
    OBVIOUS
  <2>2. /\ frames # << >> /\ f.op = "factory"
        /\ request' = request \/ request' = WithRequest(request, f.token, None)
        /\ frames' = Callers \/ frames' = Aged(Callers)
    BY <1>10, <2>1 DEF FactoryReturns, WithRequest
  <2>3. f.token \in Tokens
    BY <2>1, <2>2, Typed, StackPopped, FrameTypes DEF TypeInv, Top, TokenOf
  <2>4. \A u \in Tokens : Eases(u)
    BY <2>2, <2>3, Forgotten DEF Eases
  <2>5. Rooted(frames, frames')
    BY <2>2, StackRoots
  <2> QED BY <2>4, <2>5, AloneStaysRooted
<1>11. CASE PollBegin \/ PollSlot \/ PollEnd
  <2>1. ASSUME NEW i \in DOMAIN frames', frames'[i].op = "call" PROVE frames'[i].by = "slot"
    <3>1. CASE PollBegin
      BY <2>1, <3>1 DEF PollBegin
    <3>2. CASE PollEnd
      BY <2>1, <3>2 DEF PollEnd
    <3>3. CASE PollSlot
      <4>1. PICK g, h : SlotVisited(g, h)
        BY <3>3, PollSlotFrames
      <4> QED BY <2>1, <4>1 DEF SlotVisited
    <3> QED BY <1>11, <3>1, <3>2, <3>3
  <2> QED BY <2>1 DEF AloneInv, ProbeAlone
<1>12. CASE Return
  <2>1. PICK f : f = Top
    OBVIOUS
  <2>2. Calling
    BY <1>12 DEF Return, ReturnStale, ReturnPending, ReturnValue, ReturnMeta, ReturnMetaWanted,
                 ReturnNotMine, ReturnError, Ongoing
  <2>3. CASE ReturnNotMine
    <3>1. PICK l \in Loaders, s \in Slots, x \in Slots : \E S, h, probe : NotMine(f, S, x, l, s, h, probe)
      BY <2>1, <2>3, NotMineFacts
    <3>2. PICK S, h, probe : NotMine(f, S, x, l, s, h, probe)
      BY <3>1
    <3>3. request' = request
      BY <2>3 DEF ReturnNotMine
    <3>4. /\ h \in Frame /\ h.op = "call" /\ frames' = Append(Callers, h)
          /\ TokenOf(h) = TokenOf(f) /\ GenOf(h) = GenOf(f)
          /\ h.call.probe => f.call.probe /\ (f.by = "slot" => ~request[TokenOf(f)].load)
      BY <2>1, <2>2, <3>2, CallTop DEF NotMine, TokenOf, GenOf, ProbeOnly
    <3>5. f.op = "call" /\ ProbeAlone(f, request)
      <4>1. frames # << >> /\ frames \in Seq(Frame) /\ f.op = "call"
        BY <2>1, <2>2, CallTop, Typed
      <4>2. f = frames[Len(frames)] /\ Len(frames) \in DOMAIN frames
        BY <2>1, <4>1, Popped DEF Top
      <4> QED BY <4>1, <4>2 DEF AloneInv
    <3>6. ProbeAlone(h, request')
      BY <3>3, <3>4, <3>5 DEF ProbeAlone
    <3>7. RootedBut(frames, frames', h)
      BY <2>2, <3>4, NextCalledRoots DEF Calling
    <3>8. \A u \in Tokens : Eases(u)
      BY <3>3 DEF Eases
    <3> QED BY <3>6, <3>7, <3>8, AloneStays
  <2>4. CASE ~ReturnNotMine
    <3>1. /\ request' = request \/ request' = WithRequest(request, f.call.token, None)
          /\ frames' = Callers \/ frames' = Aged(Callers)
      BY <1>12, <2>1, <2>4 DEF Return, ReturnStale, ReturnPending, ReturnValue, ReturnMeta,
         ReturnMetaWanted, ReturnError, WithRequest
    <3>2. f.call.token \in Tokens
      BY <2>1, <2>2, CallTop
    <3>3. \A u \in Tokens : Eases(u)
      BY <3>1, <3>2, Forgotten DEF Eases
    <3>4. Rooted(frames, frames')
      BY <2>2, <3>1, StackRoots DEF Calling
    <3> QED BY <3>3, <3>4, AloneStaysRooted
  <2> QED BY <2>3, <2>4
<1>13. CASE WakeLate \/ \E l \in Loaders, s \in Slots : WakeSlot(l, s)
  BY <1>2, <1>13, StackRoots DEF WakeLate, WakeSlot
<1>14. ASSUME NEW i \in DOMAIN frames, WakeRunning(i) PROVE AloneInv'
  BY <1>2, <1>14, WakeRunningRoots DEF WakeRunning
<1>15. ASSUME NEW h \in Handles, Get(h) PROVE AloneInv'
  <2>1. PICK t : t = handles[h].token
    OBVIOUS
  <2>2. t \in Tokens /\ Asks(h, t)
    BY <1>15, <2>1, Typed DEF Get, Asks, HandleState
  <2>3. \E detached \in BOOLEAN : Resolve(t, detached, h)
    BY <1>15, <2>1 DEF Get
  <2> QED BY <1>5, <2>2, <2>3
<1>16. ASSUME NEW t \in Tokens, Resolve(t, TRUE, None) PROVE AloneInv'
  <2>1. Asks(None, t)
    BY DEF Asks
  <2>2. \E detached \in BOOLEAN : Resolve(t, detached, None)
    BY <1>16
  <2> QED BY <1>5, <2>1, <2>2
<1>17. CASE UNCHANGED vars
  BY <1>2, <1>17, StackRoots DEF vars
<1> QED BY <1>3, <1>4, <1>6, <1>7, <1>8, <1>9, <1>10, <1>11, <1>12, <1>13, <1>14, <1>15, <1>16,
           <1>17 DEF Next

\* Without a loader that probes, no call is a probe.
CellsPlain ==
  \A l \in Loaders, s \in Slots : slots'[l][s] = slots[l][s] \/ NoProbe(slots'[l][s])

LEMMA NoProbesStay ==
  ASSUME NoProbes, CellsPlain, NEW f, RootedBut(frames, frames', f),
         f.op = "call" => ~f.call.probe
  PROVE  NoProbes'
<1>1. \A l \in Loaders, s \in Slots : NoProbe(slots'[l][s])
  BY DEF NoProbes, CellsPlain
<1>2. \A i \in DOMAIN frames' : frames'[i].op = "call" => ~frames'[i].call.probe
  BY DEF NoProbes, RootedBut, Root, Alike
<1> QED BY <1>1, <1>2 DEF NoProbes

LEMMA NoProbesStayRooted ==
  ASSUME NoProbes, CellsPlain, Rooted(frames, frames')
  PROVE  NoProbes'
<1>1. PICK f : f = [op |-> "poll"]
  OBVIOUS
<1>2. RootedBut(frames, frames', f)
  BY DEF Rooted, RootedBut
<1>3. f.op # "call"
  BY <1>1
<1> QED BY <1>2, <1>3, NoProbesStay

LEMMA InvalidatedPlain ==
  ASSUME TypeInv, NoProbes, NEW t \in Tokens, slots' = InvalidatedGrid(slots, t)
  PROVE  CellsPlain
<1> SUFFICES ASSUME NEW l \in Loaders, NEW s \in Slots
             PROVE  slots'[l][s] = slots[l][s] \/ NoProbe(slots'[l][s])
  BY DEF CellsPlain
<1>1. GridSound(slots, nextRequest) /\ nextRequest \in Nat
  BY Typed DEF TypeInv
<1>2. PICK T : T = InvalidatedGrid(slots, t)
  OBVIOUS
<1>3. T[l][s] # Leased =>
        T[l][s] = Free \/ (T[l][s] = slots[l][s] /\ slots[l][s].token # t)
        \/ WokenFrom(slots[l], t, T[l][s])
  BY <1>1, <1>2, InvalidatedGridFacts
<1>4. CASE T[l][s] = Leased \/ T[l][s] = Free
  BY <1>2, <1>4 DEF NoProbe, Waits, Free
<1>5. CASE WokenFrom(slots[l], t, T[l][s])
  <2>1. PICK x \in Slots : Holds(slots[l][x], t) /\ slots[l][x].meta = None /\ T[l][s] = Woken(slots[l][x])
    BY <1>5 DEF WokenFrom
  <2>2. slots[l][x] \in CallState /\ Waits(slots[l][x])
    BY <1>1, <2>1, NotNone DEF GridSound, Grid, Row, Holds, Waits
  <2>3. ~slots[l][x].probe
    BY <2>2 DEF NoProbes, NoProbe
  <2>4. ~T[l][s].probe
    BY <2>1, <2>2, <2>3, WokenFacts
  <2> QED BY <1>2, <2>4 DEF NoProbe
<1> QED BY <1>2, <1>3, <1>4, <1>5

LEMMA OnePlain ==
  ASSUME NEW c, NoProbe(c), OneNew(slots, slots', c)
  PROVE  CellsPlain
BY DEF CellsPlain, OneNew

LEMMA TakenPlain ==
  ASSUME NEW l, NEW s, Taken(slots, slots', l, s)
  PROVE  CellsPlain
BY DEF Taken, SameBut, CellsPlain, NoProbe, Waits

\* What the slots are after a return.
LEMMA SettledNew ==
  ASSUME TypeInv, Calling, NEW f, f = Top, NEW c \in CallState, NEW d \in CallState,
         c.gen <= nextRequest, d.gen <= nextRequest, slots' = Settled(f, c, d)
  PROVE  \E U : OneNew(slots, U, c) /\ OneNew(U, slots', d)
<1>1. CASE f.held = << >>
  <2>1. PICK s \in Slots : Given(slots, slots', f.loader, s, c)
    BY <1>1, SettledFacts
  <2>2. OneNew(slots, slots', c)
    BY <2>1, GivenCells
  <2>3. OneNew(slots', slots', d)
    BY DEF OneNew
  <2> QED BY <2>2, <2>3
<1>2. CASE f.held # << >>
  <2>1. PICK U : \E s \in Slots, y \in Slots :
          Given(slots, U, f.loader, s, c) /\ Given(U, slots', f.held[1].loader, y, d)
    BY <1>2, SettledFacts
  <2>2. OneNew(slots, U, c) /\ OneNew(U, slots', d)
    BY <2>1, GivenCells
  <2> QED BY <2>2
<1> QED BY <1>1, <1>2

\* What a return leaves in the slots: the call as it was, woken, or nothing that waits.
Left(f, c) == Idle(c) \/ c = f.call \/ (c = GoesOn(f.call) /\ f.call.probe)

LEMMA ReturnLeaves ==
  ASSUME TypeInv, Return, ~ReturnNotMine, NEW f, f = Top
  PROVE  /\ Calling
         /\ \E c, d \in CallState : /\ c.gen <= nextRequest /\ d.gen <= nextRequest
                                    /\ slots' = Settled(f, c, d) /\ Left(f, c) /\ Idle(d)
         /\ request' = request \/ request' = WithRequest(request, f.call.token, None)
         /\ frames' = Callers \/ frames' = Aged(Callers)
<1>1. Calling
  BY DEF Return, ReturnStale, ReturnPending, ReturnValue, ReturnMeta, ReturnMetaWanted, ReturnError,
     Ongoing
<1>2. /\ request' = request \/ request' = WithRequest(request, f.call.token, None)
      /\ frames' = Callers \/ frames' = Aged(Callers)
  BY DEF Return, ReturnStale, ReturnPending, ReturnValue, ReturnMeta, ReturnMetaWanted, ReturnError,
     WithRequest
<1>3. f.call \in CallState /\ f.call.gen <= nextRequest
  BY <1>1, RefusedFacts
<1>4. /\ Free \in CallState /\ Free.gen <= nextRequest /\ Idle(Free)
      /\ Refused(f) \in CallState /\ Refused(f).gen <= nextRequest /\ Idle(Refused(f))
  <2>1. Idle(Free)
    BY DEF Idle, Free
  <2>2. Idle(Refused(f))
    BY <1>1, RefusedFacts DEF Idle
  <2> QED BY <1>1, <2>1, <2>2, RefusedFacts
<1>5. PICK told, on : told = Told(f.call) /\ on = GoesOn(f.call)
  OBVIOUS
<1>6. told \in CallState /\ told.gen <= nextRequest /\ Idle(told)
  BY <1>3, <1>5, ToldFacts DEF Idle
<1>7. on \in CallState /\ on.gen <= nextRequest
  BY <1>3, <1>5, GoesOnFacts
<1>8. \E c, d : /\ c \in {Free, Refused(f), told} \/ c = f.call \/ (c = on /\ f.call.probe)
                /\ d \in {Free, Refused(f)} /\ slots' = Settled(f, c, d)
  <2>1. CASE ReturnStale
    BY <2>1 DEF ReturnStale
  <2>2. CASE ReturnPending
    BY <2>2 DEF ReturnPending
  <2>3. CASE ReturnValue
    BY <2>3 DEF ReturnValue
  <2>4. CASE ReturnMeta
    BY <1>5, <2>4 DEF ReturnMeta, Told
  <2>5. CASE ReturnMetaWanted
    <3>1. slots' = Returned(f.loader, on) /\ f.by = "slot" /\ f.call.probe
      BY <1>5, <2>5 DEF ReturnMetaWanted, GoesOn
    <3>2. f.held = << >>
      BY <1>1, <3>1, CallTop DEF CallSound
    <3>3. slots' = Settled(f, on, Free)
      BY <3>1, <3>2 DEF Settled
    <3> QED BY <3>1, <3>3
  <2>6. ASSUME NEW notMine \in BOOLEAN, ReturnError(notMine)
        PROVE  \E c, d \in {Free, Refused(f)} : slots' = Settled(f, c, d)
    BY <2>6 DEF ReturnError
  <2> QED BY <2>1, <2>2, <2>3, <2>4, <2>5, <2>6 DEF Return
<1>9. PICK c, d : /\ c \in {Free, Refused(f), told} \/ c = f.call \/ (c = on /\ f.call.probe)
                  /\ d \in {Free, Refused(f)} /\ slots' = Settled(f, c, d)
  BY <1>8
<1>10. /\ c \in CallState /\ d \in CallState /\ c.gen <= nextRequest /\ d.gen <= nextRequest
       /\ Left(f, c) /\ Idle(d)
  BY <1>3, <1>4, <1>5, <1>6, <1>7, <1>9 DEF Left
<1> QED BY <1>1, <1>2, <1>9, <1>10

LEMMA SetPlain ==
  ASSUME TypeInv, NEW l \in Loaders, NEW s \in Slots, NEW c \in CallState \cup {Leased}, NoProbe(c),
         slots' = WithCall(slots, l, s, c)
  PROVE  CellsPlain
<1>1. PICK T : T = slots'
  OBVIOUS
<1>2. T[l] = WithSlot(slots[l], s, c) /\ \A m \in Loaders : m # l => T[m] = slots[m]
  BY <1>1, Typed, WithCallFacts
<1>3. slots[l] \in Row
  BY Typed DEF Grid
<1>4. \A x \in Slots : T[l][x] = slots[l][x] \/ T[l][x] = c
  BY <1>2, <1>3 DEF WithSlot, Row
<1>5. OneNew(slots, slots', c)
  BY <1>1, <1>2, <1>4 DEF OneNew
<1> QED BY <1>5, OnePlain

LEMMA PollSlotPlain ==
  ASSUME TypeInv, NoProbes, PollSlot
  PROVE  NoProbes'
<1>1. PICK f \in PollFrame, g \in PollFrame, l \in Loaders, s \in Slots :
        /\ f.op = "poll" /\ frames = <<f>> /\ l = f.loader /\ s = f.slot /\ g = Advanced(f)
        /\ slots[l][s] # Leased /\ slots[l][s] \in CallState
        /\ \/ /\ ~Waits(slots[l][s])
              /\ slots' = slots /\ frames' = <<g>>
           \/ /\ Waits(slots[l][s]) /\ ~slots[l][s].ready
              /\ slots' = WithCall(slots, l, s, Visited(slots[l][s])) /\ frames' = <<g>>
           \/ /\ Waits(slots[l][s]) /\ slots[l][s].ready
              /\ ~Current(slots[l][s].token, slots[l][s].gen)
              /\ slots' = WithCall(slots, l, s, Free) /\ frames' = <<g>>
           \/ /\ Waits(slots[l][s]) /\ slots[l][s].ready
              /\ Current(slots[l][s].token, slots[l][s].gen)
              /\ slots' = WithCall(slots, l, s, Leased)
              /\ frames' = << g, Call("slot", Visited(slots[l][s]), l, None, FALSE, << >>) >>
  BY PollSlotFacts
<1>2. PICK c, v : c = slots[l][s] /\ v = Visited(c)
  OBVIOUS
<1>3. PICK h : h = Call("slot", v, l, None, FALSE, << >>)
  OBVIOUS
<1>4. c \in CallState /\ NoProbe(c) /\ v \in CallState /\ v.probe = c.probe
  BY <1>1, <1>2, VisitedFacts DEF NoProbes
<1>5. /\ \/ slots' = slots \/ slots' = WithCall(slots, l, s, Free) \/ slots' = WithCall(slots, l, s, Leased)
         \/ Waits(c) /\ slots' = WithCall(slots, l, s, v)
      /\ \/ frames' = <<g>>
         \/ Waits(c) /\ frames' = <<g, h>>
  BY <1>1, <1>2, <1>3
<1>6. NoProbe(Free) /\ NoProbe(Leased) /\ (Waits(c) => NoProbe(v))
  BY <1>4 DEF NoProbe, Waits, Free
<1>7. CellsPlain
  <2>1. CASE slots' = slots
    BY <2>1 DEF CellsPlain
  <2> QED BY <1>4, <1>5, <1>6, <2>1, SetPlain, CallTypes
<1>8. g.op = "poll" /\ h.call = v
  BY <1>3 DEF PollFrame, Call
<1>9. \A i \in DOMAIN frames' : frames'[i].op = "call" => ~frames'[i].call.probe
  <2>1. CASE frames' = <<g>>
    BY <1>8, <2>1
  <2>2. CASE Waits(c) /\ frames' = <<g, h>>
    <3>1. ~h.call.probe
      BY <1>4, <1>8, <2>2 DEF NoProbe
    <3> QED BY <1>8, <2>2, <3>1
  <2> QED BY <1>5, <2>1, <2>2
<1>10. \A m \in Loaders, x \in Slots : NoProbe(slots'[m][x])
  BY <1>7 DEF NoProbes, CellsPlain
<1> QED BY <1>9, <1>10 DEF NoProbes

LEMMA ReturnPlain ==
  ASSUME TypeInv, NoProbes, Return
  PROVE  NoProbes'
<1>1. PICK f : f = Top
  OBVIOUS
<1>2. ASSUME Calling PROVE ~f.call.probe /\ frames # << >>
  <2>1. frames # << >> /\ frames \in Seq(Frame) /\ f.op = "call"
    BY <1>1, <1>2, CallTop, Typed
  <2>2. f = frames[Len(frames)] /\ Len(frames) \in DOMAIN frames
    BY <1>1, <2>1, Popped DEF Top
  <2> QED BY <2>1, <2>2 DEF NoProbes
<1>3. CASE ReturnNotMine
  <2>1. PICK l \in Loaders, s \in Slots, x \in Slots : \E S, h, probe : NotMine(f, S, x, l, s, h, probe)
    BY <1>1, <1>3, NotMineFacts
  <2>2. PICK S, h, probe : NotMine(f, S, x, l, s, h, probe)
    BY <2>1
  <2>3. Calling
    BY <1>1, <1>3, NotMineFacts
  <2>4. /\ h \in Frame /\ frames' = Append(Callers, h) /\ ~h.call.probe
        /\ S \in Grid /\ S[l][s] # Leased /\ slots' = WithCall(S, l, s, Leased)
    BY <1>2, <2>2, <2>3 DEF NotMine, ProbeOnly, GridSound
  <2>5. Taken(S, slots', l, s)
    BY <2>4, TakenFacts
  <2>6. OneNew(slots, S, Free)
    <3>1. CASE S = slots
      BY <3>1 DEF OneNew
    <3>2. CASE Given(slots, S, f.loader, x, Free)
      BY <3>2, GivenCells
    <3> QED BY <2>2, <3>1, <3>2 DEF NotMine
  <2>7. CellsPlain
    BY <2>5, <2>6 DEF Taken, SameBut, OneNew, CellsPlain, NoProbe, Waits, Free
  <2>8. RootedBut(frames, frames', h)
    BY <1>2, <2>3, <2>4, NextCalledRoots
  <2> QED BY <2>4, <2>7, <2>8, NoProbesStay
<1>4. CASE ~ReturnNotMine
  <2>1. /\ Calling
        /\ \E c, d \in CallState : /\ c.gen <= nextRequest /\ d.gen <= nextRequest
                                   /\ slots' = Settled(f, c, d) /\ Left(f, c) /\ Idle(d)
        /\ frames' = Callers \/ frames' = Aged(Callers)
    BY <1>1, <1>4, ReturnLeaves
  <2>2. PICK c \in CallState, d \in CallState :
          /\ c.gen <= nextRequest /\ d.gen <= nextRequest
          /\ slots' = Settled(f, c, d) /\ Left(f, c) /\ Idle(d)
    BY <2>1
  <2>3. NoProbe(c) /\ NoProbe(d)
    BY <1>2, <2>1, <2>2 DEF Left, Idle, NoProbe, Waits
  <2>4. PICK U : OneNew(slots, U, c) /\ OneNew(U, slots', d)
    BY <1>1, <2>1, <2>2, SettledNew
  <2>5. CellsPlain
    BY <2>3, <2>4 DEF OneNew, CellsPlain
  <2>6. Rooted(frames, frames')
    BY <1>2, <2>1, StackRoots
  <2> QED BY <2>5, <2>6, NoProbesStayRooted
<1> QED BY <1>3, <1>4

LEMMA NextPlain ==
  ASSUME TypeInv, TypeInv', NoProbes, Probing = {}, [Next]_vars
  PROVE  NoProbes'
<1>1. ASSUME slots' = slots \/ CellsPlain, frames' = frames \/ frames' = Aged(frames) PROVE NoProbes'
  <2>1. CellsPlain
    BY <1>1 DEF CellsPlain
  <2>2. Rooted(frames, frames')
    BY <1>1, StackRoots
  <2> QED BY <2>1, <2>2, NoProbesStayRooted
<1>2. ASSUME slots' = slots \/ CellsPlain, NEW f \in Frame, frames' = Append(frames, f),
             f.op = "call" => f.by \in {"resolve", "queued"}
      PROVE  NoProbes'
  <2>1. CellsPlain
    BY <1>2 DEF CellsPlain
  <2>2. RootedBut(frames, frames', f)
    BY <1>2, CalledRoots
  <2>3. PICK n : n = Len(frames')
    OBVIOUS
  <2>4. n \in DOMAIN frames' /\ frames'[n] = f
    BY <1>2, <2>3, Typed
  <2>5. f.op = "call" => CallSound(f)
    BY <2>4 DEF TypeInv, StackSound, FrameSound
  <2>6. f.op = "call" => ~f.call.probe
    BY <1>2, <2>5 DEF CallSound
  <2> QED BY <2>1, <2>2, <2>6, NoProbesStay
<1>3. ASSUME NEW t \in Tokens, slots' = InvalidatedGrid(slots, t), frames' = frames \/ frames' = Aged(frames)
      PROVE  NoProbes'
  BY <1>1, <1>3, InvalidatedPlain
<1>4. ASSUME NEW t \in Tokens, NEW kind \in Offered, Register(t, kind) PROVE NoProbes'
  BY <1>3, <1>4 DEF Register, Invalidate, InvalidatedGrid
<1>5. ASSUME NEW t \in Tokens, Reload(t) PROVE NoProbes'
  BY <1>3, <1>5 DEF Reload, InvalidatedGrid
<1>6. ASSUME NEW t \in Tokens, ClearFailed(t) PROVE NoProbes'
  BY <1>1, <1>6 DEF ClearFailed
<1>7. ASSUME NEW t \in Tokens, NEW h, Asks(h, t), NEW detached \in BOOLEAN, Resolve(t, detached, h)
      PROVE  NoProbes'
  <2>1. CASE ResolveAtOnce(t, h) \/ ResolveStatic(t, h) \/ ResolveJoin(t, detached, h) \/ ResolveUnserved(t, h)
    BY <1>1, <2>1 DEF ResolveAtOnce, ResolveStatic, ResolveJoin, ResolveUnserved
  <2>2. CASE ResolveFactory(t, detached, h)
    <3>1. PICK f : f = [op |-> "factory", token |-> t, gen |-> nextRequest + 1, age |-> age[t],
                        handle |-> h, fresh |-> h # None]
      OBVIOUS
    <3>2. frames' = Append(frames, f) /\ slots' = slots
      BY <2>2, <3>1 DEF ResolveFactory
    <3>3. f.op = "factory"
      BY <3>1
    <3>4. PICK n : n = Len(frames')
      OBVIOUS
    <3>5. n \in DOMAIN frames' /\ frames'[n] = f
      BY <3>2, <3>4, Typed
    <3>6. f \in Frame
      BY <3>5 DEF TypeInv, StackSound
    <3> QED BY <1>2, <3>2, <3>3, <3>6
  <2>3. CASE ResolveChain(t, detached, h)
    <3>1. PICK l \in Loaders, s \in Slots : \E f : Chained(t, "resolve", h, l, s, f)
      BY <1>7, <2>3, ResolveChainTyped
    <3>2. PICK f : Chained(t, "resolve", h, l, s, f)
      BY <3>1
    <3>3. CellsPlain
      BY <3>2, TakenPlain DEF Chained
    <3> QED BY <1>2, <3>2, <3>3 DEF Chained
  <2> QED BY <1>7, <2>1, <2>2, <2>3 DEF Resolve
<1>8. ASSUME NEW t \in Tokens, ProbeCompleted(t) PROVE NoProbes'
  <2>1. PICK l \in Loaders, s \in Slots, x \in Slots :
          /\ slots[l][s] \in CallState /\ slots[l][s] # Leased /\ slots[l][s].meta # None
          /\ slots' \in Grid /\ Out(slots'[l]) = Out(slots[l])
          /\ \A m \in Loaders : m # l => slots'[m] = slots[m]
          /\ slots'[l][x] = slots[l][s]
          /\ x = s \/ (slots[l][x] = Leased /\ slots'[l][s] = Leased)
          /\ \A y \in Slots : y # x /\ y # s => slots'[l][y] = slots[l][y]
    BY <1>8, CompletedFacts
  <2>2. NoProbe(slots[l][s]) /\ NoProbe(Leased)
    BY <2>1 DEF NoProbe, Waits
  <2>3. CellsPlain
    BY <2>1, <2>2 DEF CellsPlain
  <2> QED BY <1>1, <1>8, <2>3 DEF ProbeCompleted
<1>9. ASSUME NEW t \in Tokens, NEW detached \in BOOLEAN, ProbeJoin(t, detached) \/ ProbeAtOnce(t, detached)
      PROVE  NoProbes'
  BY <1>1, <1>9 DEF ProbeJoin, ProbeAtOnce
<1>10. ASSUME NEW t \in Tokens, NEW detached \in BOOLEAN, ProbeChain(t, detached) PROVE FALSE
  BY <1>10 DEF ProbeChain, Target
<1>11. ASSUME NEW h \in Handles, (\E t \in Tokens : Load(h, t)) \/ \E copy \in Handles : CloneHandle(h, copy)
       PROVE  NoProbes'
  BY <1>1, <1>11 DEF Load, CloneHandle
<1>12. ASSUME NEW h \in Handles, DropHandle(h) PROVE NoProbes'
  <2>1. PICK t : t = handles[h].token
    OBVIOUS
  <2>2. t \in Tokens
    BY <1>12, <2>1, Typed DEF DropHandle, HandleState
  <2>3. frames' = frames /\ (slots' = slots \/ slots' = InvalidatedGrid(slots, t))
    BY <1>12, <2>1 DEF DropHandle, Invalidate, InvalidatedGrid
  <2> QED BY <1>1, <1>3, <2>2, <2>3
<1>13. ASSUME NEW t \in Tokens, PollQueued(t) PROVE NoProbes'
  <2>1. \/ slots' = slots /\ frames' = frames
        \/ \E l \in Loaders, s \in Slots : \E f : Dequeued(t, l, s, f)
    BY <1>13, PollQueuedTyped
  <2>2. ASSUME NEW l \in Loaders, NEW s \in Slots, NEW f, Dequeued(t, l, s, f) PROVE NoProbes'
    <3>1. CellsPlain
      BY <2>2, TakenPlain DEF Dequeued
    <3> QED BY <1>2, <2>2, <3>1 DEF Dequeued
  <2> QED BY <1>1, <2>1, <2>2
<1>14. ASSUME NEW ok \in BOOLEAN, FactoryReturns(ok) PROVE NoProbes'
  <2>1. slots' = slots /\ frames # << >> /\ (frames' = Callers \/ frames' = Aged(Callers))
    BY <1>14 DEF FactoryReturns
  <2>2. CellsPlain /\ Rooted(frames, frames')
    BY <2>1, StackRoots DEF CellsPlain
  <2> QED BY <2>2, NoProbesStayRooted
<1>15. CASE PollBegin \/ PollEnd
  <2>1. slots' = slots
    BY <1>15 DEF PollBegin, PollEnd
  <2>2. \A i \in DOMAIN frames' : frames'[i].op # "call"
    BY <1>15 DEF PollBegin, PollEnd
  <2> QED BY <2>1, <2>2 DEF NoProbes
<1>16. ASSUME NEW l \in Loaders, NEW s \in Slots, WakeSlot(l, s) PROVE NoProbes'
  <2>1. PICK c, w : c = slots[l][s] /\ w = Woken(c)
    OBVIOUS
  <2>2. Replaced(slots, slots', l, s, w) /\ Waits(c) /\ frames' = frames
    BY <1>16, <2>1, WakeSlotTyped DEF WakeSlot
  <2>3. c \in CallState /\ ~c.probe
    BY <2>1, <2>2, Typed DEF NoProbes, NoProbe, Grid, Row, Waits
  <2>4. ~w.probe
    BY <2>1, <2>3, WokenFacts
  <2>5. CellsPlain
    BY <2>2, <2>4 DEF Replaced, SameBut, CellsPlain, NoProbe
  <2> QED BY <1>1, <2>2, <2>5
<1>17. ASSUME NEW i \in DOMAIN frames, WakeRunning(i) PROVE NoProbes'
  <2>1. CellsPlain
    BY <1>17 DEF WakeRunning, CellsPlain
  <2> QED BY <1>17, <2>1, WakeRunningRoots, NoProbesStayRooted
<1>18. CASE WakeLate
  BY <1>1, <1>18 DEF WakeLate
<1>19. ASSUME NEW h \in Handles, Get(h) PROVE NoProbes'
  <2>1. PICK t : t = handles[h].token
    OBVIOUS
  <2>2. t \in Tokens /\ Asks(h, t)
    BY <1>19, <2>1, Typed DEF Get, Asks, HandleState
  <2>3. \E detached \in BOOLEAN : Resolve(t, detached, h)
    BY <1>19, <2>1 DEF Get
  <2> QED BY <1>7, <2>2, <2>3
<1>20. ASSUME NEW t \in Tokens, Resolve(t, TRUE, None) PROVE NoProbes'
  <2>1. Asks(None, t)
    BY DEF Asks
  <2>2. \E detached \in BOOLEAN : Resolve(t, detached, None)
    BY <1>20
  <2> QED BY <1>7, <2>1, <2>2
<1>21. CASE UNCHANGED vars
  BY <1>1, <1>21 DEF vars
<1> QED BY <1>4, <1>5, <1>6, <1>8, <1>9, <1>10, <1>11, <1>12, <1>13, <1>14, <1>15, <1>16, <1>17,
           <1>18, <1>19, <1>20, <1>21, PollSlotPlain, ReturnPlain DEF Next

\* Invariants of a quiet manager: the token of a probe is left alone.
LEMMA AloneHolds == ASSUME Quiet PROVE Spec => []AloneInv
<1>1. Init => AloneInv /\ NoProbes
  BY DEF Init, AloneInv, NoProbes, NoProbe, Waits, Free
<1>2. Spec => []TypeInv
  BY TypesHold
<1>3. CASE Probing = {}
  <2>1. TypeInv /\ TypeInv' /\ NoProbes /\ [Next]_vars => NoProbes'
    BY <1>3, NextPlain
  <2>2. NoProbes => AloneInv
    BY DEF NoProbes, AloneInv, ProbeAlone
  <2> QED BY <1>1, <1>2, <2>1, <2>2, PTL DEF Spec
<1>4. CASE ~Reentrant
  <2>1. TypeInv /\ TypeInv' /\ AloneInv /\ [Next]_vars => AloneInv'
    BY <1>4, QuietAlone
  <2> QED BY <1>1, <1>2, <2>1, PTL DEF Spec
<1> QED BY <1>3, <1>4 DEF Quiet

-----------------------------------------------------------------------------
(***************************************************************************)
(* What the handles show.                                                  *)
(***************************************************************************)
ShowsNow(h) == Shows(handles'[h], value', failed', request')
PromisesNow(f) == Promises(f, value', failed', request')

\* What a handle shows of token t, and what it is told to expect, stays right; and
\* no handle is there to look at it.
Steady(t) ==
  /\ value'[t] # None => value'[t] = value[t]
  /\ Due(t, failed, request) => Due(t, failed', request')
Unwatched(t) == \A h \in Handles : handles'[h] # None => handles'[h].token # t

LEMMA ShowStays ==
  ASSUME TypeInv, TypeInv', ShowInv, \A t \in Tokens : Steady(t) \/ Unwatched(t),
         \A h \in Handles : handles'[h] = handles[h] \/ ShowsNow(h),
         NEW f, RootedBut(frames, frames', f), PromisesNow(f)
  PROVE  ShowInv'
<1>1. ASSUME NEW h \in Handles PROVE ShowsNow(h)
  <2>1. SUFFICES ASSUME handles'[h] = handles[h] PROVE ShowsNow(h)
    OBVIOUS
  <2>2. PICK x : x = handles[h] /\ x = handles'[h]
    BY <2>1
  <2>3. SUFFICES ASSUME x # None PROVE ShowsNow(h)
    BY <2>2 DEF ShowsNow, Shows
  <2>4. PICK t : t = x.token
    OBVIOUS
  <2>5. t \in Tokens
    BY <2>2, <2>3, <2>4, Typed DEF HandleState
  <2>6. Steady(t)
    BY <2>2, <2>3, <2>4, <2>5 DEF Unwatched
  <2>7. Shows(x, value, failed, request)
    BY <2>2 DEF ShowInv
  <2> QED BY <2>2, <2>4, <2>6, <2>7 DEF ShowsNow, Shows, Steady
<1>2. ASSUME NEW i \in DOMAIN frames' PROVE PromisesNow(frames'[i])
  <2>1. SUFFICES ASSUME Root(frames, frames', i) PROVE PromisesNow(frames'[i])
    BY DEF RootedBut
  <2>2. PICK g, h : g = frames[i] /\ h = frames'[i]
    OBVIOUS
  <2>3. SUFFICES ASSUME h.op # "poll", h.fresh PROVE PromisesNow(h)
    BY <2>2 DEF PromisesNow, Promises
  <2>4. /\ Alike(g, h) /\ g.fresh /\ Promises(g, value, failed, request)
        /\ h \in Frame /\ FrameSound(h, i, nextRequest', handles')
    BY <2>1, <2>2, <2>3 DEF Root, ShowInv, TypeInv, StackSound
  <2>5. PICK t : t = TokenOf(h)
    OBVIOUS
  <2>6. /\ t \in Tokens /\ h.handle \in Handles
        /\ handles'[h.handle] # None /\ handles'[h.handle].token = t
    BY <2>3, <2>4, <2>5, FrameTypes DEF FrameSound
  <2>7. Steady(t)
    BY <2>6 DEF Unwatched
  <2>8. TokenOf(g) = t /\ g.op # "poll"
    BY <2>3, <2>4, <2>5 DEF Alike
  <2> QED BY <2>4, <2>5, <2>7, <2>8 DEF PromisesNow, Promises, Steady
<1> QED BY <1>1, <1>2 DEF ShowInv, ShowsNow, PromisesNow

LEMMA ShowStaysRooted ==
  ASSUME TypeInv, TypeInv', ShowInv, \A t \in Tokens : Steady(t) \/ Unwatched(t),
         \A h \in Handles : handles'[h] = handles[h] \/ ShowsNow(h),
         Rooted(frames, frames')
  PROVE  ShowInv'
<1>1. PICK f : f = [op |-> "poll"]
  OBVIOUS
<1>2. RootedBut(frames, frames', f) /\ PromisesNow(f)
  BY <1>1 DEF Rooted, RootedBut, PromisesNow, Promises
<1> QED BY <1>2, ShowStays

\* Every answer is made anew: no callback that runs has one to give.
LEMMA ShowsAnew ==
  ASSUME \A h \in Handles : ShowsNow(h),
         \A i \in DOMAIN frames' : frames'[i].op # "poll" => ~frames'[i].fresh
  PROVE  ShowInv'
BY DEF ShowInv, ShowsNow, Promises

LEMMA NoneFresh ==
  ASSUME TypeInv, \/ frames' = Aged(frames)
                  \/ frames # << >> /\ frames' = Aged(Callers)
  PROVE  \A i \in DOMAIN frames' : frames'[i].op # "poll" => ~frames'[i].fresh
<1>1. ASSUME NEW stack \in Seq(Frame), frames' = Aged(stack)
      PROVE  \A i \in DOMAIN frames' : frames'[i].op # "poll" => ~frames'[i].fresh
  <2>1. PICK other : other = Aged(stack)
    OBVIOUS
  <2>2. /\ DOMAIN other = DOMAIN stack
        /\ \A i \in DOMAIN stack : Alike(stack[i], other[i])
        /\ \A i \in DOMAIN stack : stack[i].op # "poll" => ~other[i].fresh
    BY <2>1, AgedFacts DEF StacksAlike
  <2> QED BY <1>1, <2>1, <2>2 DEF Alike
<1> QED BY <1>1, Typed, Popped DEF Callers

LEMMA OutdatedShows ==
  ASSUME TypeInv, handles' = Outdated
  PROVE  \A h \in Handles : ShowsNow(h)
<1>1. \A h \in Handles : handles'[h] # None => handles'[h].shown = None
  BY Typed, OutdatedAlike
<1> QED BY <1>1 DEF ShowsNow, Shows

LEMMA OutdatedAnew ==
  ASSUME TypeInv, handles' = Outdated,
         frames' = Aged(frames) \/ (frames # << >> /\ frames' = Aged(Callers))
  PROVE  ShowInv'
BY OutdatedShows, NoneFresh, ShowsAnew

\* A value is published, and told to handle h that asked for it.
LEMMA PublishAnew ==
  ASSUME TypeInv, NEW t \in Tokens, NEW v \in Ages, NEW h, Asks(h, t), Publish(t, v, h),
         frames' = Aged(frames) \/ (frames # << >> /\ frames' = Aged(Callers))
  PROVE  ShowInv'
<1>1. h \in Handles \cup {None} /\ (h # None => handles[h] # None /\ handles[h].token = t)
  BY DEF Asks
<1>2. /\ HandlesAlike(handles, handles')
      /\ \A k \in Handles : handles'[k] # None =>
           handles'[k].shown = None \/ (k = h /\ handles'[k].shown = v)
  BY <1>1, PublishTyped DEF TypeInv
<1>3. value'[t] = v \/ value'[t] = None
  BY Typed, InsertedFacts DEF Publish
<1>4. v # Fallback
  BY NotNone
<1>5. ASSUME NEW k \in Handles PROVE ShowsNow(k)
  <2>1. PICK x : x = handles'[k]
    OBVIOUS
  <2>2. SUFFICES ASSUME x # None, x.shown # None PROVE ShowsNow(k)
    BY <2>1 DEF ShowsNow, Shows
  <2>3. x.shown = v /\ k = h
    BY <1>2, <2>1, <2>2
  <2>4. h # None
    BY <2>3, NotNone
  <2>5. x.token = t
    BY <1>1, <1>2, <2>1, <2>3, <2>4 DEF HandlesAlike
  <2> QED BY <1>3, <1>4, <2>1, <2>3, <2>5 DEF ShowsNow, Shows
<1> QED BY <1>5, NoneFresh, ShowsAnew

\* What is the right answer for a handle that asks for token t.
Right(t, v) == (value'[t] # None => v = value'[t]) /\ (v = Fallback => Due(t, failed', request'))

LEMMA AnswerShows ==
  ASSUME TypeInv, NEW t \in Tokens, NEW h, Asks(h, t), NEW v \in Ages \cup {None, Fallback},
         Right(t, v), handles' = Answer(handles, h, v)
  PROVE  \A k \in Handles : handles'[k] = handles[k] \/ ShowsNow(k)
<1>1. h \in Handles \cup {None} /\ (h # None => handles[h] # None /\ handles[h].token = t)
  BY DEF Asks
<1>2. /\ HandlesAlike(handles, handles')
      /\ \A k \in Handles : k # h => handles'[k] = handles[k]
      /\ h # None => handles'[h].shown = v
  <2>1. /\ handles \in [Handles -> HandleState \cup {None}]
        /\ h # None => handles[h] # None
    BY <1>1, Typed
  <2>2. PICK H : H = Answer(handles, h, v)
    OBVIOUS
  <2>3. /\ HandlesAlike(handles, H)
        /\ \A k \in Handles : k # h => H[k] = handles[k]
        /\ h # None => H[h].shown = v
    BY <1>1, <2>1, <2>2, AnswerAlike
  <2> QED BY <2>2, <2>3
<1>3. ASSUME h \in Handles PROVE ShowsNow(h)
  <2>1. h # None
    BY <1>3, NotNone
  <2>2. PICK x : x = handles'[h]
    OBVIOUS
  <2>3. x.token = t /\ x.shown = v
    BY <1>1, <1>2, <1>3, <2>1, <2>2 DEF HandlesAlike
  <2> QED BY <2>2, <2>3 DEF ShowsNow, Shows, Right
<1> QED BY <1>1, <1>2, <1>3

\* The same for the answer of a callback, which may be out of date.
LEMMA AnswerForShows ==
  ASSUME TypeInv, frames # << >>, NEW f, f = Top, f.op # "poll",
         NEW v \in Ages \cup {None, Fallback}, handles' = AnswerFor(f, v),
         f.fresh => Right(TokenOf(f), v)
  PROVE  \A k \in Handles : handles'[k] = handles[k] \/ ShowsNow(k)
<1>1. /\ HandlesAlike(handles, handles')
      /\ \A k \in Handles : k # f.handle => handles'[k] = handles[k]
      /\ f.handle # None => handles'[f.handle].shown = IF f.fresh THEN v ELSE None
  BY AnswerForAlike
<1>2. /\ f.handle # None => handles[f.handle] # None /\ handles[f.handle].token = TokenOf(f)
  BY Typed, StackPopped DEF TypeInv, Top, FrameSound
<1>3. ASSUME NEW k \in Handles, k = f.handle PROVE ShowsNow(k)
  <2>1. k # None
    BY NotNone
  <2>2. PICK x : x = handles'[k]
    OBVIOUS
  <2>3. x.token = TokenOf(f) /\ x.shown = IF f.fresh THEN v ELSE None
    BY <1>1, <1>2, <1>3, <2>1, <2>2 DEF HandlesAlike
  <2> QED BY <2>2, <2>3 DEF ShowsNow, Shows, Right
<1> QED BY <1>1, <1>3

\* What the innermost callback was promised.
LEMMA TopPromise ==
  ASSUME TypeInv, ShowInv, frames # << >>, NEW f, f = Top, f.op # "poll"
  PROVE  /\ Promises(f, value, failed, request) /\ TokenOf(f) \in Tokens /\ f \in Frame
         /\ f.op = "call" => TokenOf(f) = f.call.token
         /\ f.op = "factory" => TokenOf(f) = f.token
<1>1. frames \in Seq(Frame) /\ f \in Frame
  BY Typed, StackPopped DEF TypeInv, Top
<1>2. f = frames[Len(frames)] /\ Len(frames) \in DOMAIN frames
  BY <1>1, Popped DEF Top
<1>3. Promises(f, value, failed, request)
  BY <1>2 DEF ShowInv
<1> QED BY <1>1, <1>3, FrameTypes DEF TokenOf

\* The manager and its callbacks change nothing that a handle looks at.
LEMMA StillShows ==
  ASSUME TypeInv, TypeInv', ShowInv, handles' = handles, value' = value,
         \A t \in Tokens : Due(t, failed, request) => Due(t, failed', request')
  PROVE  /\ Rooted(frames, frames') => ShowInv'
         /\ \A f : RootedBut(frames, frames', f) /\ PromisesNow(f) => ShowInv'
<1>1. \A t \in Tokens : Steady(t)
  BY DEF Steady
<1> QED BY <1>1, ShowStays, ShowStaysRooted

LEMMA HandleShows ==
  ASSUME TypeInv, TypeInv', ShowInv, NEW h \in Handles,
         (\E t \in Tokens : Load(h, t)) \/ \E copy \in Handles : CloneHandle(h, copy)
  PROVE  ShowInv'
<1>1. /\ value' = value /\ failed' = failed /\ request' = request /\ frames' = frames
  BY DEF Load, CloneHandle
<1>2. \A t \in Tokens : Steady(t)
  BY <1>1 DEF Steady, Due
<1>3. ASSUME NEW t \in Tokens, Load(h, t), NEW k \in Handles
      PROVE  handles'[k] = handles[k] \/ ShowsNow(k)
  <2>1. PICK x : x = [token |-> t, shown |-> None]
    OBVIOUS
  <2>2. handles' = [handles EXCEPT ![h] = x]
    BY <1>3, <2>1 DEF Load
  <2>3. handles'[k] = handles[k] \/ handles'[k] = x
    BY <2>2, Typed
  <2>4. x.shown = None
    BY <2>1
  <2> QED BY <2>3, <2>4 DEF ShowsNow, Shows
<1>4. ASSUME NEW copy \in Handles, CloneHandle(h, copy), NEW k \in Handles
      PROVE  handles'[k] = handles[k] \/ ShowsNow(k)
  <2>1. PICK x : x = handles[h]
    OBVIOUS
  <2>2. handles' = [handles EXCEPT ![copy] = x]
    BY <1>4, <2>1 DEF CloneHandle
  <2>3. handles'[k] = handles[k] \/ handles'[k] = x
    BY <2>2, Typed
  <2>4. Shows(x, value', failed', request')
    BY <1>1, <2>1 DEF ShowInv
  <2> QED BY <2>3, <2>4 DEF ShowsNow
<1>5. \A k \in Handles : handles'[k] = handles[k] \/ ShowsNow(k)
  BY <1>3, <1>4
<1> QED BY <1>1, <1>2, <1>5, StackRoots, ShowStaysRooted

\* The last handle of a token may take the load with it: nobody is left to look.
LEMMA DropHandleShows ==
  ASSUME TypeInv, TypeInv', ShowInv, NEW h \in Handles, DropHandle(h)
  PROVE  ShowInv'
<1>1. PICK t : t = handles[h].token
  OBVIOUS
<1>2. /\ value' = value /\ failed' = failed /\ frames' = frames
      /\ handles' = [handles EXCEPT ![h] = None] /\ handles[h] # None
  BY DEF DropHandle
<1>3. t \in Tokens
  BY <1>1, <1>2, Typed DEF HandleState
<1>4. \/ request' = request
      \/ Holders(t) = {h} /\ request' = WithRequest(request, t, None)
  BY <1>1 DEF DropHandle, WithRequest
<1>5. \A k \in Handles : handles'[k] = None \/ handles'[k] = handles[k]
  BY <1>2, Typed
<1>6. handles'[h] = None
  BY <1>2, Typed
<1>7. \A k \in Handles : handles'[k] = handles[k] \/ ShowsNow(k)
  BY <1>5 DEF ShowsNow, Shows
<1>8. ASSUME NEW u \in Tokens PROVE Steady(u) \/ Unwatched(u)
  <2>1. CASE request'[u] = request[u]
    BY <1>2, <2>1 DEF Steady, Due
  <2>2. CASE request'[u] # request[u]
    <3>1. u = t /\ Holders(t) = {h}
      BY <1>3, <1>4, <2>2, Forgotten
    <3>2. ASSUME NEW k \in Handles, handles'[k] # None PROVE handles'[k].token # u
      BY <1>5, <1>6, <3>1, <3>2 DEF Holders
    <3> QED BY <3>2 DEF Unwatched
  <2> QED BY <2>1, <2>2
<1> QED BY <1>2, <1>7, <1>8, StackRoots, ShowStaysRooted

LEMMA ReloadShows ==
  ASSUME TypeInv, TypeInv', ShowInv, NEW t \in Tokens, Reload(t)
  PROVE  ShowInv'
<1>1. PICK r : r = [gen |-> nextRequest + 1, load |-> TRUE, queued |-> TRUE, detached |-> TRUE]
  OBVIOUS
<1>2. /\ request' = WithRequest(request, t, r) /\ failed' = failed \ {t}
      /\ handles' = handles /\ value' = value /\ frames' = frames
  BY <1>1 DEF Reload, WithRequest
<1>3. request' \in [Tokens -> Request \cup {None}]
  BY DEF TypeInv, RequestsSound
<1>4. request'[t] = r /\ \A u \in Tokens : u # t => request'[u] = request[u]
  BY <1>2, Typed DEF WithRequest
<1>5. r # None /\ r.load
  <2>1. nextRequest + 1 \in 1..MaxRequest
    BY Typed, Sizes DEF Reload
  <2>2. r \in Request /\ r.load
    BY <1>1, <2>1 DEF Request
  <2> QED BY <2>2, NotNone
<1>6. \A u \in Tokens : Due(u, failed, request) => Due(u, failed', request')
  BY <1>2, <1>4, <1>5 DEF Due
<1> QED BY <1>2, <1>6, StackRoots, StillShows

\* A request that begins; a load is due from then on.
LEMMA BeginDue ==
  ASSUME TypeInv, NEW t \in Tokens, NEW load \in BOOLEAN, NEW detached \in BOOLEAN,
         Begin(t, load, detached), failed' = failed
  PROVE  /\ load => Due(t, failed', request')
         /\ \A u \in Tokens : Due(u, failed, request) => Due(u, failed', request')
<1>1. /\ request[t] = None /\ request'[t] \in Request /\ request'[t].load = load
      /\ \A u \in Tokens : u # t => request'[u] = request[u]
  BY BeginFacts
<1>2. request'[t] # None
  BY <1>1, NotNone
<1> QED BY <1>1, <1>2 DEF Due

LEMMA ResolveShows ==
  ASSUME TypeInv, TypeInv', ShowInv, NEW t \in Tokens, NEW h, Asks(h, t), NEW detached \in BOOLEAN,
         Resolve(t, detached, h)
  PROVE  ShowInv'
<1>1. /\ value[t] \in Ages \cup {None} /\ age[t] \in Ages
      /\ Fallback \notin Ages /\ Fallback # None
  BY Typed, NotNone
<1>2. PICK yes \in BOOLEAN : yes = TRUE
  OBVIOUS
<1>3. CASE ResolveAtOnce(t, h)
  <2>1. PICK v : v = IF value[t] # None THEN value[t] ELSE Fallback
    OBVIOUS
  <2>2. /\ handles' = Answer(handles, h, v) /\ value' = value /\ failed' = failed
        /\ request' = request /\ frames' = frames /\ (value[t] # None \/ t \in failed)
    BY <1>3, <2>1 DEF ResolveAtOnce
  <2>3. v \in Ages \cup {None, Fallback} /\ Right(t, v)
    BY <1>1, <2>1, <2>2 DEF Right, Due
  <2>4. \A k \in Handles : handles'[k] = handles[k] \/ ShowsNow(k)
    BY <2>2, <2>3, AnswerShows
  <2>5. \A u \in Tokens : Steady(u)
    BY <2>2 DEF Steady, Due
  <2> QED BY <2>2, <2>4, <2>5, StackRoots, ShowStaysRooted
<1>4. CASE ResolveStatic(t, h)
  BY <1>1, <1>4, PublishAnew DEF ResolveStatic
<1>5. CASE ResolveJoin(t, detached, h)
  <2>1. PICK r \in Request : Wants(request[t], r) /\ r.load /\ request' = WithRequest(request, t, r)
    <3>1. /\ request[t] # None
          /\ request' = [request EXCEPT ![t].detached = @ \/ detached, ![t].load = TRUE]
      BY <1>5 DEF ResolveJoin
    <3>2. \E r \in Request : /\ Wants(request[t], r) /\ r.load
                             /\ [request EXCEPT ![t].detached = @ \/ detached, ![t].load = TRUE] =
                                  WithRequest(request, t, r)
      BY <3>1, Joined
    <3> QED BY <3>1, <3>2
  <2>2. /\ handles' = Answer(handles, h, Fallback) /\ value' = value /\ failed' = failed
        /\ frames' = frames /\ value[t] = None
    BY <1>5 DEF ResolveJoin, Unknown
  <2>3. request'[t] = r /\ r # None /\ \A u \in Tokens : u # t => request'[u] = request[u]
    BY <2>1, Typed, NotNone DEF WithRequest
  <2>4. \A u \in Tokens : Steady(u)
    BY <2>1, <2>2, <2>3 DEF Steady, Due
  <2>5. PICK v : v = Fallback
    OBVIOUS
  <2>6. Right(t, v) /\ v \in Ages \cup {None, Fallback} /\ handles' = Answer(handles, h, v)
    BY <2>1, <2>2, <2>3, <2>5 DEF Right, Due
  <2>7. \A k \in Handles : handles'[k] = handles[k] \/ ShowsNow(k)
    BY <2>6, AnswerShows
  <2> QED BY <2>2, <2>4, <2>7, StackRoots, ShowStaysRooted
<1>6. CASE ResolveFactory(t, detached, h)
  <2>1. PICK f : f = [op |-> "factory", token |-> t, gen |-> nextRequest + 1, age |-> age[t],
                      handle |-> h, fresh |-> h # None]
    OBVIOUS
  <2>2. /\ frames' = Append(frames, f) /\ handles' = handles /\ value' = value /\ failed' = failed
        /\ value[t] = None /\ Begin(t, yes, detached)
    BY <1>2, <1>6, <2>1 DEF ResolveFactory, Unknown
  <2>3. Due(t, failed', request') /\ \A u \in Tokens : Due(u, failed, request) => Due(u, failed', request')
    BY <1>2, <2>2, BeginDue
  <2>4. TokenOf(f) = t
    BY <2>1 DEF TokenOf
  <2>5. PromisesNow(f)
    BY <2>2, <2>3, <2>4 DEF PromisesNow, Promises
  <2>6. f \in Frame
    <3>1. PICK n : n = Len(frames')
      OBVIOUS
    <3>2. n \in DOMAIN frames' /\ frames'[n] = f
      BY <2>2, <3>1, Typed
    <3> QED BY <3>2 DEF TypeInv, StackSound
  <2> QED BY <2>2, <2>3, <2>5, <2>6, CalledRoots, StillShows
<1>7. CASE ResolveChain(t, detached, h)
  <2>1. PICK l \in Loaders, s \in Slots : \E f : Chained(t, "resolve", h, l, s, f)
    BY <1>7, ResolveChainTyped
  <2>2. PICK f : Chained(t, "resolve", h, l, s, f)
    BY <2>1
  <2>3. /\ handles' = handles /\ value' = value /\ failed' = failed
        /\ value[t] = None /\ Begin(t, yes, detached)
    BY <1>2, <1>7 DEF ResolveChain, Unknown
  <2>4. Due(t, failed', request') /\ \A u \in Tokens : Due(u, failed, request) => Due(u, failed', request')
    BY <1>2, <2>3, BeginDue
  <2>5. f \in Frame /\ frames' = Append(frames, f) /\ TokenOf(f) = t
    BY <2>2 DEF Chained
  <2>6. PromisesNow(f)
    BY <2>3, <2>4, <2>5 DEF PromisesNow, Promises
  <2> QED BY <2>3, <2>4, <2>5, <2>6, CalledRoots, StillShows
<1>8. CASE ResolveUnserved(t, h)
  <2>1. /\ handles' = Answer(handles, h, Fallback) /\ value' = value /\ failed' = failed \cup {t}
        /\ frames' = frames /\ value[t] = None /\ request' = request
    BY <1>8 DEF ResolveUnserved, Unknown
  <2>2. \A u \in Tokens : Steady(u)
    BY <2>1 DEF Steady, Due
  <2>3. PICK v : v = Fallback
    OBVIOUS
  <2>4. Right(t, v) /\ v \in Ages \cup {None, Fallback} /\ handles' = Answer(handles, h, v)
    BY <2>1, <2>3 DEF Right, Due
  <2>5. \A k \in Handles : handles'[k] = handles[k] \/ ShowsNow(k)
    BY <2>4, AnswerShows
  <2> QED BY <2>1, <2>2, <2>5, StackRoots, ShowStaysRooted
<1> QED BY <1>3, <1>4, <1>5, <1>6, <1>7, <1>8 DEF Resolve

LEMMA FactoryReturnsShows ==
  ASSUME TypeInv, TypeInv', ShowInv, NEW ok \in BOOLEAN, FactoryReturns(ok)
  PROVE  ShowInv'
<1>1. PICK f, t : f = Top /\ t = f.token
  OBVIOUS
<1>2. frames # << >> /\ f.op = "factory"
  BY <1>1 DEF FactoryReturns
<1>3. Promises(f, value, failed, request) /\ t \in Tokens /\ f \in Frame /\ TokenOf(f) = t
  BY <1>1, <1>2, TopPromise
<1>4. /\ value[t] \in Ages \cup {None} /\ Fallback \notin Ages /\ Fallback # None
  BY <1>3, Typed, NotNone
<1>5. CASE ~Current(t, f.gen)
  <2>1. PICK v : v = IF value[t] # None THEN value[t] ELSE Fallback
    OBVIOUS
  <2>2. /\ handles' = AnswerFor(f, v) /\ frames' = Callers /\ value' = value /\ failed' = failed
        /\ request' = request
    BY <1>1, <1>5, <2>1 DEF FactoryReturns
  <2>3. v \in Ages \cup {None, Fallback} /\ (f.fresh => Right(t, v))
    BY <1>2, <1>3, <1>4, <2>1, <2>2 DEF Right, Promises
  <2>4. \A k \in Handles : handles'[k] = handles[k] \/ ShowsNow(k)
    BY <1>1, <1>2, <1>3, <2>2, <2>3, AnswerForShows
  <2>5. \A u \in Tokens : Steady(u)
    BY <2>2 DEF Steady
  <2> QED BY <1>2, <2>2, <2>4, <2>5, StackRoots, ShowStaysRooted
<1>6. CASE Current(t, f.gen) /\ ok
  <2>1. Publish(t, f.age, f.handle) /\ frames' = Aged(Callers)
    BY <1>1, <1>6 DEF FactoryReturns
  <2>2. f.age \in Ages
    BY <1>2, <1>3, FrameTypes DEF AgeOf
  <2>3. Asks(f.handle, t)
    <3>1. FrameSound(f, Len(frames), nextRequest, handles) /\ f.handle \in Handles \cup {None}
      BY <1>1, <1>2, <1>3, StackPopped, FrameTypes DEF TypeInv, Top
    <3> QED BY <1>2, <1>3, <3>1 DEF FrameSound, Asks
  <2> QED BY <1>2, <1>3, <2>1, <2>2, <2>3, PublishAnew
<1>7. CASE Current(t, f.gen) /\ ~ok
  <2>1. /\ request' = WithRequest(request, t, None) /\ failed' = failed \cup {t} /\ value' = value
        /\ handles' = AnswerFor(f, Fallback) /\ frames' = Callers
    BY <1>1, <1>7 DEF FactoryReturns, WithRequest
  <2>2. \A u \in Tokens : u # t => request'[u] = request[u]
    BY <1>3, <2>1, Forgotten
  <2>3. \A u \in Tokens : Steady(u)
    BY <2>1, <2>2 DEF Steady, Due
  <2>4. PICK v : v = Fallback
    OBVIOUS
  <2>5. v \in Ages \cup {None, Fallback} /\ (f.fresh => Right(t, v)) /\ handles' = AnswerFor(f, v)
    BY <1>2, <1>3, <2>1, <2>4 DEF Right, Promises, Due
  <2>6. \A k \in Handles : handles'[k] = handles[k] \/ ShowsNow(k)
    BY <1>1, <1>2, <1>3, <2>5, AnswerForShows
  <2> QED BY <1>2, <2>1, <2>3, <2>6, StackRoots, ShowStaysRooted
<1> QED BY <1>5, <1>6, <1>7

LEMMA ProbeShows ==
  ASSUME TypeInv, TypeInv', ShowInv, NEW t \in Tokens, NEW detached \in BOOLEAN,
         \/ ProbeCompleted(t) \/ ProbeJoin(t, detached) \/ ProbeAtOnce(t, detached)
         \/ ProbeChain(t, detached)
  PROVE  ShowInv'
<1>1. handles' = handles /\ value' = value /\ failed' = failed
  BY DEF ProbeCompleted, ProbeJoin, ProbeAtOnce, ProbeChain
<1>2. CASE ProbeCompleted(t) \/ ProbeAtOnce(t, detached)
  <2>1. request' = request /\ frames' = frames
    BY <1>2 DEF ProbeCompleted, ProbeAtOnce
  <2> QED BY <1>1, <2>1, StackRoots, StillShows
<1>3. CASE ProbeJoin(t, detached)
  <2>1. /\ request[t] # None /\ frames' = frames
        /\ request' = [request EXCEPT ![t].detached = @ \/ detached]
    BY <1>3 DEF ProbeJoin
  <2>2. \E r \in Request : /\ Wants(request[t], r)
                           /\ [request EXCEPT ![t].detached = @ \/ detached] =
                                WithRequest(request, t, r)
    BY <2>1, Joined
  <2>3. PICK r \in Request : Wants(request[t], r) /\ request' = WithRequest(request, t, r)
    BY <2>1, <2>2
  <2>4. request'[t] = r /\ r # None /\ \A u \in Tokens : u # t => request'[u] = request[u]
    BY <2>3, Typed, NotNone DEF WithRequest
  <2>5. \A u \in Tokens : Due(u, failed, request) => Due(u, failed', request')
    BY <1>1, <2>3, <2>4 DEF Due, Wants
  <2> QED BY <1>1, <2>1, <2>5, StackRoots, StillShows
<1>4. CASE ProbeChain(t, detached)
  <2>1. PICK l \in Loaders, s \in Slots : \E f : Chained(t, "probe", None, l, s, f)
    BY <1>4, ProbeChainTyped
  <2>2. PICK f : Chained(t, "probe", None, l, s, f)
    BY <2>1
  <2>3. f \in Frame /\ frames' = Append(frames, f) /\ f.op = "call" /\ f.handle = None
    BY <2>2 DEF Chained
  <2>4. PICK no \in BOOLEAN : no = FALSE
    OBVIOUS
  <2>5. Begin(t, no, detached)
    BY <1>4, <2>4 DEF ProbeChain
  <2>6. \A u \in Tokens : Due(u, failed, request) => Due(u, failed', request')
    BY <1>1, <2>5, BeginDue
  <2>7. ~f.fresh
    <3>1. PICK n : n = Len(frames')
      OBVIOUS
    <3>2. n \in DOMAIN frames' /\ frames'[n] = f
      BY <2>3, <3>1, Typed
    <3> QED BY <2>3, <3>2 DEF TypeInv, StackSound, FrameSound
  <2>8. PromisesNow(f)
    BY <2>7 DEF PromisesNow, Promises
  <2> QED BY <1>1, <2>3, <2>6, <2>8, CalledRoots, StillShows
<1> QED BY <1>2, <1>3, <1>4

LEMMA PollShows ==
  ASSUME TypeInv, TypeInv', ShowInv, PollBegin \/ PollSlot \/ PollEnd
  PROVE  ShowInv'
<1>1. handles' = handles /\ value' = value /\ failed' = failed /\ request' = request
  BY DEF PollBegin, PollSlot, PollEnd
<1>2. \A h \in Handles : ShowsNow(h)
  BY <1>1 DEF ShowInv, ShowsNow
<1>3. ASSUME NEW i \in DOMAIN frames', frames'[i].op # "poll" PROVE ~frames'[i].fresh
  <2>1. CASE PollBegin
    BY <1>3, <2>1 DEF PollBegin
  <2>2. CASE PollEnd
    BY <1>3, <2>2 DEF PollEnd
  <2>3. CASE PollSlot
    <3>1. PICK g, h : SlotVisited(g, h)
      BY <2>3, PollSlotFrames
    <3> QED BY <1>3, <3>1 DEF SlotVisited
  <2> QED BY <2>1, <2>2, <2>3
<1> QED BY <1>2, <1>3, ShowsAnew

LEMMA PollQueuedShows ==
  ASSUME TypeInv, TypeInv', ShowInv, NEW t \in Tokens, PollQueued(t)
  PROVE  ShowInv'
<1>1. handles' = handles /\ value' = value
  BY DEF PollQueued
<1>2. \/ /\ failed' = failed \cup {t} /\ request' = WithRequest(request, t, None)
         /\ slots' = slots /\ frames' = frames
      \/ \E l \in Loaders, s \in Slots : \E f : Dequeued(t, l, s, f)
  BY PollQueuedTyped
<1>3. CASE failed' = failed \cup {t} /\ request' = WithRequest(request, t, None) /\ frames' = frames
  <2>1. \A u \in Tokens : u # t => request'[u] = request[u]
    BY <1>3, Forgotten
  <2>2. \A u \in Tokens : Due(u, failed, request) => Due(u, failed', request')
    BY <1>3, <2>1 DEF Due
  <2> QED BY <1>1, <1>3, <2>2, StackRoots, StillShows
<1>4. ASSUME NEW l \in Loaders, NEW s \in Slots, NEW f, Dequeued(t, l, s, f) PROVE ShowInv'
  <2>1. /\ f \in Frame /\ ~f.fresh /\ frames' = Append(frames, f)
        /\ request'[t] # None /\ request'[t].load = request[t].load
        /\ failed' = failed /\ \A u \in Tokens : u # t => request'[u] = request[u]
    BY <1>4 DEF Dequeued
  <2>2. \A u \in Tokens : Due(u, failed, request) => Due(u, failed', request')
    BY <2>1 DEF Due
  <2>3. PromisesNow(f)
    BY <2>1 DEF PromisesNow, Promises
  <2> QED BY <1>1, <2>1, <2>2, <2>3, CalledRoots, StillShows
<1> QED BY <1>2, <1>3, <1>4

\* The answer of the innermost call, when the slots are all that changes besides.
LEMMA CallAnswers ==
  ASSUME TypeInv, TypeInv', ShowInv, Calling, NEW f, f = Top, NEW v \in Ages \cup {None, Fallback},
         handles' = AnswerFor(f, v), f.fresh => Right(f.call.token, v), value' = value,
         \A t \in Tokens : Due(t, failed, request) => Due(t, failed', request'), frames' = Callers
  PROVE  ShowInv'
<1>1. frames # << >> /\ f.op = "call" /\ TokenOf(f) = f.call.token
  BY CallTop DEF TokenOf
<1>2. \A k \in Handles : handles'[k] = handles[k] \/ ShowsNow(k)
  BY <1>1, AnswerForShows
<1>3. \A t \in Tokens : Steady(t)
  BY DEF Steady
<1> QED BY <1>1, <1>2, <1>3, StackRoots, ShowStaysRooted

LEMMA ReturnStaleShows ==
  ASSUME TypeInv, TypeInv', ShowInv, ReturnStale
  PROVE  ShowInv'
<1>1. PICK f, t : f = Top /\ t = f.call.token
  OBVIOUS
<1>2. Calling
  BY DEF ReturnStale
<1>3. /\ frames # << >> /\ f.op = "call" /\ Promises(f, value, failed, request)
      /\ t \in Tokens /\ TokenOf(f) = t
  BY <1>1, <1>2, CallTop, TopPromise DEF TokenOf
<1>4. PICK v : v = IF value[t] # None THEN value[t] ELSE Fallback
  OBVIOUS
<1>5. \/ handles' = Outdated /\ frames' = Aged(Callers)
      \/ handles' = AnswerFor(f, v) /\ frames' = Callers
  BY <1>1, <1>4 DEF ReturnStale
<1>6. value' = value /\ failed' = failed /\ request' = request
  BY DEF ReturnStale
<1>7. v \in Ages \cup {None, Fallback} /\ (f.fresh => Right(t, v))
  <2>1. value[t] \in Ages \cup {None} /\ Fallback \notin Ages /\ Fallback # None
    BY <1>3, Typed, NotNone
  <2> QED BY <1>3, <1>4, <1>6, <2>1 DEF Right, Promises
<1> QED BY <1>1, <1>2, <1>3, <1>5, <1>6, <1>7, OutdatedAnew, CallAnswers

LEMMA ReturnPendingShows ==
  ASSUME TypeInv, TypeInv', ShowInv, ReturnPending
  PROVE  ShowInv'
<1>1. PICK f, t, v : f = Top /\ t = f.call.token /\ v = Fallback
  OBVIOUS
<1>2. Calling
  BY DEF ReturnPending, Ongoing
<1>3. /\ frames # << >> /\ f.op = "call" /\ Promises(f, value, failed, request)
      /\ t \in Tokens /\ TokenOf(f) = t
  BY <1>1, <1>2, CallTop, TopPromise DEF TokenOf
<1>4. /\ handles' = AnswerFor(f, v) /\ frames' = Callers
      /\ value' = value /\ failed' = failed /\ request' = request
  BY <1>1 DEF ReturnPending
<1>5. v \in Ages \cup {None, Fallback} /\ (f.fresh => Right(t, v))
  BY <1>1, <1>3, <1>4 DEF Right, Promises
<1> QED BY <1>1, <1>2, <1>4, <1>5, CallAnswers

LEMMA ReturnValueShows ==
  ASSUME TypeInv, TypeInv', ShowInv, ReturnValue
  PROVE  ShowInv'
<1>1. PICK f, t : f = Top /\ t = f.call.token
  OBVIOUS
<1>2. Calling
  BY DEF ReturnValue, Ongoing
<1>3. /\ frames # << >> /\ t \in Tokens /\ f.call.age \in Ages /\ Asks(f.handle, t)
  BY <1>1, <1>2, CallTop DEF Asks
<1>4. Publish(t, f.call.age, f.handle) /\ frames' = Aged(Callers)
  BY <1>1 DEF ReturnValue
<1> QED BY <1>3, <1>4, PublishAnew

LEMMA TopAlone ==
  ASSUME TypeInv, AloneInv, frames # << >>, NEW f, f = Top
  PROVE  ProbeAlone(f, request)
<1>1. f = frames[Len(frames)] /\ Len(frames) \in DOMAIN frames
  BY Typed, Popped DEF Top
<1> QED BY <1>1 DEF AloneInv

LEMMA ReturnMetaShows ==
  ASSUME TypeInv, TypeInv', ShowInv, AloneInv, ReturnMeta
  PROVE  ShowInv'
<1>1. PICK f, t : f = Top /\ t = f.call.token
  OBVIOUS
<1>2. Calling
  BY DEF ReturnMeta, Ongoing
<1>3. /\ frames # << >> /\ f.op = "call" /\ t \in Tokens
  BY <1>1, <1>2, CallTop
<1>4. /\ value' = value /\ failed' = failed /\ request' = WithRequest(request, t, None)
      /\ f.call.probe /\ Current(t, f.call.gen)
  BY <1>1 DEF ReturnMeta, WithRequest, Ongoing
<1>5. CASE f.by # "probe"
  <2>1. handles' = Outdated /\ frames' = Aged(Callers)
    BY <1>1, <1>5 DEF ReturnMeta
  <2> QED BY <1>3, <2>1, OutdatedAnew
<1>6. CASE f.by = "probe"
  <2>1. handles' = handles /\ frames' = Callers
    BY <1>1, <1>6 DEF ReturnMeta
  <2>2. ProbeAlone(f, request)
    BY <1>1, <1>3, TopAlone
  <2>3. ~request[t].load
    BY <1>1, <1>3, <1>4, <1>6, <2>2 DEF ProbeAlone, TokenOf, GenOf, Current
  <2>4. \A u \in Tokens : u # t => request'[u] = request[u]
    BY <1>3, <1>4, Forgotten
  <2>5. \A u \in Tokens : Due(u, failed, request) => Due(u, failed', request')
    BY <1>4, <2>3, <2>4 DEF Due
  <2> QED BY <1>3, <1>4, <2>1, <2>5, StackRoots, StillShows
<1> QED BY <1>5, <1>6

LEMMA ReturnErrorShows ==
  ASSUME TypeInv, TypeInv', ShowInv, AloneInv, NEW notMine \in BOOLEAN, ReturnError(notMine)
  PROVE  ShowInv'
<1>1. PICK f, t, v : f = Top /\ t = f.call.token /\ v = Fallback
  OBVIOUS
<1>2. Calling
  BY DEF ReturnError, Ongoing
<1>3. /\ frames # << >> /\ f.op = "call" /\ t \in Tokens /\ CallSound(f)
      /\ f.by \in {"resolve", "probe", "slot", "queued", "next"}
      /\ f.fresh => f.handle # None
      /\ Promises(f, value, failed, request) /\ TokenOf(f) = t
  BY <1>1, <1>2, CallTop, TopPromise, FrameTypes DEF TokenOf
<1>4. /\ value' = value /\ request' = WithRequest(request, t, None) /\ Current(t, f.call.gen)
  BY <1>1 DEF ReturnError, WithRequest, Ongoing
<1>5. \A u \in Tokens : u # t => request'[u] = request[u]
  BY <1>3, <1>4, Forgotten
<1>6. CASE f.by \in {"slot", "next"}
  <2>1. handles' = Outdated /\ frames' = Aged(Callers)
    BY <1>1, <1>6 DEF ReturnError
  <2> QED BY <1>3, <2>1, OutdatedAnew
<1>7. CASE f.by \in {"resolve", "queued"}
  <2>1. handles' = AnswerFor(f, v) /\ frames' = Callers /\ failed' = failed \cup {t}
    BY <1>1, <1>3, <1>7 DEF ReturnError, ProbeOnly, CallSound
  <2>2. \A u \in Tokens : Due(u, failed, request) => Due(u, failed', request')
    BY <1>5, <2>1 DEF Due
  <2>3. v \in Ages \cup {None, Fallback} /\ (f.fresh => Right(t, v))
    BY <1>1, <1>3, <1>4, <2>1 DEF Right, Promises, Due
  <2> QED BY <1>1, <1>2, <1>4, <2>1, <2>2, <2>3, CallAnswers
<1>8. CASE f.by = "probe"
  <2>1. handles' = AnswerFor(f, v) /\ frames' = Callers /\ failed' = failed
    BY <1>1, <1>8 DEF ReturnError
  <2>2. ProbeAlone(f, request)
    BY <1>1, <1>3, TopAlone
  <2>3. f.call.probe /\ ~f.fresh
    BY <1>3, <1>8, NotNone DEF CallSound
  <2>4. ~request[t].load
    BY <1>1, <1>3, <1>4, <1>8, <2>2, <2>3 DEF ProbeAlone, TokenOf, GenOf, Current
  <2>5. \A u \in Tokens : Due(u, failed, request) => Due(u, failed', request')
    BY <1>5, <2>1, <2>4 DEF Due
  <2>6. v \in Ages \cup {None, Fallback}
    BY <1>1
  <2> QED BY <1>1, <1>2, <1>4, <2>1, <2>3, <2>5, <2>6, CallAnswers
<1> QED BY <1>3, <1>6, <1>7, <1>8

LEMMA ReturnOnShows ==
  ASSUME TypeInv, TypeInv', ShowInv, ReturnNotMine \/ ReturnMetaWanted
  PROVE  ShowInv'
<1>1. PICK f : f = Top
  OBVIOUS
<1>2. Calling /\ handles' = handles /\ value' = value /\ failed' = failed /\ request' = request
  BY DEF ReturnNotMine, ReturnMetaWanted, Ongoing
<1>3. frames # << >> /\ f.op = "call"
  BY <1>1, <1>2, CallTop
<1>4. CASE ReturnMetaWanted
  <2>1. frames' = Callers
    BY <1>4 DEF ReturnMetaWanted
  <2> QED BY <1>2, <1>3, <2>1, StackRoots, StillShows
<1>5. CASE ReturnNotMine
  <2>1. PICK l \in Loaders, s \in Slots, x \in Slots : \E S, h, probe : NotMine(f, S, x, l, s, h, probe)
    BY <1>1, <1>5, NotMineFacts
  <2>2. PICK S, h, probe : NotMine(f, S, x, l, s, h, probe)
    BY <2>1
  <2>3. /\ h \in Frame /\ h.op = "call" /\ frames' = Append(Callers, h) /\ (h.fresh <=> f.fresh)
        /\ TokenOf(h) = TokenOf(f)
    BY <1>3, <2>2 DEF NotMine, TokenOf
  <2>4. Promises(f, value, failed, request)
    BY <1>1, <1>3, TopPromise
  <2>5. PromisesNow(h)
    BY <1>2, <1>3, <2>3, <2>4 DEF PromisesNow, Promises
  <2>6. RootedBut(frames, frames', h)
    BY <1>3, <2>3, NextCalledRoots
  <2> QED BY <1>2, <2>5, <2>6, StillShows
<1> QED BY <1>4, <1>5

LEMMA NextShows ==
  ASSUME TypeInv, TypeInv', AloneInv, ShowInv, [Next]_vars
  PROVE  ShowInv'
<1>1. ASSUME handles' = handles, value' = value, failed' = failed, request' = request,
             Rooted(frames, frames')
      PROVE  ShowInv'
  BY <1>1, StillShows
<1>2. ASSUME NEW t \in Tokens, (\E kind \in Offered : Register(t, kind)) \/ ClearFailed(t) PROVE ShowInv'
  BY <1>2, OutdatedAnew DEF Register, ClearFailed
<1>3. ASSUME NEW t \in Tokens, Resolve(t, TRUE, None) PROVE ShowInv'
  <2>1. Asks(None, t)
    BY DEF Asks
  <2>2. \E detached \in BOOLEAN : Resolve(t, detached, None)
    BY <1>3
  <2> QED BY <2>1, <2>2, ResolveShows
<1>4. ASSUME NEW h \in Handles, Get(h) PROVE ShowInv'
  <2>1. PICK t : t = handles[h].token
    OBVIOUS
  <2>2. t \in Tokens /\ Asks(h, t)
    BY <1>4, <2>1, Typed DEF Get, Asks, HandleState
  <2>3. \E detached \in BOOLEAN : Resolve(t, detached, h)
    BY <1>4, <2>1 DEF Get
  <2> QED BY <2>2, <2>3, ResolveShows
<1>5. CASE Return
  BY <1>5, ReturnStaleShows, ReturnPendingShows, ReturnValueShows, ReturnMetaShows, ReturnErrorShows,
     ReturnOnShows DEF Return
<1>6. ASSUME NEW l \in Loaders, NEW s \in Slots, WakeSlot(l, s) PROVE ShowInv'
  BY <1>1, <1>6, StackRoots DEF WakeSlot
<1>7. ASSUME NEW i \in DOMAIN frames, WakeRunning(i) PROVE ShowInv'
  BY <1>1, <1>7, WakeRunningRoots DEF WakeRunning
<1>8. CASE WakeLate
  BY <1>1, <1>8, StackRoots DEF WakeLate
<1>9. CASE UNCHANGED vars
  BY <1>1, <1>9, StackRoots DEF vars
<1>10. ASSUME NEW t \in Tokens, ProbeCompleted(t) PROVE ShowInv'
  BY <1>10, ProbeShows
<1> QED BY <1>2, <1>3, <1>4, <1>5, <1>6, <1>7, <1>8, <1>9, <1>10, ReloadShows, ProbeShows,
           PollQueuedShows, HandleShows, DropHandleShows, FactoryReturnsShows, PollShows DEF Next

LEMMA ShowsHold == ASSUME Quiet PROVE Spec => []ShowInv
<1>1. Init => ShowInv
  BY DEF Init, ShowInv, Shows
<1>2. Spec => []TypeInv /\ []AloneInv
  BY TypesHold, AloneHolds
<1>3. TypeInv /\ TypeInv' /\ AloneInv /\ ShowInv /\ [Next]_vars => ShowInv'
  BY NextShows
<1> QED BY <1>1, <1>2, <1>3, PTL DEF Spec

\* A handle whose cached answer is usable shows the resident value, and it shows the
\* fallback only for a token that failed or is being loaded, as long as a callback
\* does not resolve the token that a loader probes.  If it does, the load is lost
\* with the probe's request, and a handle keeps the fallback of a load nobody makes.
THEOREM HandlesShowTheValue == ASSUME Quiet PROVE Spec => []HandlesCurrent
<1>1. ShowInv => HandlesCurrent
  BY DEF ShowInv, Shows, Due, HandlesCurrent
<1> QED BY <1>1, ShowsHold, PTL

-----------------------------------------------------------------------------
(***************************************************************************)
(* What becomes of a load that was asked for.                              *)
(***************************************************************************)

\* How a load of token t may end.
Met(t) ==
  \/ t \in failed' \/ value'[t] = age[t] \/ age'[t] # age[t]
  \/ ~request[t].detached /\ Holders(t) # {} /\ Holders(t)' = {}
DemandMet(t) == request[t] # None /\ request[t].load /\ request'[t] = None => Met(t)

\* A cache that holds anything holds what was put there last.
LEMMA PublishMeets ==
  ASSUME TypeInv, CacheLimit > 0, NEW t \in Tokens, NEW v \in Ages, v = age[t], value' \in Inserted(t, v)
  PROVE  Met(t)
<1>1. value \in [Tokens -> Ages \cup {None}] /\ CacheLimit # 0
  BY Typed, SizesAssumption
<1>2. \/ value' = [value EXCEPT ![t] = v]
      \/ \E u \in Tokens \ {t} : value' = [value EXCEPT ![t] = v, ![u] = None]
  BY <1>1 DEF Inserted
<1>3. value'[t] = v
  BY <1>1, <1>2
<1> QED BY <1>3 DEF Met

\* Only the request of one token goes.
LEMMA OneMet ==
  ASSUME TypeInv, NEW t \in Tokens, request' = WithRequest(request, t, None),
         request[t] # None /\ request[t].load => Met(t)
  PROVE  \A u \in Tokens : DemandMet(u)
<1>1. \A u \in Tokens : u # t => request'[u] = request[u]
  BY Forgotten
<1> QED BY <1>1 DEF DemandMet

LEMMA RegisterMeets ==
  ASSUME TypeInv, NEW t \in Tokens, NEW kind \in Offered, Register(t, kind)
  PROVE  \A u \in Tokens : DemandMet(u)
<1>1. age'[t] = age[t] + 1 /\ age[t] \in Nat
  BY Typed, Sizes DEF Register, Ages
<1>2. Met(t)
  BY <1>1 DEF Met
<1>3. request' = WithRequest(request, t, None)
  BY DEF Register, WithRequest
<1> QED BY <1>2, <1>3, OneMet

LEMMA DropHandleMeets ==
  ASSUME TypeInv, NEW h \in Handles, DropHandle(h)
  PROVE  \A u \in Tokens : DemandMet(u)
<1>1. PICK t : t = handles[h].token
  OBVIOUS
<1>2. handles[h] # None /\ handles' = [handles EXCEPT ![h] = None]
  BY DEF DropHandle
<1>3. t \in Tokens
  BY <1>1, <1>2, Typed DEF HandleState
<1>4. CASE request' = request
  BY <1>4 DEF DemandMet
<1>5. CASE request' # request
  <2>1. /\ request' = WithRequest(request, t, None) /\ Holders(t) = {h}
        /\ ~(request[t] # None /\ request[t].detached)
    BY <1>1, <1>5 DEF DropHandle, WithRequest
  <2>2. handles'[h] = None /\ \A k \in Handles : k # h => handles'[k] = handles[k]
    BY <1>2, Typed
  <2>3. Holders(t)' = {}
    BY <2>1, <2>2 DEF Holders
  <2>4. request[t] # None => Met(t)
    BY <2>1, <2>3 DEF Met
  <2> QED BY <1>3, <2>1, <2>4, OneMet
<1> QED BY <1>4, <1>5

LEMMA FactoryMeets ==
  ASSUME TypeInv, ServeInv, CacheLimit > 0, NEW ok \in BOOLEAN, FactoryReturns(ok)
  PROVE  \A u \in Tokens : DemandMet(u)
<1>1. PICK f, t : f = Top /\ t = f.token
  OBVIOUS
<1>2. frames # << >> /\ f.op = "factory"
  BY <1>1 DEF FactoryReturns
<1>3. CASE ~Current(t, f.gen)
  <2>1. request' = request
    BY <1>1, <1>3 DEF FactoryReturns
  <2> QED BY <2>1 DEF DemandMet
<1>4. CASE Current(t, f.gen)
  <2>1. t \in Tokens /\ f.age \in Ages /\ f.age = age[t]
    BY <1>1, <1>2, <1>4, FactoryAge
  <2>2. request' = WithRequest(request, t, None) /\ (t \in failed' \/ value' \in Inserted(t, f.age))
    BY <1>1, <1>4 DEF FactoryReturns, Publish, WithRequest
  <2>3. Met(t)
    BY <2>1, <2>2, PublishMeets DEF Met
  <2> QED BY <2>1, <2>2, <2>3, OneMet
<1> QED BY <1>3, <1>4

LEMMA ReturnMeets ==
  ASSUME TypeInv, ServeInv, AloneInv, CacheLimit > 0, Return
  PROVE  \A u \in Tokens : DemandMet(u)
<1>1. PICK f, t : f = Top /\ t = f.call.token
  OBVIOUS
<1>2. CASE ReturnStale \/ ReturnPending \/ ReturnMetaWanted \/ ReturnNotMine
  <2>1. request' = request
    BY <1>2 DEF ReturnStale, ReturnPending, ReturnMetaWanted, ReturnNotMine
  <2> QED BY <2>1 DEF DemandMet
<1>3. CASE ReturnValue \/ ReturnMeta \/ \E notMine \in BOOLEAN : ReturnError(notMine)
  <2>1. /\ Calling /\ Current(t, f.call.gen) /\ request' = WithRequest(request, t, None)
    BY <1>1, <1>3 DEF ReturnValue, ReturnMeta, ReturnError, Ongoing, WithRequest
  <2>2. /\ frames # << >> /\ f.op = "call" /\ t \in Tokens /\ f.call.age \in Ages
        /\ CallSound(f) /\ f.call.age = age[t]
    BY <1>1, <2>1, CallTop, TopServes
  <2>3. ASSUME f.call.probe, f.by = "slot" => ~request[t].load PROVE ~request[t].load
    <3>1. ProbeAlone(f, request)
      BY <1>1, <2>2, TopAlone
    <3> QED BY <1>1, <2>1, <2>2, <2>3, <3>1 DEF ProbeAlone, TokenOf, GenOf, Current
  <2>4. CASE ReturnValue
    <3>1. value' \in Inserted(t, f.call.age)
      BY <1>1, <2>4 DEF ReturnValue, Publish
    <3>2. Met(t)
      BY <2>2, <3>1, PublishMeets
    <3> QED BY <2>1, <2>2, <3>2, OneMet
  <2>5. CASE ReturnMeta
    <3>1. ~request[t].load
      BY <1>1, <2>3, <2>5 DEF ReturnMeta
    <3> QED BY <2>1, <2>2, <3>1, OneMet
  <2>6. ASSUME NEW notMine \in BOOLEAN, ReturnError(notMine) PROVE \A u \in Tokens : DemandMet(u)
    <3>1. t \in failed' \/ f.by = "probe" \/ ProbeOnly(f)
      BY <1>1, <2>6 DEF ReturnError
    <3>2. f.by = "probe" \/ ProbeOnly(f) => ~request[t].load
      BY <1>1, <2>2, <2>3 DEF ProbeOnly, CallSound
    <3>3. request[t].load => Met(t)
      BY <3>1, <3>2 DEF Met
    <3> QED BY <2>1, <2>2, <3>3, OneMet
  <2> QED BY <1>3, <2>4, <2>5, <2>6
<1> QED BY <1>2, <1>3 DEF Return

LEMMA ResolveMeets ==
  ASSUME TypeInv, NEW t \in Tokens, NEW detached \in BOOLEAN, NEW h, Resolve(t, detached, h)
  PROVE  \A u \in Tokens : DemandMet(u)
<1>1. CASE request' = request
  BY <1>1 DEF DemandMet
<1>2. CASE \E load \in BOOLEAN : Begin(t, load, detached)
  BY <1>2, BeginFacts DEF DemandMet
<1>3. CASE ResolveJoin(t, detached, h)
  <2>1. /\ request[t] # None
        /\ request' = [request EXCEPT ![t].detached = @ \/ detached, ![t].load = TRUE]
    BY <1>3 DEF ResolveJoin
  <2>2. \E r \in Request : /\ Wants(request[t], r) /\ r.load
                           /\ [request EXCEPT ![t].detached = @ \/ detached, ![t].load = TRUE] =
                                WithRequest(request, t, r)
    BY <2>1, Joined
  <2>3. PICK r \in Request : request' = WithRequest(request, t, r)
    BY <2>1, <2>2
  <2>4. request'[t] # None /\ \A u \in Tokens : u # t => request'[u] = request[u]
    BY <2>3, Typed, NotNone DEF WithRequest
  <2> QED BY <2>4 DEF DemandMet
<1> QED BY <1>1, <1>2, <1>3 DEF Resolve, ResolveAtOnce, ResolveStatic, ResolveFactory, ResolveChain,
           ResolveUnserved

LEMMA NextMeets ==
  TypeInv /\ ServeInv /\ AloneInv /\ CacheLimit > 0 /\ [Next]_vars
    => [\A t \in Tokens : DemandMet(t)]_vars
<1> SUFFICES ASSUME TypeInv, ServeInv, AloneInv, CacheLimit > 0, Next
             PROVE  \A u \in Tokens : DemandMet(u)
  OBVIOUS
<1>1. ASSUME request' = request PROVE \A u \in Tokens : DemandMet(u)
  BY <1>1 DEF DemandMet
<1>2. ASSUME NEW t \in Tokens, NEW r \in Request, request' = WithRequest(request, t, r)
      PROVE  \A u \in Tokens : DemandMet(u)
  <2>1. request'[t] # None /\ \A u \in Tokens : u # t => request'[u] = request[u]
    BY <1>2, Typed, NotNone DEF WithRequest
  <2> QED BY <2>1 DEF DemandMet
<1>3. ASSUME NEW t \in Tokens, Reload(t) PROVE \A u \in Tokens : DemandMet(u)
  <2>1. PICK r : r = [gen |-> nextRequest + 1, load |-> TRUE, queued |-> TRUE, detached |-> TRUE]
    OBVIOUS
  <2>2. nextRequest + 1 \in 1..MaxRequest
    BY <1>3, Typed, Sizes DEF Reload
  <2>3. r \in Request /\ request' = WithRequest(request, t, r)
    BY <1>3, <2>1, <2>2 DEF Request, Reload, WithRequest
  <2> QED BY <1>2, <2>3
<1>4. ASSUME NEW t \in Tokens, NEW detached \in BOOLEAN,
             ProbeJoin(t, detached) \/ ProbeAtOnce(t, detached) \/ ProbeChain(t, detached)
      PROVE  \A u \in Tokens : DemandMet(u)
  <2>1. CASE ProbeJoin(t, detached)
    <3>1. request[t] # None /\ request' = [request EXCEPT ![t].detached = @ \/ detached]
      BY <2>1 DEF ProbeJoin
    <3>2. \E r \in Request : /\ Wants(request[t], r)
                             /\ [request EXCEPT ![t].detached = @ \/ detached] =
                                  WithRequest(request, t, r)
      BY <3>1, Joined
    <3> QED BY <1>2, <3>1, <3>2
  <2>2. CASE ProbeAtOnce(t, detached)
    BY <1>1, <2>2 DEF ProbeAtOnce
  <2>3. CASE ProbeChain(t, detached)
    <3>1. PICK no \in BOOLEAN : no = FALSE
      OBVIOUS
    <3>2. Begin(t, no, detached)
      BY <2>3, <3>1 DEF ProbeChain
    <3> QED BY <3>2, BeginFacts DEF DemandMet
  <2> QED BY <1>4, <2>1, <2>2, <2>3
<1>5. ASSUME NEW t \in Tokens, PollQueued(t) PROVE \A u \in Tokens : DemandMet(u)
  <2>1. \/ failed' = failed \cup {t} /\ request' = WithRequest(request, t, None)
        \/ \E l \in Loaders, s \in Slots : \E f : Dequeued(t, l, s, f)
    BY <1>5, PollQueuedTyped
  <2>2. CASE failed' = failed \cup {t} /\ request' = WithRequest(request, t, None)
    BY <2>2, OneMet DEF Met
  <2>3. ASSUME NEW l \in Loaders, NEW s \in Slots, NEW f, Dequeued(t, l, s, f)
        PROVE  \A u \in Tokens : DemandMet(u)
    BY <2>3 DEF Dequeued, DemandMet
  <2> QED BY <2>1, <2>2, <2>3
<1>6. ASSUME NEW h \in Handles, Get(h) PROVE \A u \in Tokens : DemandMet(u)
  <2>1. PICK t : t = handles[h].token
    OBVIOUS
  <2>2. t \in Tokens /\ \E detached \in BOOLEAN : Resolve(t, detached, h)
    BY <1>6, <2>1, Typed DEF Get, HandleState
  <2> QED BY <2>2, ResolveMeets
<1>7. ASSUME NEW t \in Tokens, Resolve(t, TRUE, None) PROVE \A u \in Tokens : DemandMet(u)
  <2>1. \E detached \in BOOLEAN : Resolve(t, detached, None)
    BY <1>7
  <2> QED BY <2>1, ResolveMeets
<1>8. ASSUME NEW t \in Tokens, ClearFailed(t) \/ ProbeCompleted(t) PROVE \A u \in Tokens : DemandMet(u)
  BY <1>1, <1>8 DEF ClearFailed, ProbeCompleted
<1>9. ASSUME NEW h \in Handles, (\E t \in Tokens : Load(h, t)) \/ \E copy \in Handles : CloneHandle(h, copy)
      PROVE  \A u \in Tokens : DemandMet(u)
  BY <1>1, <1>9 DEF Load, CloneHandle
<1>10. CASE \/ PollBegin \/ PollSlot \/ PollEnd \/ WakeLate
            \/ \E l \in Loaders, s \in Slots : WakeSlot(l, s)
            \/ \E i \in DOMAIN frames : WakeRunning(i)
  BY <1>1, <1>10 DEF PollBegin, PollSlot, PollEnd, WakeLate, WakeSlot, WakeRunning
<1> QED BY <1>3, <1>4, <1>5, <1>6, <1>7, <1>8, <1>9, <1>10, RegisterMeets, DropHandleMeets,
           FactoryMeets, ReturnMeets DEF Next

\* A load that was asked for ends with a value, a failure, a registration or reload
\* in its place, or with the last handle that wanted it (docs/resources.md:54): for
\* every cache that holds anything, and as long as a callback does not resolve the
\* token that a loader probes.
THEOREM NoLoadForgotten == ASSUME Quiet, CacheLimit > 0 PROVE Spec => DemandKept
<1>1. TypeInv /\ ServeInv /\ AloneInv /\ [Next]_vars =>
        [\A t \in Tokens :
          request[t] # None /\ request[t].load /\ request'[t] = None =>
            \/ t \in failed' \/ value'[t] = age[t] \/ age'[t] # age[t]
            \/ ~request[t].detached /\ Holders(t) # {} /\ Holders(t)' = {}]_vars
  BY NextMeets DEF DemandMet, Met
<1> QED BY <1>1, TypesHold, ServesHold, AloneHolds, PTL DEF Spec, DemandKept

-----------------------------------------------------------------------------
(***************************************************************************)
(* What nobody wants any more, when callbacks leave the manager alone.     *)
(***************************************************************************)
\* Call c waits in slot s of loader l, requests are R: if nobody wants it, it was
\* woken to be retired, and the manager is scheduled or on its way to it.
CellRetires(c, l, s, R, ready, stack) ==
  Waits(c) /\ ~(R[c.token] # None /\ R[c.token].gen = c.gen) =>
    c.ready /\ (ready \/ Ahead(stack, l, s))
RetireInv ==
  \A l \in Loaders, s \in Slots : CellRetires(slots[l][s], l, s, request, managerReady, frames)

\* A request that ends has no call in a slot.
EndsIdle(t) ==
  request[t] # None =>
    \/ request'[t] # None /\ request'[t].gen = request[t].gen
    \/ Waiting(slots, t, request[t].gen) = {}
EndIdle == \A t \in Tokens : EndsIdle(t)

\* The calls in the slots stay, or are no calls that must be retired.
CellsRetire ==
  \A l \in Loaders, s \in Slots :
    \/ slots'[l][s] = slots[l][s]
    \/ CellRetires(slots'[l][s], l, s, request', managerReady', frames')

LEMMA RetiresStay ==
  ASSUME TypeInv, WakeInv, RetireInv, UNCHANGED wake \/ \E woken : WakeManager(woken),
         PollKept(frames, frames'), EndIdle, CellsRetire
  PROVE  RetireInv'
<1>1. managerReady => managerReady'
  BY Scheduled
<1>2. \A l, s : Ahead(frames, l, s) => Ahead(frames', l, s)
  BY DEF Ahead, PollKept
<1>3. ASSUME NEW l \in Loaders, NEW s \in Slots
      PROVE  CellRetires(slots'[l][s], l, s, request', managerReady', frames')
  <2> SUFFICES ASSUME slots'[l][s] = slots[l][s], Waits(slots[l][s])
               PROVE  CellRetires(slots'[l][s], l, s, request', managerReady', frames')
    BY DEF CellRetires, CellsRetire
  <2>1. PICK c : c = slots[l][s]
    OBVIOUS
  <2>2. c.token \in Tokens
    BY <2>1, Typed DEF Grid, Row, Waits, CallState
  <2>3. CellRetires(c, l, s, request, managerReady, frames)
    BY <2>1 DEF RetireInv
  <2>4. ASSUME request[c.token] # None, request[c.token].gen = c.gen
        PROVE  request'[c.token] # None /\ request'[c.token].gen = c.gen
    <3>1. <<l, s>> \in Waiting(slots, c.token, c.gen)
      BY <2>1 DEF Waiting, WaitsFor
    <3> QED BY <2>2, <2>4, <3>1 DEF EndIdle, EndsIdle
  <2> QED BY <1>1, <1>2, <2>1, <2>3, <2>4 DEF CellRetires
<1> QED BY <1>3 DEF RetireInv

LEMMA NoneEnds ==
  ASSUME \A t \in Tokens : request[t] # None => request'[t] # None /\ request'[t].gen = request[t].gen
  PROVE  EndIdle
BY DEF EndIdle, EndsIdle

LEMMA OneEnds ==
  ASSUME TypeInv, NEW t \in Tokens, request' = WithRequest(request, t, None),
         request[t] # None => Waiting(slots, t, request[t].gen) = {}
  PROVE  EndIdle
BY Forgotten DEF EndIdle, EndsIdle

\* Nothing to retire: an empty slot, one that is no call, or a call that is wanted.
LEMMA NothingRetires ==
  ASSUME NEW c, Idle(c) \/ c = Leased \/ (request'[c.token] # None /\ request'[c.token].gen = c.gen)
  PROVE  \A l, s : CellRetires(c, l, s, request', managerReady', frames')
BY DEF CellRetires, Idle, Waits

LEMMA TwoNewRetire ==
  ASSUME NEW U, NEW c, NEW d, OneNew(slots, U, c), OneNew(U, slots', d),
         \A l, s : CellRetires(c, l, s, request', managerReady', frames'),
         \A l, s : CellRetires(d, l, s, request', managerReady', frames')
  PROVE  CellsRetire
<1> SUFFICES ASSUME NEW l \in Loaders, NEW s \in Slots
             PROVE  \/ slots'[l][s] = slots[l][s]
                    \/ CellRetires(slots'[l][s], l, s, request', managerReady', frames')
  BY DEF CellsRetire
<1>1. slots'[l][s] = slots[l][s] \/ slots'[l][s] = c \/ slots'[l][s] = d
  BY DEF OneNew
<1> QED BY <1>1

LEMMA TakenRetires ==
  ASSUME NEW l \in Loaders, NEW s \in Slots, Taken(slots, slots', l, s)
  PROVE  CellsRetire
<1>1. OneNew(slots, slots', Leased)
  BY DEF Taken, SameBut, OneNew
<1>2. \A m, y : CellRetires(Leased, m, y, request', managerReady', frames')
  BY NothingRetires
<1> QED BY <1>1, <1>2 DEF CellsRetire, OneNew

\* A call of the token that is removed, replaced or reloaded is woken, and so is the
\* manager: by the call, or by whoever used the call's wake-up before.
LEMMA InvalidatedRetires ==
  ASSUME TypeInv, WakeInv, RetireInv, frames = << >>, NEW t \in Tokens,
         slots' = InvalidatedGrid(slots, t), \E woken : WakeManager(woken),
         (\E l \in Loaders, s \in Slots :
            Holds(slots[l][s], t) /\ Waits(slots[l][s]) /\ slots[l][s].linked) => managerReady',
         \A u \in Tokens : u # t => request'[u] = request[u]
  PROVE  RetireInv'
<1>1. GridSound(slots, nextRequest) /\ nextRequest \in Nat /\ slots \in Grid
  BY Typed DEF TypeInv
<1>2. PICK T : T = InvalidatedGrid(slots, t)
  OBVIOUS
<1>3. managerReady => managerReady'
  BY Scheduled
<1>4. \A m, y : ~Ahead(frames, m, y)
  BY DEF Ahead
<1>5. ASSUME NEW l \in Loaders, NEW s \in Slots
      PROVE  CellRetires(T[l][s], l, s, request', managerReady', frames')
  <2>1. T[l][s] # Leased =>
          T[l][s] = Free \/ (T[l][s] = slots[l][s] /\ slots[l][s].token # t)
          \/ WokenFrom(slots[l], t, T[l][s])
    BY <1>1, <1>2, InvalidatedGridFacts
  <2>2. PICK c : c = T[l][s]
    OBVIOUS
  <2>3. CASE c = Leased \/ c = Free
    BY <2>2, <2>3 DEF CellRetires, Waits, Free
  <2>4. CASE c = slots[l][s] /\ c.token # t
    <3>1. CellRetires(c, l, s, request, managerReady, frames)
      BY <2>4 DEF RetireInv
    <3>2. Waits(c) => c.token \in Tokens
      BY <1>1, <2>4 DEF Waits, Grid, Row, CallState
    <3>3. Waits(c) => request'[c.token] = request[c.token]
      BY <2>4, <3>2
    <3> QED BY <1>3, <1>4, <2>2, <3>1, <3>3 DEF CellRetires
  <2>5. CASE WokenFrom(slots[l], t, c)
    <3>1. PICK x \in Slots : Holds(slots[l][x], t) /\ slots[l][x].meta = None /\ c = Woken(slots[l][x])
      BY <2>5 DEF WokenFrom
    <3>2. PICK d : d = slots[l][x]
      OBVIOUS
    <3>3. d \in CallState /\ Waits(d) /\ d.token = t
      BY <1>1, <3>1, <3>2, NotNone DEF Grid, Row, Holds, Waits
    <3>4. c.ready
      BY <3>1, <3>2, <3>3, WokenFacts
    <3>5. CASE d.linked
      <4>1. managerReady'
        BY <3>1, <3>2, <3>3, <3>5
      <4> QED BY <2>2, <3>4, <4>1 DEF CellRetires
    <3>6. CASE ~d.linked
      <4>1. CellTold(d, l, x, request, managerReady, frames)
        BY <3>2 DEF WakeInv
      <4>2. CellRetires(d, l, x, request, managerReady, frames)
        BY <3>2 DEF RetireInv
      <4>3. managerReady
        BY <1>4, <3>3, <3>6, <4>1, <4>2 DEF CellTold, CellRetires
      <4> QED BY <1>3, <2>2, <3>4, <4>3 DEF CellRetires
    <3> QED BY <3>5, <3>6
  <2> QED BY <2>1, <2>2, <2>3, <2>4, <2>5
<1> QED BY <1>2, <1>5 DEF RetireInv

\* What the manager is asked for while nothing runs: no request is given up.
LEMMA AskedRetires ==
  ASSUME TypeInv, WakeInv, RetireInv, ~Reentrant, MayAct, UNCHANGED wake, EndIdle, CellsRetire
  PROVE  RetireInv'
<1>1. PollKept(frames, frames')
  BY ActsAlone DEF PollKept
<1> QED BY <1>1, RetiresStay

LEMMA RegisterRetires ==
  ASSUME TypeInv, WakeInv, RetireInv, ~Reentrant, NEW t \in Tokens, NEW kind \in Offered,
         Register(t, kind)
  PROVE  RetireInv'
<1>1. /\ request' = WithRequest(request, t, None) /\ MayAct
      /\ slots' = InvalidatedGrid(slots, t) /\ \E woken : WakeManager(woken)
  BY DEF Register, Invalidate, WithRequest, InvalidatedGrid
<1>2. (\E l \in Loaders, s \in Slots :
         Holds(slots[l][s], t) /\ Waits(slots[l][s]) /\ slots[l][s].linked) => managerReady'
  BY DEF Register, Invalidate, WakeManager
<1>3. \A u \in Tokens : u # t => request'[u] = request[u]
  BY <1>1, Forgotten
<1>4. frames = << >>
  BY <1>1, ActsAlone
<1> QED BY <1>1, <1>2, <1>3, <1>4, InvalidatedRetires

LEMMA DropHandleRetires ==
  ASSUME TypeInv, WakeInv, RetireInv, ~Reentrant, NEW h \in Handles, DropHandle(h)
  PROVE  RetireInv'
<1>1. PICK t : t = handles[h].token
  OBVIOUS
<1>2. frames' = frames /\ t \in Tokens /\ MayAct
  BY <1>1, Typed DEF DropHandle, HandleState
<1>3. CASE UNCHANGED <<request, slots, wake>>
  <2>1. EndIdle
    BY <1>3, NoneEnds
  <2>2. CellsRetire
    BY <1>3 DEF CellsRetire
  <2> QED BY <1>2, <1>3, <2>1, <2>2, AskedRetires
<1>4. CASE request' = WithRequest(request, t, None) /\ Invalidate(t)
  <2>1. slots' = InvalidatedGrid(slots, t) /\ \E woken : WakeManager(woken)
    BY <1>4 DEF Invalidate, InvalidatedGrid
  <2>2. (\E l \in Loaders, s \in Slots :
           Holds(slots[l][s], t) /\ Waits(slots[l][s]) /\ slots[l][s].linked) => managerReady'
    BY <1>4 DEF Invalidate, WakeManager
  <2>3. \A u \in Tokens : u # t => request'[u] = request[u]
    BY <1>2, <1>4, Forgotten
  <2>4. frames = << >>
    BY <1>2, ActsAlone
  <2> QED BY <1>2, <2>1, <2>2, <2>3, <2>4, InvalidatedRetires
<1> QED BY <1>1, <1>3, <1>4 DEF DropHandle, WithRequest

LEMMA ReloadRetires ==
  ASSUME TypeInv, WakeInv, RetireInv, ~Reentrant, NEW t \in Tokens, Reload(t)
  PROVE  RetireInv'
<1>1. PICK r : r = [gen |-> nextRequest + 1, load |-> TRUE, queued |-> TRUE, detached |-> TRUE]
  OBVIOUS
<1>2. PICK yes \in BOOLEAN : yes = TRUE
  OBVIOUS
<1>3. /\ request' = WithRequest(request, t, r) /\ slots' = InvalidatedGrid(slots, t)
      /\ WakeManager(yes) /\ MayAct
  BY <1>1, <1>2 DEF Reload, WithRequest, InvalidatedGrid
<1>4. (\A u \in Tokens : u # t => request'[u] = request[u]) /\ managerReady' = TRUE
  BY <1>2, <1>3, Typed DEF WithRequest, WakeManager
<1>5. frames = << >>
  BY <1>3, ActsAlone
<1>6. \E woken : WakeManager(woken)
  BY <1>3
<1> QED BY <1>3, <1>4, <1>5, <1>6, InvalidatedRetires

LEMMA ResolveRetires ==
  ASSUME TypeInv, WakeInv, RetireInv, ~Reentrant, NEW t \in Tokens, NEW detached \in BOOLEAN, NEW h,
         Asks(h, t), Resolve(t, detached, h)
  PROVE  RetireInv'
<1>1. CASE ResolveAtOnce(t, h) \/ ResolveStatic(t, h) \/ ResolveUnserved(t, h)
  <2>1. request' = request /\ slots' = slots /\ UNCHANGED wake /\ MayAct
    BY <1>1 DEF ResolveAtOnce, ResolveStatic, ResolveUnserved
  <2>2. EndIdle
    BY <2>1, NoneEnds
  <2>3. CellsRetire
    BY <2>1 DEF CellsRetire
  <2> QED BY <2>1, <2>2, <2>3, AskedRetires
<1>2. CASE ResolveJoin(t, detached, h)
  <2>1. request[t] # None /\ slots' = slots /\ UNCHANGED wake /\ MayAct
        /\ request' = [request EXCEPT ![t].detached = @ \/ detached, ![t].load = TRUE]
    BY <1>2 DEF ResolveJoin
  <2>2. PICK r \in Request : Wants(request[t], r) /\ request' = WithRequest(request, t, r)
    BY <2>1, Joined
  <2>3. EndIdle
    <3>1. request'[t] = r /\ r # None /\ (\A u \in Tokens : u # t => request'[u] = request[u])
      BY <2>2, NotNone, Typed DEF WithRequest
    <3> QED BY <2>2, <3>1, NoneEnds DEF Wants
  <2>4. CellsRetire
    BY <2>1 DEF CellsRetire
  <2> QED BY <2>1, <2>3, <2>4, AskedRetires
<1>3. CASE ResolveFactory(t, detached, h)
  <2>1. PICK yes \in BOOLEAN : yes = TRUE
    OBVIOUS
  <2>2. Begin(t, yes, detached) /\ slots' = slots /\ UNCHANGED wake /\ MayAct
    BY <1>3, <2>1 DEF ResolveFactory, MayCall
  <2>3. EndIdle
    BY <2>2, BeginFacts, NoneEnds
  <2>4. CellsRetire
    BY <2>2 DEF CellsRetire
  <2> QED BY <2>2, <2>3, <2>4, AskedRetires
<1>4. CASE ResolveChain(t, detached, h)
  <2>1. PICK yes \in BOOLEAN : yes = TRUE
    OBVIOUS
  <2>2. Begin(t, yes, detached) /\ UNCHANGED wake /\ MayAct
    BY <1>4, <2>1 DEF ResolveChain, MayCall
  <2>3. PICK l \in Loaders, s \in Slots : \E f : Chained(t, "resolve", h, l, s, f)
    BY <1>4, ResolveChainTyped
  <2>4. EndIdle
    BY <2>2, BeginFacts, NoneEnds
  <2>5. CellsRetire
    BY <2>3, TakenRetires DEF Chained
  <2> QED BY <2>2, <2>4, <2>5, AskedRetires
<1> QED BY <1>1, <1>2, <1>3, <1>4 DEF Resolve

LEMMA ProbeRetires ==
  ASSUME TypeInv, WakeInv, RetireInv, ~Reentrant, NEW t \in Tokens, NEW detached \in BOOLEAN,
         ProbeJoin(t, detached) \/ ProbeAtOnce(t, detached) \/ ProbeChain(t, detached)
  PROVE  RetireInv'
<1>1. CASE ProbeJoin(t, detached)
  <2>1. request[t] # None /\ slots' = slots /\ UNCHANGED wake /\ MayAct
        /\ request' = [request EXCEPT ![t].detached = @ \/ detached]
    BY <1>1 DEF ProbeJoin, MayProbe
  <2>2. PICK r \in Request : Wants(request[t], r) /\ request' = WithRequest(request, t, r)
    BY <2>1, Joined
  <2>3. EndIdle
    <3>1. request'[t] = r /\ r # None /\ (\A u \in Tokens : u # t => request'[u] = request[u])
      BY <2>2, NotNone, Typed DEF WithRequest
    <3> QED BY <2>2, <3>1, NoneEnds DEF Wants
  <2>4. CellsRetire
    BY <2>1 DEF CellsRetire
  <2> QED BY <2>1, <2>3, <2>4, AskedRetires
<1>2. CASE ProbeAtOnce(t, detached)
  <2>1. request' = request /\ slots' = slots /\ UNCHANGED wake /\ MayAct
    BY <1>2 DEF ProbeAtOnce, MayProbe
  <2>2. EndIdle
    BY <2>1, NoneEnds
  <2>3. CellsRetire
    BY <2>1 DEF CellsRetire
  <2> QED BY <2>1, <2>2, <2>3, AskedRetires
<1>3. CASE ProbeChain(t, detached)
  <2>1. PICK no \in BOOLEAN : no = FALSE
    OBVIOUS
  <2>2. Begin(t, no, detached) /\ UNCHANGED wake /\ MayAct
    BY <1>3, <2>1 DEF ProbeChain, MayProbe
  <2>3. PICK l \in Loaders, s \in Slots : \E f : Chained(t, "probe", None, l, s, f)
    BY <1>3, ProbeChainTyped
  <2>4. EndIdle
    BY <2>2, BeginFacts, NoneEnds
  <2>5. CellsRetire
    BY <2>3, TakenRetires DEF Chained
  <2> QED BY <2>2, <2>4, <2>5, AskedRetires
<1> QED BY <1>1, <1>2, <1>3

LEMMA ProbeCompletedRetires ==
  ASSUME TypeInv, WakeInv, RetireInv, ~Reentrant, NEW t \in Tokens, ProbeCompleted(t)
  PROVE  RetireInv'
<1>1. PICK l \in Loaders, s \in Slots, x \in Slots :
        /\ slots[l][s] # Leased /\ slots[l][s].meta # None
        /\ \A m \in Loaders : m # l => slots'[m] = slots[m]
        /\ slots'[l][x] = slots[l][s]
        /\ x = s \/ slots'[l][s] = Leased
        /\ \A y \in Slots : y # x /\ y # s => slots'[l][y] = slots[l][y]
  BY CompletedFacts
<1>2. PICK c : c = slots[l][s]
  OBVIOUS
<1>3. Idle(c)
  BY <1>1, <1>2 DEF Idle
<1>4. /\ \A m, y : CellRetires(c, m, y, request', managerReady', frames')
      /\ \A m, y : CellRetires(Leased, m, y, request', managerReady', frames')
  BY <1>3, NothingRetires
<1>5. \A m \in Loaders, y \in Slots :
        slots'[m][y] = slots[m][y] \/ slots'[m][y] = c \/ slots'[m][y] = Leased
  BY <1>1, <1>2
<1>6. CellsRetire
  BY <1>4, <1>5 DEF CellsRetire
<1>7. UNCHANGED wake /\ request' = request /\ MayAct
  BY DEF ProbeCompleted
<1>8. EndIdle
  BY <1>7, NoneEnds
<1> QED BY <1>6, <1>7, <1>8, AskedRetires

\* The running callback is the only work for its request.
LEMMA OnlyTopWorks ==
  ASSUME TypeInv, ServeInv, frames # << >>, NEW f, f = Top, f.op # "poll", NEW t, t = TokenOf(f),
         NEW g, g = GenOf(f), Current(t, g)
  PROVE  /\ t \in Tokens /\ request[t] # None /\ request[t].gen = g
         /\ Waiting(slots, t, g) = {} /\ Running(Callers, t, g) = {}
<1>1. f \in Frame /\ frames \in Seq(Frame)
  BY Typed, StackPopped DEF TypeInv, Top
<1>2. t \in Tokens /\ RunsFor(f, t, g)
  BY <1>1, FrameTypes DEF RunsFor
<1>3. request[t] # None /\ request[t].gen = g
  BY DEF Current
<1>4. PICK n : n = Len(frames)
  OBVIOUS
<1>5. n \in Running(frames, t, g) /\ Running(Callers, t, g) = Running(frames, t, g) \ {n}
  <2>1. Last(frames) = f /\ Callers = Front(frames)
    BY DEF Top, Callers
  <2>2. Len(frames) \in Running(frames, t, g)
        /\ Running(Front(frames), t, g) = Running(frames, t, g) \ {Len(frames)}
    BY <1>1, <1>2, <2>1, PoppedRuns
  <2> QED BY <1>4, <2>1, <2>2
<1>6. IF request[t].queued THEN Waiting(slots, t, g) = {} /\ Running(frames, t, g) = {}
      ELSE Alone(Waiting(slots, t, g), Running(frames, t, g))
  BY <1>2, <1>3 DEF ServeInv, Works
<1>7. Alone(Waiting(slots, t, g), Running(frames, t, g))
  BY <1>5, <1>6
<1>8. Waiting(slots, t, g) = {} /\ \E i \in Running(frames, t, g) : Running(frames, t, g) = {i}
  BY <1>5, <1>7 DEF Alone
<1> QED BY <1>2, <1>3, <1>5, <1>8

LEMMA FactoryReturnsRetires ==
  ASSUME TypeInv, ServeInv, WakeInv, RetireInv, NEW ok \in BOOLEAN, FactoryReturns(ok)
  PROVE  RetireInv'
<1>1. PICK f : f = Top
  OBVIOUS
<1>2. /\ frames # << >> /\ f.op = "factory" /\ slots' = slots /\ UNCHANGED wake
      /\ \/ request' = request
         \/ Current(f.token, f.gen) /\ request' = WithRequest(request, f.token, None)
      /\ frames' = Callers \/ frames' = Aged(Callers)
  BY <1>1 DEF FactoryReturns, WithRequest
<1>3. CellsRetire
  BY <1>2 DEF CellsRetire
<1>4. EndIdle
  <2>1. CASE request' = request
    BY <2>1, NoneEnds
  <2>2. CASE Current(f.token, f.gen) /\ request' = WithRequest(request, f.token, None)
    <3>1. f.token = TokenOf(f) /\ f.gen = GenOf(f)
      BY <1>2 DEF TokenOf, GenOf
    <3>2. PICK t, g : t = f.token /\ g = f.gen
      OBVIOUS
    <3>3. t \in Tokens /\ request[t].gen = g /\ Waiting(slots, t, g) = {}
      BY <1>1, <1>2, <2>2, <3>1, <3>2, OnlyTopWorks
    <3> QED BY <2>2, <3>2, <3>3, OneEnds
  <2> QED BY <1>2, <2>1, <2>2
<1>5. PollKept(frames, frames')
  BY <1>1, <1>2, StackWakes DEF FramesKept
<1> QED BY <1>2, <1>3, <1>4, <1>5, RetiresStay

\* What a loader's return leaves behind, unless the loaders behind it are asked: the
\* call, while it is wanted, or nothing that waits.
ReturnLeft(f, c, d) ==
  /\ c \in CallState /\ d \in CallState /\ c.gen <= nextRequest /\ d.gen <= nextRequest
  /\ slots' = Settled(f, c, d) /\ Idle(d)
  /\ \/ Idle(c)
     \/ /\ c.token = f.call.token /\ c.gen = f.call.gen /\ Current(c.token, c.gen)
        /\ request' = request

LEMMA ReturnOutcome ==
  ASSUME TypeInv, Return, ~ReturnNotMine, NEW f, f = Top
  PROVE  /\ \E c, d : ReturnLeft(f, c, d)
         /\ \/ request' = request
            \/ /\ Current(f.call.token, f.call.gen)
               /\ request' = WithRequest(request, f.call.token, None)
         /\ UNCHANGED wake \/ \E woken : WakeManager(woken)
<1>1. Calling
  BY ReturnLeaves
<1>2. \/ request' = request
      \/ /\ Current(f.call.token, f.call.gen)
         /\ request' = WithRequest(request, f.call.token, None)
  BY DEF Return, ReturnStale, ReturnPending, ReturnValue, ReturnMeta, ReturnMetaWanted, ReturnError,
     Ongoing, WithRequest
<1>3. UNCHANGED wake \/ \E woken : WakeManager(woken)
  BY DEF Return, ReturnStale, ReturnPending, ReturnValue, ReturnMeta, ReturnMetaWanted, ReturnError
<1>4. f.call \in CallState /\ f.call.gen <= nextRequest
  BY <1>1, RefusedFacts
<1>5. PICK free, refused, told, on :
        free = Free /\ refused = Refused(f) /\ told = Told(f.call) /\ on = GoesOn(f.call)
  OBVIOUS
<1>6. /\ free \in CallState /\ free.gen <= nextRequest /\ Idle(free)
      /\ refused \in CallState /\ refused.gen <= nextRequest /\ Idle(refused)
      /\ told \in CallState /\ told.gen <= nextRequest /\ Idle(told)
  <2>1. free \in CallState /\ free.gen <= nextRequest /\ Idle(free)
    BY <1>1, <1>5, RefusedFacts DEF Idle, Free
  <2>2. refused \in CallState /\ refused.gen <= nextRequest /\ Idle(refused)
    BY <1>1, <1>5, RefusedFacts DEF Idle
  <2>3. told \in CallState /\ told.gen <= nextRequest /\ Idle(told)
    BY <1>4, <1>5, ToldFacts DEF Idle
  <2> QED BY <2>1, <2>2, <2>3
<1>7. ASSUME NEW c, NEW d, c \in {free, refused, told}, d \in {free, refused}, slots' = Settled(f, c, d)
      PROVE  \E x, y : ReturnLeft(f, x, y)
  BY <1>6, <1>7 DEF ReturnLeft
<1>8. ASSUME ReturnStale PROVE \E x, y : ReturnLeft(f, x, y)
  BY <1>5, <1>7, <1>8 DEF ReturnStale
<1>9. ASSUME ReturnValue PROVE \E x, y : ReturnLeft(f, x, y)
  <2>1. slots' = Settled(f, free, free)
    BY <1>5, <1>9 DEF ReturnValue
  <2> QED BY <1>7, <2>1
<1>10. ASSUME ReturnMeta PROVE \E x, y : ReturnLeft(f, x, y)
  <2>1. slots' = Settled(f, told, free)
    BY <1>5, <1>10 DEF ReturnMeta, Told
  <2> QED BY <1>7, <2>1
<1>11. ASSUME NEW notMine \in BOOLEAN, ReturnError(notMine)
       PROVE  \E x, y : ReturnLeft(f, x, y)
  <2>1. \E c, d \in {free, refused} : slots' = Settled(f, c, d)
    BY <1>5, <1>11 DEF ReturnError
  <2> QED BY <1>7, <2>1
<1>12. ASSUME ReturnPending PROVE \E x, y : ReturnLeft(f, x, y)
  <2>1. PICK c : c = f.call
    OBVIOUS
  <2>2. slots' = Settled(f, c, free) /\ Current(c.token, c.gen) /\ request' = request
    BY <1>5, <1>12, <2>1 DEF ReturnPending, Ongoing
  <2>3. ReturnLeft(f, c, free)
    BY <1>4, <1>6, <2>1, <2>2 DEF ReturnLeft
  <2> QED BY <2>3
<1>13. ASSUME ReturnMetaWanted PROVE \E x, y : ReturnLeft(f, x, y)
  <2>1. /\ slots' = Returned(f.loader, on) /\ f.by = "slot" /\ Current(f.call.token, f.call.gen)
        /\ request' = request
    BY <1>5, <1>13 DEF ReturnMetaWanted, GoesOn, Ongoing
  <2>2. f.held = << >>
    BY <1>1, <2>1, CallTop DEF CallSound
  <2>3. slots' = Settled(f, on, free)
    BY <2>1, <2>2 DEF Settled
  <2>4. on \in CallState /\ on.token = f.call.token /\ on.gen = f.call.gen /\ on.gen <= nextRequest
    BY <1>4, <1>5, GoesOnFacts
  <2>5. ReturnLeft(f, on, free)
    BY <1>6, <2>1, <2>3, <2>4 DEF ReturnLeft
  <2> QED BY <2>5
<1>14. \E c, d : ReturnLeft(f, c, d)
  BY <1>8, <1>9, <1>10, <1>11, <1>12, <1>13 DEF Return
<1> QED BY <1>2, <1>3, <1>14

LEMMA ReturnRetires ==
  ASSUME TypeInv, ServeInv, WakeInv, RetireInv, Return
  PROVE  RetireInv'
<1>1. PICK f : f = Top
  OBVIOUS
<1>2. CASE ReturnNotMine
  <2>1. Calling /\ request' = request /\ UNCHANGED wake
    BY <1>1, <1>2 DEF ReturnNotMine, Ongoing
  <2>2. PICK l \in Loaders, s \in Slots, x \in Slots : \E S, h, probe : NotMine(f, S, x, l, s, h, probe)
    BY <1>1, <1>2, NotMineFacts
  <2>3. PICK S, h, probe : NotMine(f, S, x, l, s, h, probe)
    BY <2>2
  <2>4. \E c : Idle(c) /\ OneNew(slots, S, c)
    <3>1. CASE S = slots
      BY <3>1 DEF OneNew, Idle
    <3>2. CASE Given(slots, S, f.loader, x, Free)
      <4>1. OneNew(slots, S, Free)
        BY <3>2, GivenCells
      <4> QED BY <4>1 DEF Idle, Free
    <3> QED BY <2>3, <3>1, <3>2 DEF NotMine
  <2>5. PICK c : Idle(c) /\ OneNew(slots, S, c)
    BY <2>4
  <2>6. OneNew(S, slots', Leased)
    <3>1. Taken(S, slots', l, s)
      BY <2>3, TakenFacts DEF NotMine, GridSound
    <3> QED BY <3>1 DEF Taken, SameBut, OneNew
  <2>7. /\ \A m, y : CellRetires(c, m, y, request', managerReady', frames')
        /\ \A m, y : CellRetires(Leased, m, y, request', managerReady', frames')
    BY <2>5, NothingRetires
  <2>8. CellsRetire
    BY <2>5, <2>6, <2>7, TwoNewRetire
  <2>9. EndIdle
    BY <2>1, NoneEnds
  <2>10. FramesKept(frames, Callers) /\ Callers \in Seq(Frame)
    <3>1. frames # << >> /\ Top.op # "poll" /\ frames \in Seq(Frame)
      BY <1>1, <2>1, CallTop, Typed
    <3> QED BY <3>1, StackWakes, Popped DEF Callers
  <2>11. h \in Frame /\ frames' = Append(Callers, h)
    BY <2>3 DEF NotMine
  <2>12. OneMore(frames, Append(Callers, h), h)
    BY <2>10, <2>11, PushedWakes
  <2>13. PollKept(frames, frames')
    BY <2>11, <2>12 DEF OneMore
  <2> QED BY <2>1, <2>8, <2>9, <2>13, RetiresStay
<1>3. CASE ~ReturnNotMine
  <2>1. /\ \E c, d : ReturnLeft(f, c, d)
        /\ \/ request' = request
           \/ /\ Current(f.call.token, f.call.gen)
              /\ request' = WithRequest(request, f.call.token, None)
        /\ UNCHANGED wake \/ \E woken : WakeManager(woken)
    BY <1>1, <1>3, ReturnOutcome
  <2>2. Calling /\ (frames' = Callers \/ frames' = Aged(Callers))
    BY <1>1, <1>3, ReturnLeaves
  <2>3. PICK c, d : ReturnLeft(f, c, d)
    BY <2>1
  <2>4. /\ \A m, y : CellRetires(c, m, y, request', managerReady', frames')
        /\ \A m, y : CellRetires(d, m, y, request', managerReady', frames')
    <3>1. Idle(d) /\ (Idle(c) \/ (request'[c.token] # None /\ request'[c.token].gen = c.gen))
      BY <2>3 DEF ReturnLeft, Current
    <3> QED BY <3>1, NothingRetires
  <2>5. PICK U : OneNew(slots, U, c) /\ OneNew(U, slots', d)
    BY <1>1, <2>2, <2>3, SettledNew DEF ReturnLeft
  <2>6. CellsRetire
    BY <2>4, <2>5, TwoNewRetire
  <2>7. EndIdle
    <3>1. CASE request' = request
      BY <3>1, NoneEnds
    <3>2. CASE Current(f.call.token, f.call.gen) /\ request' = WithRequest(request, f.call.token, None)
      <4>1. PICK t, g : t = f.call.token /\ g = f.call.gen
        OBVIOUS
      <4>2. t \in Tokens /\ request[t].gen = g /\ Waiting(slots, t, g) = {}
        BY <1>1, <2>2, <3>2, <4>1, TopServes
      <4> QED BY <3>2, <4>1, <4>2, OneEnds
    <3> QED BY <2>1, <3>1, <3>2
  <2>8. PollKept(frames, frames')
    BY <1>1, <2>2, CallTop, StackWakes DEF FramesKept
  <2> QED BY <2>1, <2>6, <2>7, <2>8, RetiresStay
<1> QED BY <1>2, <1>3

LEMMA PollQueuedRetires ==
  ASSUME TypeInv, ServeInv, WakeInv, RetireInv, NEW t \in Tokens, PollQueued(t)
  PROVE  RetireInv'
<1>1. /\ request[t] # None /\ request[t].queued
      /\ \/ /\ request' = WithRequest(request, t, None) /\ slots' = slots /\ frames' = frames
         \/ \E l \in Loaders, s \in Slots : \E f : Dequeued(t, l, s, f)
  BY PollQueuedTyped
<1>2. UNCHANGED wake
  BY DEF PollQueued
<1>3. CASE request' = WithRequest(request, t, None) /\ slots' = slots /\ frames' = frames
  <2>1. Waiting(slots, t, request[t].gen) = {}
    BY <1>1 DEF ServeInv, Works
  <2>2. EndIdle
    BY <1>3, <2>1, OneEnds
  <2>3. CellsRetire /\ PollKept(frames, frames')
    BY <1>3 DEF CellsRetire, PollKept
  <2> QED BY <1>2, <2>2, <2>3, RetiresStay
<1>4. ASSUME NEW l \in Loaders, NEW s \in Slots, NEW f, Dequeued(t, l, s, f) PROVE RetireInv'
  <2>1. /\ Taken(slots, slots', l, s) /\ f \in Frame /\ frames' = Append(frames, f)
        /\ request'[t] # None /\ request'[t].gen = request[t].gen
        /\ \A u \in Tokens : u # t => request'[u] = request[u]
    BY <1>4 DEF Dequeued
  <2>2. EndIdle
    BY <2>1, NoneEnds
  <2>3. CellsRetire
    BY <2>1, TakenRetires
  <2>4. FramesKept(frames, frames) /\ frames \in Seq(Frame)
    BY StackWakes, Typed
  <2>5. OneMore(frames, Append(frames, f), f)
    BY <2>1, <2>4, PushedWakes
  <2>6. PollKept(frames, frames')
    BY <2>1, <2>5 DEF OneMore
  <2> QED BY <1>2, <2>2, <2>3, <2>6, RetiresStay
<1> QED BY <1>1, <1>3, <1>4

LEMMA PollBeginRetires ==
  ASSUME TypeInv, RetireInv, PollBegin
  PROVE  RetireInv'
<1>1. PICK f : f = [op |-> "poll", through |-> nextRequest, loader |-> 1, slot |-> 1]
  OBVIOUS
<1>2. /\ frames = << >> /\ request' = request /\ slots' = slots
      /\ managerReady => frames' = <<f>>
  BY <1>1 DEF PollBegin
<1>3. ASSUME NEW l \in Loaders, NEW s \in Slots
      PROVE  CellRetires(slots'[l][s], l, s, request', managerReady', frames')
  <2>1. CellRetires(slots[l][s], l, s, request, managerReady, frames)
    BY DEF RetireInv
  <2>2. managerReady => Ahead(frames', l, s)
    BY <1>1, <1>2 DEF Ahead, Loaders, Slots
  <2> QED BY <1>2, <2>1, <2>2 DEF CellRetires, Ahead
<1> QED BY <1>3 DEF RetireInv

LEMMA PollEndRetires ==
  ASSUME TypeInv, RetireInv, PollEnd
  PROVE  RetireInv'
<1>1. PICK f : f = Top
  OBVIOUS
<1>2. /\ Polling /\ f.loader \notin Loaders /\ request' = request /\ slots' = slots /\ UNCHANGED wake
  BY <1>1 DEF PollEnd
<1>3. f \in PollFrame /\ frames = <<f>>
  BY <1>1, <1>2, PollTop
<1>4. frames[1] = f
  BY <1>3
<1>5. f.loader = LoaderCount + 1
  BY <1>2, <1>3, Sizes DEF PollFrame, Loaders
<1>6. ASSUME NEW l \in Loaders, NEW s \in Slots PROVE ~Ahead(frames, l, s)
  BY <1>4, <1>5, Sizes DEF Ahead, Loaders
<1>7. ASSUME NEW l \in Loaders, NEW s \in Slots
      PROVE  CellRetires(slots'[l][s], l, s, request', managerReady', frames')
  <2>1. CellRetires(slots[l][s], l, s, request, managerReady, frames)
    BY DEF RetireInv
  <2> QED BY <1>2, <1>6, <2>1 DEF CellRetires, wake
<1> QED BY <1>7 DEF RetireInv

\* The poll comes to a call that is not wanted and frees its slot; one that was not
\* woken is wanted.
LEMMA PollSlotRetires ==
  ASSUME TypeInv, RetireInv, PollSlot
  PROVE  RetireInv'
<1>1. PICK f \in PollFrame, g \in PollFrame, l \in Loaders, s \in Slots :
        /\ f.op = "poll" /\ frames = <<f>> /\ l = f.loader /\ s = f.slot /\ g = Advanced(f)
        /\ slots[l][s] # Leased /\ slots[l][s] \in CallState
        /\ \/ /\ ~Waits(slots[l][s])
              /\ slots' = slots /\ frames' = <<g>>
           \/ /\ Waits(slots[l][s]) /\ ~slots[l][s].ready
              /\ slots' = WithCall(slots, l, s, Visited(slots[l][s])) /\ frames' = <<g>>
           \/ /\ Waits(slots[l][s]) /\ slots[l][s].ready
              /\ ~Current(slots[l][s].token, slots[l][s].gen)
              /\ slots' = WithCall(slots, l, s, Free) /\ frames' = <<g>>
           \/ /\ Waits(slots[l][s]) /\ slots[l][s].ready
              /\ Current(slots[l][s].token, slots[l][s].gen)
              /\ slots' = WithCall(slots, l, s, Leased)
              /\ frames' = << g, Call("slot", Visited(slots[l][s]), l, None, FALSE, << >>) >>
  BY PollSlotFacts
<1>2. PICK v : v = Visited(slots[l][s])
  OBVIOUS
<1>3. v.token = slots[l][s].token /\ v.gen = slots[l][s].gen
  BY <1>1, <1>2, VisitedFacts
<1>4. UNCHANGED wake /\ request' = request
  BY DEF PollSlot
<1>5. PICK h : h = Call("slot", v, l, None, FALSE, << >>)
  OBVIOUS
<1>6. frames' = <<g>> \/ frames' = <<g, h>>
  BY <1>1, <1>2, <1>5
<1>7. frames # << >> /\ frames[1] = f /\ frames' # << >> /\ frames'[1] = g
  BY <1>1, <1>6
<1>8. CellRetires(slots[l][s], l, s, request, managerReady, frames)
  BY DEF RetireInv
<1>9. \E c : /\ ~Waits(c) \/ (request[c.token] # None /\ request[c.token].gen = c.gen)
             /\ slots' = WithCall(slots, l, s, c)
  <2>1. CASE ~Waits(slots[l][s]) /\ slots' = slots
    <3>1. slots = WithCall(slots, l, s, slots[l][s])
      BY Typed DEF WithCall, Grid, Row
    <3> QED BY <2>1, <3>1
  <2>2. CASE Waits(slots[l][s]) /\ ~slots[l][s].ready /\ slots' = WithCall(slots, l, s, v)
    <3>1. request[v.token] # None /\ request[v.token].gen = v.gen
      BY <1>3, <1>8, <2>2 DEF CellRetires
    <3> QED BY <2>2, <3>1
  <2>3. CASE slots' = WithCall(slots, l, s, Free)
    BY <2>3 DEF Waits, Free
  <2>4. CASE slots' = WithCall(slots, l, s, Leased)
    BY <2>4 DEF Waits
  <2> QED BY <1>1, <1>2, <2>1, <2>2, <2>3, <2>4
<1>10. PICK c : /\ ~Waits(c) \/ (request[c.token] # None /\ request[c.token].gen = c.gen)
                /\ slots' = WithCall(slots, l, s, c)
  BY <1>9
<1>11. ASSUME NEW m \in Loaders, NEW y \in Slots
       PROVE  CellRetires(slots'[m][y], m, y, request', managerReady', frames')
  <2>1. CASE m = l /\ y = s
    <3>1. slots'[m][y] = c
      BY <1>10, <2>1, Typed DEF WithCall, Grid, Row
    <3> QED BY <1>4, <1>10, <3>1 DEF CellRetires
  <2>2. CASE m # l \/ y # s
    <3>1. slots'[m][y] = slots[m][y]
      BY <1>10, <2>2, Typed DEF WithCall, Grid, Row
    <3>2. CellRetires(slots[m][y], m, y, request, managerReady, frames)
      BY DEF RetireInv
    <3>3. Ahead(frames, m, y) => Ahead(frames', m, y)
      BY <1>1, <1>7, <2>2, AdvancedAhead
    <3> QED BY <1>4, <3>1, <3>2, <3>3 DEF CellRetires, wake
  <2> QED BY <2>1, <2>2
<1> QED BY <1>11 DEF RetireInv

LEMMA WakeSlotRetires ==
  ASSUME TypeInv, WakeInv, RetireInv, NEW l \in Loaders, NEW s \in Slots, WakeSlot(l, s)
  PROVE  RetireInv'
<1>1. PICK c, d : c = slots[l][s] /\ d = Woken(c)
  OBVIOUS
<1>2. /\ Waits(c) /\ WakeManager(c.linked) /\ request' = request /\ frames' = frames
  BY <1>1 DEF WakeSlot
<1>3. c \in CallState
  BY <1>1, <1>2, Typed DEF Waits, Grid, Row
<1>4. d.ready /\ d.token = c.token /\ d.gen = c.gen
  BY <1>1, <1>3, WokenFacts
<1>5. managerReady => managerReady'
  BY <1>2 DEF WakeManager, wake
<1>6. CellRetires(d, l, s, request', managerReady', frames')
  <2>1. CellRetires(c, l, s, request, managerReady, frames)
    BY <1>1 DEF RetireInv
  <2> QED BY <1>2, <1>4, <1>5, <2>1 DEF CellRetires
<1>7. SameBut(slots, slots', l, s) /\ slots'[l][s] = d
  BY <1>1, WakeSlotTyped DEF Replaced
<1>8. CellsRetire
  <2>1. ASSUME NEW m \in Loaders, NEW y \in Slots, ~(m = l /\ y = s)
        PROVE  slots'[m][y] = slots[m][y]
    BY <1>7, <2>1 DEF SameBut
  <2> QED BY <1>6, <1>7, <2>1 DEF CellsRetire
<1>9. EndIdle
  BY <1>2, NoneEnds
<1>10. PollKept(frames, frames')
  BY <1>2 DEF PollKept
<1>11. \E woken : WakeManager(woken)
  BY <1>2
<1> QED BY <1>8, <1>9, <1>10, <1>11, RetiresStay

LEMMA WakeRunningRetires ==
  ASSUME TypeInv, WakeInv, RetireInv, NEW i \in DOMAIN frames, WakeRunning(i)
  PROVE  RetireInv'
<1>1. (\E woken : WakeManager(woken)) /\ request' = request /\ slots' = slots
  BY DEF WakeRunning
<1>2. /\ StacksAlike(frames, frames') /\ frames[i].op = "call"
      /\ \A j \in DOMAIN frames : j # i => frames'[j] = frames[j]
  BY WakeRunningFacts
<1>3. frames \in Seq(Frame) /\ frames' \in Seq(Frame) /\ DOMAIN frames' = DOMAIN frames
  BY <1>2, Typed DEF StacksAlike
<1>4. PollKept(frames, frames')
  <2> SUFFICES ASSUME frames # << >>, frames[1].op = "poll"
               PROVE  frames' # << >> /\ frames'[1] = frames[1]
    BY DEF PollKept
  <2>1. 1 \in DOMAIN frames
    BY <1>3
  <2> QED BY <1>2, <1>3, <2>1
<1>5. EndIdle /\ CellsRetire
  BY <1>1, NoneEnds DEF CellsRetire
<1> QED BY <1>1, <1>4, <1>5, RetiresStay

LEMMA NextRetires ==
  ASSUME TypeInv, ServeInv, WakeInv, RetireInv, ~Reentrant, [Next]_vars
  PROVE  RetireInv'
<1>0. ASSUME request' = request, slots' = slots, frames' = frames \/ frames' = Aged(frames),
             UNCHANGED wake \/ \E woken : WakeManager(woken)
      PROVE  RetireInv'
  <2>1. EndIdle /\ CellsRetire
    BY <1>0, NoneEnds DEF CellsRetire
  <2>2. PollKept(frames, frames')
    BY <1>0, StackWakes DEF FramesKept
  <2> QED BY <1>0, <2>1, <2>2, RetiresStay
<1>1. ASSUME NEW t \in Tokens, NEW kind \in Offered, Register(t, kind) PROVE RetireInv'
  BY <1>1, RegisterRetires
<1>2. ASSUME NEW t \in Tokens, ClearFailed(t) PROVE RetireInv'
  BY <1>0, <1>2 DEF ClearFailed
<1>3. ASSUME NEW t \in Tokens, Reload(t) PROVE RetireInv'
  BY <1>3, ReloadRetires
<1>4. ASSUME NEW t \in Tokens, Resolve(t, TRUE, None) PROVE RetireInv'
  <2>1. Asks(None, t)
    BY DEF Asks
  <2>2. \E detached \in BOOLEAN : Resolve(t, detached, None)
    BY <1>4
  <2> QED BY <2>1, <2>2, ResolveRetires
<1>5. ASSUME NEW t \in Tokens, ProbeCompleted(t) PROVE RetireInv'
  BY <1>5, ProbeCompletedRetires
<1>6. ASSUME NEW t \in Tokens, NEW detached \in BOOLEAN,
             ProbeJoin(t, detached) \/ ProbeAtOnce(t, detached) \/ ProbeChain(t, detached)
      PROVE  RetireInv'
  BY <1>6, ProbeRetires
<1>7. ASSUME NEW t \in Tokens, PollQueued(t) PROVE RetireInv'
  BY <1>7, PollQueuedRetires
<1>8. ASSUME NEW h \in Handles, NEW t \in Tokens, Load(h, t) PROVE RetireInv'
  BY <1>0, <1>8 DEF Load
<1>9. ASSUME NEW h \in Handles, NEW copy \in Handles, CloneHandle(h, copy) PROVE RetireInv'
  BY <1>0, <1>9 DEF CloneHandle
<1>10. ASSUME NEW h \in Handles, DropHandle(h) PROVE RetireInv'
  BY <1>10, DropHandleRetires
<1>11. ASSUME NEW h \in Handles, Get(h) PROVE RetireInv'
  <2>1. PICK t : t = handles[h].token
    OBVIOUS
  <2>2. t \in Tokens /\ Asks(h, t)
    BY <1>11, <2>1, Typed DEF Get, Asks, HandleState
  <2>3. \E detached \in BOOLEAN : Resolve(t, detached, h)
    BY <1>11, <2>1 DEF Get
  <2> QED BY <2>2, <2>3, ResolveRetires
<1>12. ASSUME NEW ok \in BOOLEAN, FactoryReturns(ok) PROVE RetireInv'
  BY <1>12, FactoryReturnsRetires
<1>13. CASE PollBegin \/ PollSlot \/ PollEnd
  BY <1>13, PollBeginRetires, PollSlotRetires, PollEndRetires
<1>14. CASE Return
  BY <1>14, ReturnRetires
<1>15. ASSUME NEW l \in Loaders, NEW s \in Slots, WakeSlot(l, s) PROVE RetireInv'
  BY <1>15, WakeSlotRetires
<1>16. ASSUME NEW i \in DOMAIN frames, WakeRunning(i) PROVE RetireInv'
  BY <1>16, WakeRunningRetires
<1>17. CASE WakeLate
  BY <1>0, <1>17 DEF WakeLate
<1>18. CASE UNCHANGED vars
  BY <1>0, <1>18 DEF vars
<1> QED BY <1>1, <1>2, <1>3, <1>4, <1>5, <1>6, <1>7, <1>8, <1>9, <1>10, <1>11, <1>12, <1>13,
           <1>14, <1>15, <1>16, <1>17, <1>18 DEF Next

LEMMA RetiresHold == ASSUME ~Reentrant PROVE Spec => []RetireInv
<1>1. Init => RetireInv
  BY DEF Init, RetireInv, CellRetires, Waits, Free
<1>2. TypeInv /\ ServeInv /\ WakeInv /\ RetireInv /\ [Next]_vars => RetireInv'
  BY NextRetires
<1> QED BY <1>1, <1>2, TypesHold, ServesHold, WakesHold, PTL DEF Spec

\* When callbacks leave the manager alone, an invalidated call is retired by the
\* manager's next poll, whether its producer wakes it or not: between polls it was
\* woken and the manager is scheduled (docs/resources.md:52).  A callback that removes
\* tokens refutes it, by moving calls behind a poll that runs.
THEOREM InvalidatedRetire == ASSUME ~Reentrant PROVE Spec => []RetiredByNextPoll
<1>1. RetireInv => RetiredByNextPoll
  <2> SUFFICES ASSUME RetireInv, frames = << >>, NEW l \in Loaders, NEW s \in Slots,
                      Waits(slots[l][s]), ~Current(slots[l][s].token, slots[l][s].gen)
               PROVE  slots[l][s].ready /\ managerReady
    BY DEF RetiredByNextPoll
  <2>1. CellRetires(slots[l][s], l, s, request, managerReady, frames)
    BY DEF RetireInv
  <2> QED BY <2>1 DEF CellRetires, Ahead, Current
<1> QED BY <1>1, RetiresHold, PTL

-----------------------------------------------------------------------------
(***************************************************************************)
(* Metadata, when callbacks leave the manager alone.                       *)
(***************************************************************************)
\* What slot c keeps was read from its token as it is.
MetaCell(c, a) == c # Leased /\ c.meta # None => c.token \in Tokens /\ c.age = a[c.token]

\* A loader works for a request that stands, and the call it follows has the same
\* token, as it is.
MetaFrame(f, R, a) ==
  f.op = "call" =>
    /\ R[f.call.token] # None /\ R[f.call.token].gen = f.call.gen
    /\ f.held # << >> => /\ f.held[1].call.token = f.call.token
                         /\ f.held[1].call.age = a[f.call.token]
MetaInv ==
  /\ \A l \in Loaders, s \in Slots : MetaCell(slots[l][s], age)
  /\ \A i \in DOMAIN frames : MetaFrame(frames[i], request, age)

\* The slots' metadata stays, or is of its token as it is.
CellsMeta ==
  \A l \in Loaders, s \in Slots : slots'[l][s] = slots[l][s] \/ MetaCell(slots'[l][s], age')

\* A request that ends has no loader at work but the one that returns.
EndsAlone(t) ==
  request[t] # None =>
    \/ request'[t] # None /\ request'[t].gen = request[t].gen
    \/ \A i \in DOMAIN frames' : frames'[i].op = "call" => ~RunsFor(frames'[i], t, request[t].gen)
EndAlone == \A t \in Tokens : EndsAlone(t)

LEMMA AlikeMeta ==
  ASSUME NEW f \in Frame, NEW g \in Frame, Alike(f, g), MetaFrame(f, request, age)
  PROVE  MetaFrame(g, request, age)
<1> SUFFICES ASSUME g.op = "call" PROVE MetaFrame(g, request, age)
  BY DEF MetaFrame
<1>1. f.op = "call" /\ g.held = f.held /\ g.call.token = f.call.token /\ g.call.gen = f.call.gen
  BY DEF Alike, TokenOf, GenOf
<1> QED BY <1>1 DEF MetaFrame

LEMMA MetaStays ==
  ASSUME TypeInv, TypeInv', MetaInv, age' = age, CellsMeta, EndAlone,
         NEW f, RootedBut(frames, frames', f), MetaFrame(f, request', age')
  PROVE  MetaInv'
<1>1. ASSUME NEW l \in Loaders, NEW s \in Slots PROVE MetaCell(slots'[l][s], age')
  <2>1. MetaCell(slots[l][s], age)
    BY DEF MetaInv
  <2> QED BY <2>1 DEF CellsMeta
<1>2. ASSUME NEW i \in DOMAIN frames', frames'[i].op = "call" PROVE MetaFrame(frames'[i], request', age')
  <2> SUFFICES ASSUME Root(frames, frames', i) PROVE MetaFrame(frames'[i], request', age')
    BY <1>2 DEF RootedBut
  <2>1. PICK g : g = frames'[i]
    OBVIOUS
  <2>2. frames[i] \in Frame /\ g \in Frame /\ Alike(frames[i], g) /\ MetaFrame(frames[i], request, age)
    BY <2>1, Typed DEF Root, MetaInv, TypeInv, StackSound
  <2>3. MetaFrame(g, request, age)
    BY <2>2, AlikeMeta
  <2>4. g.call.token \in Tokens /\ RunsFor(g, g.call.token, g.call.gen)
    BY <1>2, <2>1, <2>2, FrameTypes DEF RunsFor, TokenOf, GenOf
  <2>5. request'[g.call.token] # None /\ request'[g.call.token].gen = g.call.gen
    BY <1>2, <2>1, <2>3, <2>4 DEF EndAlone, EndsAlone, MetaFrame
  <2> QED BY <2>1, <2>3, <2>5 DEF MetaFrame
<1> QED BY <1>1, <1>2 DEF MetaInv, MetaFrame

LEMMA MetaStaysRooted ==
  ASSUME TypeInv, TypeInv', MetaInv, age' = age, CellsMeta, EndAlone, Rooted(frames, frames')
  PROVE  MetaInv'
<1>1. PICK f : f = [op |-> "poll"]
  OBVIOUS
<1>2. RootedBut(frames, frames', f)
  BY DEF Rooted, RootedBut
<1>3. MetaFrame(f, request', age')
  BY <1>1 DEF MetaFrame
<1> QED BY <1>2, <1>3, MetaStays

LEMMA KeptAlone ==
  ASSUME \A t \in Tokens : request[t] # None => request'[t] # None /\ request'[t].gen = request[t].gen
  PROVE  EndAlone
BY DEF EndAlone, EndsAlone

\* What an asker finds while nothing runs.
LEMMA AskedMeta ==
  ASSUME TypeInv, MetaInv, ~Reentrant, MayAct, CellsMeta, age' = age,
         NEW f, f.op = "call" => MetaFrame(f, request', age'),
         frames' = frames \/ frames' = Aged(frames) \/ (f \in Frame /\ frames' = Append(frames, f))
  PROVE  MetaInv'
<1>1. ASSUME NEW l \in Loaders, NEW s \in Slots PROVE MetaCell(slots'[l][s], age')
  <2>1. MetaCell(slots[l][s], age)
    BY DEF MetaInv
  <2> QED BY <2>1 DEF CellsMeta
<1>2. \A i \in DOMAIN frames' : frames'[i] = f
  BY ActsAlone
<1>3. \A i \in DOMAIN frames' : MetaFrame(frames'[i], request', age')
  BY <1>2 DEF MetaFrame
<1> QED BY <1>1, <1>3 DEF MetaInv

LEMMA InvalidatedMeta ==
  ASSUME TypeInv, MetaInv, ~Reentrant, MayAct, NEW t \in Tokens, slots' = InvalidatedGrid(slots, t),
         frames' = frames \/ frames' = Aged(frames),
         \A u \in Tokens : u # t => age'[u] = age[u]
  PROVE  MetaInv'
<1>1. GridSound(slots, nextRequest) /\ nextRequest \in Nat /\ slots \in Grid
  BY Typed DEF TypeInv
<1>2. PICK T : T = InvalidatedGrid(slots, t)
  OBVIOUS
<1>3. ASSUME NEW l \in Loaders, NEW s \in Slots PROVE MetaCell(T[l][s], age')
  <2>1. T[l][s] # Leased =>
          T[l][s] = Free \/ (T[l][s] = slots[l][s] /\ slots[l][s].token # t)
          \/ WokenFrom(slots[l], t, T[l][s])
    BY <1>1, <1>2, InvalidatedGridFacts
  <2>2. PICK c : c = T[l][s]
    OBVIOUS
  <2>3. CASE c = Leased \/ c = Free
    BY <2>2, <2>3 DEF MetaCell, Free
  <2>4. CASE c = slots[l][s] /\ c.token # t
    <3>1. MetaCell(c, age)
      BY <2>4 DEF MetaInv
    <3> QED BY <2>2, <2>4, <3>1 DEF MetaCell
  <2>5. CASE WokenFrom(slots[l], t, c)
    <3>1. PICK x \in Slots : Holds(slots[l][x], t) /\ slots[l][x].meta = None /\ c = Woken(slots[l][x])
      BY <2>5 DEF WokenFrom
    <3>2. slots[l][x] \in CallState
      BY <1>1, <3>1 DEF Grid, Row, Holds
    <3>3. c.meta = None
      BY <3>1, <3>2, WokenFacts
    <3> QED BY <2>2, <3>3 DEF MetaCell
  <2> QED BY <2>1, <2>2, <2>3, <2>4, <2>5
<1>4. DOMAIN frames' = {}
  BY ActsAlone
<1> QED BY <1>2, <1>3, <1>4 DEF MetaInv

LEMMA RegisterMeta ==
  ASSUME TypeInv, MetaInv, ~Reentrant, NEW t \in Tokens, NEW kind \in Offered, Register(t, kind)
  PROVE  MetaInv'
<1>1. /\ slots' = InvalidatedGrid(slots, t) /\ frames' = Aged(frames) /\ MayAct
      /\ age' = [age EXCEPT ![t] = @ + 1]
  BY DEF Register, Invalidate, InvalidatedGrid
<1>2. \A u \in Tokens : u # t => age'[u] = age[u]
  BY <1>1, Typed
<1> QED BY <1>1, <1>2, InvalidatedMeta

LEMMA ReloadMeta ==
  ASSUME TypeInv, MetaInv, ~Reentrant, NEW t \in Tokens, Reload(t)
  PROVE  MetaInv'
<1>1. /\ slots' = InvalidatedGrid(slots, t) /\ frames' = frames /\ MayAct
      /\ age' = [age EXCEPT ![t] = @ + 1]
  BY DEF Reload, InvalidatedGrid
<1>2. \A u \in Tokens : u # t => age'[u] = age[u]
  BY <1>1, Typed
<1> QED BY <1>1, <1>2, InvalidatedMeta

LEMMA DropHandleMeta ==
  ASSUME TypeInv, MetaInv, ~Reentrant, NEW h \in Handles, DropHandle(h)
  PROVE  MetaInv'
<1>1. PICK t : t = handles[h].token
  OBVIOUS
<1>2. frames' = frames /\ t \in Tokens /\ MayAct /\ age' = age
  BY <1>1, Typed DEF DropHandle, HandleState
<1>3. CASE slots' = slots
  <2>1. DOMAIN frames' = {}
    BY <1>2, ActsAlone
  <2>2. \A l \in Loaders, s \in Slots : MetaCell(slots[l][s], age)
    BY DEF MetaInv
  <2> QED BY <1>2, <1>3, <2>1, <2>2 DEF MetaInv
<1>4. CASE Invalidate(t)
  <2>1. slots' = InvalidatedGrid(slots, t)
    BY <1>4 DEF Invalidate, InvalidatedGrid
  <2> QED BY <1>2, <2>1, InvalidatedMeta
<1> QED BY <1>1, <1>3, <1>4 DEF DropHandle

LEMMA TakenMeta ==
  ASSUME NEW l \in Loaders, NEW s \in Slots, Taken(slots, slots', l, s)
  PROVE  CellsMeta
<1>1. OneNew(slots, slots', Leased)
  BY DEF Taken, SameBut, OneNew
<1> QED BY <1>1 DEF CellsMeta, OneNew, MetaCell

LEMMA TwoNewMeta ==
  ASSUME NEW U, NEW c, NEW d, OneNew(slots, U, c), OneNew(U, slots', d),
         MetaCell(c, age'), MetaCell(d, age')
  PROVE  CellsMeta
<1> SUFFICES ASSUME NEW l \in Loaders, NEW s \in Slots
             PROVE  slots'[l][s] = slots[l][s] \/ MetaCell(slots'[l][s], age')
  BY DEF CellsMeta
<1>1. slots'[l][s] = slots[l][s] \/ slots'[l][s] = c \/ slots'[l][s] = d
  BY DEF OneNew
<1> QED BY <1>1

\* The first call of a chain follows none and works for the request that began.
LEMMA ChainMeta ==
  ASSUME TypeInv, TypeInv', MetaInv, ~Reentrant, MayAct, age' = age, NEW t \in Tokens,
         NEW load \in BOOLEAN, NEW detached \in BOOLEAN, Begin(t, load, detached),
         NEW by, by # "next", NEW h, NEW l \in Loaders, NEW s \in Slots, NEW f,
         Chained(t, by, h, l, s, f)
  PROVE  MetaInv'
<1>1. /\ f \in Frame /\ f.op = "call" /\ f.by # "next" /\ frames' = Append(frames, f)
      /\ TokenOf(f) = t /\ GenOf(f) = nextRequest'
  BY DEF Chained
<1>2. PICK n : n = Len(frames')
  OBVIOUS
<1>3. n \in DOMAIN frames' /\ frames'[n] = f
  BY <1>1, <1>2, Typed
<1>4. CallSound(f)
  BY <1>1, <1>3 DEF TypeInv, StackSound, FrameSound
<1>5. f.held = << >>
  BY <1>1, <1>4 DEF CallSound
<1>6. request'[t] # None /\ request'[t].gen = nextRequest'
  BY BeginFacts, NotNone
<1>7. MetaFrame(f, request', age')
  BY <1>1, <1>5, <1>6 DEF MetaFrame, TokenOf, GenOf
<1>8. CellsMeta
  BY TakenMeta DEF Chained
<1> QED BY <1>1, <1>7, <1>8, AskedMeta

LEMMA ResolveMeta ==
  ASSUME TypeInv, TypeInv', MetaInv, ~Reentrant, NEW t \in Tokens, NEW detached \in BOOLEAN, NEW h,
         Asks(h, t), Resolve(t, detached, h)
  PROVE  MetaInv'
<1>0. PICK none : none = [op |-> "none"]
  OBVIOUS
<1>1. CASE ResolveAtOnce(t, h) \/ ResolveStatic(t, h) \/ ResolveJoin(t, detached, h)
           \/ ResolveUnserved(t, h)
  <2>1. slots' = slots /\ age' = age /\ MayAct /\ (frames' = frames \/ frames' = Aged(frames))
    BY <1>1 DEF ResolveAtOnce, ResolveStatic, ResolveJoin, ResolveUnserved
  <2>2. CellsMeta
    BY <2>1 DEF CellsMeta
  <2>3. none.op # "call"
    BY <1>0
  <2> QED BY <2>1, <2>2, <2>3, AskedMeta
<1>2. CASE ResolveFactory(t, detached, h)
  <2>1. PICK f : f = [op |-> "factory", token |-> t, gen |-> nextRequest + 1, age |-> age[t],
                      handle |-> h, fresh |-> h # None]
    OBVIOUS
  <2>2. slots' = slots /\ age' = age /\ MayAct /\ frames' = Append(frames, f) /\ f.op # "call"
    BY <1>2, <2>1 DEF ResolveFactory, MayCall
  <2>3. \A i \in DOMAIN frames' : frames'[i] = f
    <3>1. frames = << >>
      BY <2>2, ActsAlone
    <3> QED BY <2>2, <3>1
  <2>4. \A l \in Loaders, s \in Slots : MetaCell(slots[l][s], age)
    BY DEF MetaInv
  <2> QED BY <2>2, <2>3, <2>4 DEF MetaInv, MetaFrame
<1>3. CASE ResolveChain(t, detached, h)
  <2>1. PICK yes \in BOOLEAN : yes = TRUE
    OBVIOUS
  <2>2. Begin(t, yes, detached) /\ MayAct /\ age' = age
    BY <1>3, <2>1 DEF ResolveChain, MayCall
  <2>3. PICK by : by = "resolve"
    OBVIOUS
  <2>4. \E l \in Loaders, s \in Slots : \E f : Chained(t, by, h, l, s, f)
    BY <1>3, <2>3, ResolveChainTyped
  <2>5. PICK l \in Loaders, s \in Slots : \E f : Chained(t, by, h, l, s, f)
    BY <2>4
  <2>6. PICK f : Chained(t, by, h, l, s, f)
    BY <2>5
  <2>7. by # "next"
    BY <2>3
  <2> QED BY <2>2, <2>6, <2>7, ChainMeta
<1> QED BY <1>1, <1>2, <1>3 DEF Resolve

LEMMA ProbeMeta ==
  ASSUME TypeInv, TypeInv', MetaInv, ~Reentrant, NEW t \in Tokens, NEW detached \in BOOLEAN,
         ProbeJoin(t, detached) \/ ProbeAtOnce(t, detached) \/ ProbeChain(t, detached)
  PROVE  MetaInv'
<1>0. PICK none : none = [op |-> "none"]
  OBVIOUS
<1>1. CASE ProbeJoin(t, detached) \/ ProbeAtOnce(t, detached)
  <2>1. slots' = slots /\ age' = age /\ MayAct /\ frames' = frames
    BY <1>1 DEF ProbeJoin, ProbeAtOnce, MayProbe
  <2>2. CellsMeta
    BY <2>1 DEF CellsMeta
  <2>3. none.op # "call"
    BY <1>0
  <2> QED BY <2>1, <2>2, <2>3, AskedMeta
<1>2. CASE ProbeChain(t, detached)
  <2>1. PICK no \in BOOLEAN : no = FALSE
    OBVIOUS
  <2>2. Begin(t, no, detached) /\ MayAct /\ age' = age
    BY <1>2, <2>1 DEF ProbeChain, MayProbe
  <2>3. PICK by, h : by = "probe" /\ h = None
    OBVIOUS
  <2>4. \E l \in Loaders, s \in Slots : \E f : Chained(t, "probe", None, l, s, f)
    BY <1>2, ProbeChainTyped
  <2>5. PICK l \in Loaders, s \in Slots : \E f : Chained(t, by, h, l, s, f)
    BY <2>3, <2>4
  <2>6. PICK f : Chained(t, by, h, l, s, f)
    BY <2>5
  <2>7. by # "next"
    BY <2>3
  <2> QED BY <2>2, <2>6, <2>7, ChainMeta
<1> QED BY <1>1, <1>2

LEMMA ProbeCompletedMeta ==
  ASSUME TypeInv, MetaInv, ~Reentrant, NEW t \in Tokens, ProbeCompleted(t)
  PROVE  MetaInv'
<1>1. PICK l \in Loaders, s \in Slots, x \in Slots :
        /\ slots[l][s] # Leased /\ slots[l][s].meta # None
        /\ \A m \in Loaders : m # l => slots'[m] = slots[m]
        /\ slots'[l][x] = slots[l][s]
        /\ x = s \/ slots'[l][s] = Leased
        /\ \A y \in Slots : y # x /\ y # s => slots'[l][y] = slots[l][y]
  BY CompletedFacts
<1>2. age' = age /\ MayAct /\ frames' = frames
  BY DEF ProbeCompleted
<1>3. MetaCell(slots[l][s], age') /\ MetaCell(Leased, age')
  BY <1>2 DEF MetaInv, MetaCell
<1>4. \A m \in Loaders, y \in Slots :
        slots'[m][y] = slots[m][y] \/ slots'[m][y] = slots[l][s] \/ slots'[m][y] = Leased
  BY <1>1
<1>5. CellsMeta
  BY <1>3, <1>4 DEF CellsMeta
<1>6. PICK none : none = [op |-> "none"]
  OBVIOUS
<1>7. none.op # "call"
  BY <1>6
<1> QED BY <1>2, <1>5, <1>7, AskedMeta

LEMMA PollQueuedMeta ==
  ASSUME TypeInv, TypeInv', MetaInv, NEW t \in Tokens, PollQueued(t)
  PROVE  MetaInv'
<1>1. /\ request[t] # None
      /\ \/ /\ request' = WithRequest(request, t, None) /\ slots' = slots /\ frames' = frames
         \/ \E l \in Loaders, s \in Slots : \E f : Dequeued(t, l, s, f)
  BY PollQueuedTyped
<1>2. age' = age /\ Polling
  BY DEF PollQueued
<1>3. CASE request' = WithRequest(request, t, None) /\ slots' = slots /\ frames' = frames
  <2>1. PICK f : f = Top
    OBVIOUS
  <2>2. f.op = "poll" /\ frames = <<f>>
    BY <1>2, <2>1, PollTop
  <2>3. \A i \in DOMAIN frames' : frames'[i].op # "call"
    BY <1>3, <2>2
  <2> QED BY <1>2, <1>3, <2>3 DEF MetaInv, MetaFrame
<1>4. ASSUME NEW l \in Loaders, NEW s \in Slots, NEW f, Dequeued(t, l, s, f) PROVE MetaInv'
  <2>1. /\ Taken(slots, slots', l, s) /\ f \in Frame /\ f.op = "call" /\ f.by = "queued"
        /\ TokenOf(f) = t /\ GenOf(f) = request[t].gen
        /\ request'[t] # None /\ request'[t].gen = request[t].gen
        /\ frames' = Append(frames, f)
        /\ \A u \in Tokens : u # t => request'[u] = request[u]
    BY <1>4 DEF Dequeued
  <2>2. EndAlone
    BY <2>1, KeptAlone
  <2>3. CellsMeta
    BY <2>1, TakenMeta
  <2>4. RootedBut(frames, frames', f)
    BY <2>1, CalledRoots
  <2>5. PICK n : n = Len(frames')
    OBVIOUS
  <2>6. n \in DOMAIN frames' /\ frames'[n] = f
    BY <2>1, <2>5, Typed
  <2>7. CallSound(f)
    BY <2>1, <2>6 DEF TypeInv, StackSound, FrameSound
  <2>8. f.held = << >>
    BY <2>1, <2>7 DEF CallSound
  <2>9. MetaFrame(f, request', age')
    BY <2>1, <2>8 DEF MetaFrame, TokenOf, GenOf
  <2> QED BY <1>2, <2>2, <2>3, <2>4, <2>9, MetaStays
<1> QED BY <1>1, <1>3, <1>4

LEMMA PollEdgeMeta ==
  ASSUME MetaInv, PollBegin \/ PollEnd
  PROVE  MetaInv'
<1>1. PICK f : f = [op |-> "poll", through |-> nextRequest, loader |-> 1, slot |-> 1]
  OBVIOUS
<1>2. slots' = slots /\ age' = age /\ (frames' = <<f>> \/ frames' = << >>)
  BY <1>1 DEF PollBegin, PollEnd
<1>3. \A i \in DOMAIN frames' : frames'[i].op # "call"
  BY <1>1, <1>2
<1> QED BY <1>2, <1>3 DEF MetaInv, MetaFrame

LEMMA PollSlotMeta ==
  ASSUME TypeInv, MetaInv, PollSlot
  PROVE  MetaInv'
<1>1. PICK f \in PollFrame, g \in PollFrame, l \in Loaders, s \in Slots :
        /\ f.op = "poll" /\ frames = <<f>> /\ l = f.loader /\ s = f.slot /\ g = Advanced(f)
        /\ slots[l][s] # Leased /\ slots[l][s] \in CallState
        /\ \/ /\ ~Waits(slots[l][s])
              /\ slots' = slots /\ frames' = <<g>>
           \/ /\ Waits(slots[l][s]) /\ ~slots[l][s].ready
              /\ slots' = WithCall(slots, l, s, Visited(slots[l][s])) /\ frames' = <<g>>
           \/ /\ Waits(slots[l][s]) /\ slots[l][s].ready
              /\ ~Current(slots[l][s].token, slots[l][s].gen)
              /\ slots' = WithCall(slots, l, s, Free) /\ frames' = <<g>>
           \/ /\ Waits(slots[l][s]) /\ slots[l][s].ready
              /\ Current(slots[l][s].token, slots[l][s].gen)
              /\ slots' = WithCall(slots, l, s, Leased)
              /\ frames' = << g, Call("slot", Visited(slots[l][s]), l, None, FALSE, << >>) >>
  BY PollSlotFacts
<1>2. PICK v : v = Visited(slots[l][s])
  OBVIOUS
<1>3. v.token = slots[l][s].token /\ v.gen = slots[l][s].gen /\ v.meta = slots[l][s].meta
  BY <1>1, <1>2, VisitedFacts
<1>4. request' = request /\ age' = age /\ g.op = "poll"
  BY <1>1 DEF PollSlot, PollFrame
<1>5. PICK h : h = Call("slot", v, l, None, FALSE, << >>)
  OBVIOUS
<1>6. \E c : MetaCell(c, age) /\ slots' = WithCall(slots, l, s, c)
  <2>1. CASE slots' = slots
    <3>1. slots = WithCall(slots, l, s, slots[l][s])
      BY Typed DEF WithCall, Grid, Row
    <3> QED BY <2>1, <3>1 DEF MetaInv
  <2>2. CASE Waits(slots[l][s]) /\ slots' = WithCall(slots, l, s, v)
    BY <1>3, <2>2 DEF Waits, MetaCell
  <2>3. CASE slots' = WithCall(slots, l, s, Free)
    BY <2>3 DEF MetaCell, Free
  <2>4. CASE slots' = WithCall(slots, l, s, Leased)
    BY <2>4 DEF MetaCell
  <2> QED BY <1>1, <1>2, <2>1, <2>2, <2>3, <2>4
<1>7. PICK c : MetaCell(c, age) /\ slots' = WithCall(slots, l, s, c)
  BY <1>6
<1>8. ASSUME NEW m \in Loaders, NEW y \in Slots PROVE MetaCell(slots'[m][y], age')
  <2>1. slots'[m][y] = c \/ slots'[m][y] = slots[m][y]
    BY <1>7, Typed DEF WithCall, Grid, Row
  <2> QED BY <1>4, <1>7, <2>1 DEF MetaInv
<1>9. frames' = <<g>> \/ (frames' = <<g, h>> /\ Current(v.token, v.gen))
  BY <1>1, <1>2, <1>3, <1>5
<1>10. ASSUME NEW i \in DOMAIN frames' PROVE MetaFrame(frames'[i], request', age')
  <2>1. frames'[i] = g \/ (frames'[i] = h /\ Current(v.token, v.gen))
    BY <1>9
  <2>2. h.call = v /\ h.held = << >>
    BY <1>5 DEF Call
  <2> QED BY <1>4, <2>1, <2>2 DEF MetaFrame, Current
<1> QED BY <1>8, <1>10 DEF MetaInv

LEMMA WakeSlotMeta ==
  ASSUME TypeInv, MetaInv, NEW l \in Loaders, NEW s \in Slots, WakeSlot(l, s)
  PROVE  MetaInv'
<1>1. PICK c, d : c = slots[l][s] /\ d = Woken(c)
  OBVIOUS
<1>2. Waits(c) /\ request' = request /\ frames' = frames /\ age' = age
  BY <1>1 DEF WakeSlot
<1>3. c \in CallState
  BY <1>1, <1>2, Typed DEF Waits, Grid, Row
<1>4. MetaCell(d, age)
  BY <1>1, <1>2, <1>3, WokenFacts DEF Waits, MetaCell
<1>5. SameBut(slots, slots', l, s) /\ slots'[l][s] = d
  BY <1>1, WakeSlotTyped DEF Replaced
<1>6. ASSUME NEW m \in Loaders, NEW y \in Slots PROVE MetaCell(slots'[m][y], age')
  <2>1. slots'[m][y] = d \/ slots'[m][y] = slots[m][y]
    BY <1>5 DEF SameBut
  <2> QED BY <1>2, <1>4, <2>1 DEF MetaInv
<1> QED BY <1>2, <1>6 DEF MetaInv

LEMMA WakeRunningMeta ==
  ASSUME TypeInv, TypeInv', MetaInv, NEW i \in DOMAIN frames, WakeRunning(i)
  PROVE  MetaInv'
<1>1. request' = request /\ slots' = slots /\ age' = age
  BY DEF WakeRunning
<1>2. CellsMeta /\ EndAlone
  BY <1>1, KeptAlone DEF CellsMeta
<1> QED BY <1>1, <1>2, WakeRunningRoots, MetaStaysRooted

\* The frames that a return leaves do not work for the request that it ends.
LEMMA ReturnEnds ==
  ASSUME TypeInv, ServeInv, frames # << >>, NEW f, f = Top, f.op # "poll", NEW t, t = TokenOf(f),
         Current(t, GenOf(f)), request' = WithRequest(request, t, None),
         frames' = Callers \/ frames' = Aged(Callers)
  PROVE  EndAlone
<1>1. PICK g : g = GenOf(f)
  OBVIOUS
<1>2. t \in Tokens /\ request[t].gen = g /\ Running(Callers, t, g) = {}
  BY <1>1, OnlyTopWorks
<1>3. \A u \in Tokens : u # t => request'[u] = request[u]
  BY <1>2, Forgotten
<1>4. Callers \in Seq(Frame)
  BY Typed, Popped DEF Callers
<1>5. Running(frames', t, g) = {}
  <2>1. CASE frames' = Callers
    BY <1>2, <2>1
  <2>2. CASE frames' = Aged(Callers)
    <3>1. StacksAlike(Callers, Aged(Callers))
      BY <1>4, AgedFacts
    <3>2. SameRunning(Callers, Aged(Callers), t, g)
      BY <1>4, <3>1, AlikeRuns
    <3> QED BY <1>2, <2>2, <3>2 DEF SameRunning
  <2> QED BY <2>1, <2>2
<1>6. \A i \in DOMAIN frames' : ~RunsFor(frames'[i], t, g)
  BY <1>5 DEF Running
<1> QED BY <1>2, <1>3, <1>6 DEF EndAlone, EndsAlone

LEMMA FactoryReturnsMeta ==
  ASSUME TypeInv, TypeInv', ServeInv, MetaInv, NEW ok \in BOOLEAN, FactoryReturns(ok)
  PROVE  MetaInv'
<1>1. PICK f : f = Top
  OBVIOUS
<1>2. /\ frames # << >> /\ f.op = "factory" /\ slots' = slots /\ age' = age
      /\ \/ request' = request
         \/ Current(f.token, f.gen) /\ request' = WithRequest(request, f.token, None)
      /\ frames' = Callers \/ frames' = Aged(Callers)
  BY <1>1 DEF FactoryReturns, WithRequest
<1>3. CellsMeta
  BY <1>2 DEF CellsMeta
<1>4. EndAlone
  <2>1. CASE request' = request
    BY <2>1, KeptAlone
  <2>2. CASE Current(f.token, f.gen) /\ request' = WithRequest(request, f.token, None)
    <3>1. f.token = TokenOf(f) /\ f.gen = GenOf(f)
      BY <1>2 DEF TokenOf, GenOf
    <3>2. PICK t : t = f.token
      OBVIOUS
    <3> QED BY <1>1, <1>2, <2>2, <3>1, <3>2, ReturnEnds
  <2> QED BY <1>2, <2>1, <2>2
<1>5. Rooted(frames, frames')
  BY <1>2, StackRoots
<1> QED BY <1>2, <1>3, <1>4, <1>5, MetaStaysRooted

\* The running call, and the one it follows, work for the token as it is.
LEMMA TopMeta ==
  ASSUME TypeInv, ServeInv, MetaInv, Calling, NEW f, f = Top
  PROVE  /\ Current(f.call.token, f.call.gen) /\ f.call.age = age[f.call.token]
         /\ f.held # << >> => /\ f.held[1].call.token = f.call.token
                              /\ f.held[1].call.age = age[f.call.token]
<1>1. frames # << >> /\ frames \in Seq(Frame) /\ f.op = "call"
  BY CallTop, Typed
<1>2. f = frames[Len(frames)] /\ Len(frames) \in DOMAIN frames
  BY <1>1, Popped DEF Top
<1>3. MetaFrame(f, request, age)
  BY <1>2 DEF MetaInv
<1>4. Current(f.call.token, f.call.gen)
  BY <1>1, <1>3 DEF MetaFrame, Current
<1>5. PICK t, g : t = f.call.token /\ g = f.call.gen
  OBVIOUS
<1>6. f.call.age = age[t]
  BY <1>4, <1>5, TopServes
<1> QED BY <1>1, <1>3, <1>4, <1>5, <1>6 DEF MetaFrame

LEMMA RefusedMeta ==
  ASSUME TypeInv, ServeInv, MetaInv, Calling, NEW f, f = Top, NEW c, c = Refused(f)
  PROVE  MetaCell(c, age)
<1>1. /\ f.op = "call" /\ CallSound(f) /\ f.call \in CallState /\ f.call.token \in Tokens
      /\ f.held # << >> => f.held[1].call \in CallState
  BY CallTop, CallTypes
<1>2. /\ f.call.age = age[f.call.token]
      /\ f.held # << >> => /\ f.held[1].call.token = f.call.token
                           /\ f.held[1].call.age = age[f.call.token]
  BY TopMeta
<1>3. PICK x : x = IF f.by = "next" THEN f.held[1].call ELSE f.call
  OBVIOUS
<1>4. x \in CallState /\ x.token \in Tokens /\ x.age = age[x.token]
  <2>1. CASE f.by = "next"
    <3>1. f.held # << >>
      BY <1>1, <2>1 DEF CallSound
    <3>2. x = f.held[1].call
      BY <1>3, <2>1
    <3> QED BY <1>1, <1>2, <3>1, <3>2
  <2>2. CASE f.by # "next"
    <3>1. x = f.call
      BY <1>3, <2>2
    <3> QED BY <1>1, <1>2, <3>1
  <2> QED BY <2>1, <2>2
<1>5. c = [x EXCEPT !.meta = "err", !.ready = FALSE, !.linked = FALSE]
  BY <1>3 DEF Refused
<1>6. c.token = x.token /\ c.age = x.age
  BY <1>4, <1>5 DEF CallState
<1> QED BY <1>4, <1>6 DEF MetaCell

\* What a return leaves in the slots.
MetaLeft(f, c, d) ==
  /\ c \in CallState /\ d \in CallState /\ c.gen <= nextRequest /\ d.gen <= nextRequest
  /\ slots' = Settled(f, c, d) /\ MetaCell(c, age) /\ MetaCell(d, age)

LEMMA ReturnLeavesMeta ==
  ASSUME TypeInv, ServeInv, MetaInv, Return, ~ReturnNotMine, NEW f, f = Top
  PROVE  \E c, d : MetaLeft(f, c, d)
<1>1. Calling
  BY ReturnLeaves
<1>2. f.call \in RunningCall /\ f.call \in CallState /\ f.call.gen <= nextRequest
      /\ f.call.token \in Tokens
  BY <1>1, CallTop, RefusedFacts
<1>3. f.call.age = age[f.call.token] /\ Current(f.call.token, f.call.gen)
  BY <1>1, TopMeta
<1>4. PICK free, refused, told, on, same :
        /\ free = Free /\ refused = Refused(f) /\ told = Told(f.call) /\ on = GoesOn(f.call)
        /\ same = f.call
  OBVIOUS
<1>5. free \in CallState /\ free.gen <= nextRequest /\ MetaCell(free, age)
  BY <1>1, <1>4, RefusedFacts DEF MetaCell, Free
<1>6. refused \in CallState /\ refused.gen <= nextRequest /\ MetaCell(refused, age)
  BY <1>1, <1>4, RefusedFacts, RefusedMeta
<1>7. told \in CallState /\ told.gen <= nextRequest /\ MetaCell(told, age)
  BY <1>2, <1>3, <1>4, ToldFacts DEF MetaCell
<1>8. on \in CallState /\ on.gen <= nextRequest /\ MetaCell(on, age)
  BY <1>2, <1>4, GoesOnFacts DEF MetaCell, RunningCall
<1>9. same \in CallState /\ same.gen <= nextRequest /\ MetaCell(same, age)
  BY <1>2, <1>4 DEF MetaCell, RunningCall
<1>10. ASSUME NEW c, NEW d, c \in {free, refused, told, on, same}, d \in {free, refused},
              slots' = Settled(f, c, d)
       PROVE  \E x, y : MetaLeft(f, x, y)
  <2>1. MetaLeft(f, c, d)
    BY <1>5, <1>6, <1>7, <1>8, <1>9, <1>10 DEF MetaLeft
  <2> QED BY <2>1
<1>11. ~ReturnStale
  BY <1>3 DEF ReturnStale
<1>12. ASSUME ReturnValue PROVE \E x, y : MetaLeft(f, x, y)
  <2>1. slots' = Settled(f, free, free)
    BY <1>4, <1>12 DEF ReturnValue
  <2> QED BY <1>10, <2>1
<1>13. ASSUME ReturnMeta PROVE \E x, y : MetaLeft(f, x, y)
  <2>1. slots' = Settled(f, told, free)
    BY <1>4, <1>13 DEF ReturnMeta, Told
  <2> QED BY <1>10, <2>1
<1>14. ASSUME NEW notMine \in BOOLEAN, ReturnError(notMine) PROVE \E x, y : MetaLeft(f, x, y)
  <2>1. \E c, d \in {free, refused} : slots' = Settled(f, c, d)
    BY <1>4, <1>14 DEF ReturnError
  <2> QED BY <1>10, <2>1
<1>15. ASSUME ReturnPending PROVE \E x, y : MetaLeft(f, x, y)
  <2>1. slots' = Settled(f, same, free)
    BY <1>4, <1>15 DEF ReturnPending
  <2> QED BY <1>10, <2>1
<1>16. ASSUME ReturnMetaWanted PROVE \E x, y : MetaLeft(f, x, y)
  <2>1. slots' = Returned(f.loader, on) /\ f.by = "slot"
    BY <1>4, <1>16 DEF ReturnMetaWanted, GoesOn
  <2>2. f.held = << >>
    BY <1>1, <2>1, CallTop DEF CallSound
  <2>3. slots' = Settled(f, on, free)
    BY <2>1, <2>2 DEF Settled
  <2> QED BY <1>10, <2>3
<1> QED BY <1>11, <1>12, <1>13, <1>14, <1>15, <1>16 DEF Return

LEMMA ReturnNotMineMeta ==
  ASSUME TypeInv, TypeInv', ServeInv, MetaInv, ReturnNotMine
  PROVE  MetaInv'
<1>1. PICK f : f = Top
  OBVIOUS
<1>2. Calling /\ request' = request /\ age' = age
  BY <1>1 DEF ReturnNotMine, Ongoing
<1>3. PICK l \in Loaders, s \in Slots, x \in Slots : \E S, h, probe : NotMine(f, S, x, l, s, h, probe)
  BY <1>1, NotMineFacts
<1>4. PICK S, h, probe : NotMine(f, S, x, l, s, h, probe)
  BY <1>3
<1>5. \E c : MetaCell(c, age') /\ OneNew(slots, S, c)
  <2>1. CASE S = slots
    BY <2>1 DEF OneNew, MetaCell
  <2>2. CASE Given(slots, S, f.loader, x, Free)
    <3>1. OneNew(slots, S, Free)
      BY <2>2, GivenCells
    <3> QED BY <3>1 DEF MetaCell, Free
  <2> QED BY <1>4, <2>1, <2>2 DEF NotMine
<1>6. PICK c : MetaCell(c, age') /\ OneNew(slots, S, c)
  BY <1>5
<1>7. OneNew(S, slots', Leased)
  <2>1. Taken(S, slots', l, s)
    BY <1>4, TakenFacts DEF NotMine, GridSound
  <2> QED BY <2>1 DEF Taken, SameBut, OneNew
<1>8. CellsMeta
  <2>1. MetaCell(Leased, age')
    BY DEF MetaCell
  <2> QED BY <1>6, <1>7, <2>1, TwoNewMeta
<1>9. EndAlone
  BY <1>2, KeptAlone
<1>10. /\ h \in Frame /\ frames' = Append(Callers, h)
       /\ h.call.token = f.call.token /\ h.call.gen = f.call.gen
       /\ h.held = << [loader |-> f.loader, call |-> f.call] >> \/ h.held = f.held
  BY <1>4 DEF NotMine
<1>11. /\ Current(f.call.token, f.call.gen) /\ f.call.age = age[f.call.token]
       /\ f.held # << >> => /\ f.held[1].call.token = f.call.token
                            /\ f.held[1].call.age = age[f.call.token]
  BY <1>1, <1>2, TopMeta
<1>12. MetaFrame(h, request', age')
  <2>1. h.held # << >> => /\ h.held[1].call.token = f.call.token
                          /\ h.held[1].call.age = age[f.call.token]
    <3>1. PICK k : k = [loader |-> f.loader, call |-> f.call]
      OBVIOUS
    <3>2. CASE h.held = <<k>>
      BY <1>11, <3>1, <3>2
    <3>3. CASE h.held = f.held
      BY <1>11, <3>3
    <3> QED BY <1>10, <3>1, <3>2, <3>3
  <2> QED BY <1>2, <1>10, <1>11, <2>1 DEF MetaFrame, Current
<1>13. RootedBut(frames, frames', h)
  BY <1>2, <1>10, CallTop, NextCalledRoots
<1> QED BY <1>2, <1>8, <1>9, <1>12, <1>13, MetaStays

LEMMA ReturnsMeta ==
  ASSUME TypeInv, TypeInv', ServeInv, MetaInv, Return
  PROVE  MetaInv'
<1>1. PICK f : f = Top
  OBVIOUS
<1>2. CASE ReturnNotMine
  BY <1>2, ReturnNotMineMeta
<1>3. CASE ~ReturnNotMine
  <2>1. \/ request' = request
        \/ /\ Current(f.call.token, f.call.gen)
           /\ request' = WithRequest(request, f.call.token, None)
    BY <1>1, <1>3, ReturnOutcome
  <2>2. Calling /\ (frames' = Callers \/ frames' = Aged(Callers))
    BY <1>1, <1>3, ReturnLeaves
  <2>3. age' = age
    BY <1>3 DEF Return, ReturnStale, ReturnPending, ReturnValue, ReturnMeta, ReturnMetaWanted,
       ReturnError
  <2>4. PICK c, d : MetaLeft(f, c, d)
    BY <1>1, <1>3, ReturnLeavesMeta
  <2>5. PICK U : OneNew(slots, U, c) /\ OneNew(U, slots', d)
    BY <1>1, <2>2, <2>4, SettledNew DEF MetaLeft
  <2>6. CellsMeta
    BY <2>3, <2>4, <2>5, TwoNewMeta DEF MetaLeft
  <2>7. frames # << >> /\ f.op = "call" /\ f.call.token = TokenOf(f) /\ f.call.gen = GenOf(f)
    BY <1>1, <2>2, CallTop DEF TokenOf, GenOf
  <2>8. EndAlone
    <3>1. CASE request' = request
      BY <3>1, KeptAlone
    <3>2. CASE Current(f.call.token, f.call.gen) /\ request' = WithRequest(request, f.call.token, None)
      <4>1. PICK t : t = f.call.token
        OBVIOUS
      <4> QED BY <1>1, <2>2, <2>7, <3>2, <4>1, ReturnEnds
    <3> QED BY <2>1, <3>1, <3>2
  <2>9. Rooted(frames, frames')
    BY <2>2, <2>7, StackRoots
  <2> QED BY <2>3, <2>6, <2>8, <2>9, MetaStaysRooted
<1> QED BY <1>2, <1>3

LEMMA NextMeta ==
  ASSUME TypeInv, TypeInv', ServeInv, MetaInv, ~Reentrant, [Next]_vars
  PROVE  MetaInv'
<1>0. ASSUME request' = request, slots' = slots, age' = age,
             frames' = frames \/ frames' = Aged(frames)
      PROVE  MetaInv'
  <2>1. CellsMeta /\ EndAlone
    BY <1>0, KeptAlone DEF CellsMeta
  <2> QED BY <1>0, <2>1, StackRoots, MetaStaysRooted
<1>1. ASSUME NEW t \in Tokens, NEW kind \in Offered, Register(t, kind) PROVE MetaInv'
  BY <1>1, RegisterMeta
<1>2. ASSUME NEW t \in Tokens, ClearFailed(t) PROVE MetaInv'
  BY <1>0, <1>2 DEF ClearFailed
<1>3. ASSUME NEW t \in Tokens, Reload(t) PROVE MetaInv'
  BY <1>3, ReloadMeta
<1>4. ASSUME NEW t \in Tokens, Resolve(t, TRUE, None) PROVE MetaInv'
  <2>1. Asks(None, t)
    BY DEF Asks
  <2>2. \E detached \in BOOLEAN : Resolve(t, detached, None)
    BY <1>4
  <2> QED BY <2>1, <2>2, ResolveMeta
<1>5. ASSUME NEW t \in Tokens, ProbeCompleted(t) PROVE MetaInv'
  BY <1>5, ProbeCompletedMeta
<1>6. ASSUME NEW t \in Tokens, NEW detached \in BOOLEAN,
             ProbeJoin(t, detached) \/ ProbeAtOnce(t, detached) \/ ProbeChain(t, detached)
      PROVE  MetaInv'
  BY <1>6, ProbeMeta
<1>7. ASSUME NEW t \in Tokens, PollQueued(t) PROVE MetaInv'
  BY <1>7, PollQueuedMeta
<1>8. ASSUME NEW h \in Handles, NEW t \in Tokens, Load(h, t) PROVE MetaInv'
  BY <1>0, <1>8 DEF Load
<1>9. ASSUME NEW h \in Handles, NEW copy \in Handles, CloneHandle(h, copy) PROVE MetaInv'
  BY <1>0, <1>9 DEF CloneHandle
<1>10. ASSUME NEW h \in Handles, DropHandle(h) PROVE MetaInv'
  BY <1>10, DropHandleMeta
<1>11. ASSUME NEW h \in Handles, Get(h) PROVE MetaInv'
  <2>1. PICK t : t = handles[h].token
    OBVIOUS
  <2>2. t \in Tokens /\ Asks(h, t)
    BY <1>11, <2>1, Typed DEF Get, Asks, HandleState
  <2>3. \E detached \in BOOLEAN : Resolve(t, detached, h)
    BY <1>11, <2>1 DEF Get
  <2> QED BY <2>2, <2>3, ResolveMeta
<1>12. ASSUME NEW ok \in BOOLEAN, FactoryReturns(ok) PROVE MetaInv'
  BY <1>12, FactoryReturnsMeta
<1>13. CASE PollBegin \/ PollSlot \/ PollEnd
  BY <1>13, PollEdgeMeta, PollSlotMeta
<1>14. CASE Return
  BY <1>14, ReturnsMeta
<1>15. ASSUME NEW l \in Loaders, NEW s \in Slots, WakeSlot(l, s) PROVE MetaInv'
  BY <1>15, WakeSlotMeta
<1>16. ASSUME NEW i \in DOMAIN frames, WakeRunning(i) PROVE MetaInv'
  BY <1>16, WakeRunningMeta
<1>17. CASE WakeLate
  BY <1>0, <1>17 DEF WakeLate
<1>18. CASE UNCHANGED vars
  BY <1>0, <1>18 DEF vars
<1> QED BY <1>1, <1>2, <1>3, <1>4, <1>5, <1>6, <1>7, <1>8, <1>9, <1>10, <1>11, <1>12, <1>13,
           <1>14, <1>15, <1>16, <1>17, <1>18 DEF Next

\* When callbacks leave the manager alone, the metadata that a slot keeps for the next
\* probe was read from the registration the token has now: replacing or removing the
\* token took the older one with it (docs/resources.md:28).  A loader that replaces the
\* token while it refuses it refutes it.
THEOREM MetadataIsOfTheToken == ASSUME ~Reentrant PROVE Spec => []MetaCurrent
<1>1. Init => MetaInv
  BY DEF Init, MetaInv, MetaCell, Free
<1>2. TypeInv /\ TypeInv' /\ ServeInv /\ MetaInv /\ [Next]_vars => MetaInv'
  BY NextMeta
<1>3. MetaInv => MetaCurrent
  BY DEF MetaInv, MetaCell, MetaCurrent
<1> QED BY <1>1, <1>2, <1>3, TypesHold, ServesHold, PTL DEF Spec
=============================================================================
