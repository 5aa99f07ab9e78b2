------------------------- MODULE ReactiveRuntime -------------------------
(***************************************************************************)
(* The ambient reactive runtime (core/reactive/mod.rs): signals and model  *)
(* sources, lazily recomputed Computeds, effects, and the flush that runs  *)
(* the dirty effects of one World.                                         *)
(*                                                                         *)
(* User closures are not known, so a running closure is a frame of a stack *)
(* and takes any number of steps before it returns: it reads sources and   *)
(* computeds, and the closure of an effect also writes, spawns effects,    *)
(* disposes of them and changes the widget tree.  Application code outside *)
(* any closure takes the same steps.                                       *)
(*                                                                         *)
(* The graph is the set deps, as module Dependencies promises it; a        *)
(* publication drains its queue before it returns, so it is one step.      *)
(*                                                                         *)
(* Assumed of closures: a Computed only reads (ModelReadOnlyGuard refuses  *)
(* it model writes; a write to what it already read panics on its borrowed *)
(* cell) and computeds do not read each other in a circle.  A closure      *)
(* returns or panics, for reasons of its own or because the runtime        *)
(* refused a step; a panic goes up to whoever catches it, be it another    *)
(* closure or the application.                                             *)
(***************************************************************************)
EXTENDS Naturals, Sequences, FiniteSets

CONSTANTS
  Signals,      \* shared sources
  Models,       \* ModelSources registered to a World
  Computeds,
  Effects,      \* the effects ever created; their ids are never used again
  Worlds,
  Entities,     \* widgets that effects are bound to
  Gates,        \* RetainedEffects of pages and cells, CachedBranchVisibility
  None,
  OwnerOf,      \* the World, or None, of a model, computed, widget or gate
  EntityOf,     \* the widget an effect is bound to, or None
  GatesOf,      \* the gates on the way from that widget to the root
  Retirable,    \* the models that may be retired
  PassLimit     \* FLUSH_MAX_PASSES

ASSUME PassAssumption == PassLimit \in Nat \ {0}
ASSUME OwnerAssumption == OwnerOf \in
  [Models \cup Computeds \cup Entities \cup Gates -> Worlds \cup {None}]
ASSUME BindingAssumption ==
  /\ EntityOf \in [Effects -> Entities \cup {None}]
  /\ GatesOf \in [Effects -> SUBSET Gates]
  /\ \A e \in Effects : EntityOf[e] = None => GatesOf[e] = {}
  /\ Retirable \subseteq Models
ASSUME NoneIsNobody == None \notin Worlds \cup Entities
ASSUME KindsAssumption ==
  /\ Signals \cap Models = {} /\ Effects \cap Computeds = {}
  /\ (Signals \cup Models) \cap (Effects \cup Computeds) = {}
ASSUME EffectsAreFinite == IsFiniteSet(Effects)
\* Effect::spawn: "widget effects require a world scope".
ASSUME WidgetsHaveWorlds == \A n \in Entities : OwnerOf[n] \in Worlds

VARIABLES
  status,      \* of an effect: "new", "first" while its first run is not over,
               \* "live", or "gone"; between "new" and "gone" it is registered
  home,        \* owner_world of an effect
  deps,        \* pairs <<source or computed, subscriber>>
  stale,       \* the dirty computeds
  batch,       \* dirty_effects: what the pass found queued and has not popped
  later,       \* dirty_effects: the entries behind those
  extra,       \* pops the pass has left beyond its batch
  flushing,    \* the World whose flush is running, or None
  passes,      \* the passes that flush has begun
  ran,         \* whether the pass ran an effect
  frames,      \* the running closures, the innermost last: [who, world]
  concealed,   \* gates that are not active
  dead,        \* despawned widgets
  retired,     \* models without a live source
  released,    \* Worlds that were dropped
  reads,       \* ghost: the sources the last run or value depends on
  behind       \* ghost: whoever read a source that was written since

queues == <<batch, later, extra>>
flush == <<flushing, passes, ran>>
tree == <<concealed, dead>>
ghosts == <<reads, behind>>
vars == <<status, home, deps, stale, queues, flush, frames, tree, retired,
          released, ghosts>>

Sources == Signals \cup Models
Subscribers == Effects \cup Computeds

Init ==
  /\ status = [e \in Effects |-> "new"]
  /\ home = [e \in Effects |-> None]
  /\ deps = {}
  /\ stale = Computeds
  /\ batch = {} /\ later = {} /\ extra = 0
  /\ flushing = None /\ passes = 0 /\ ran = FALSE
  /\ frames = << >>
  /\ concealed = {} /\ dead = {}
  /\ retired = {} /\ released = {}
  /\ reads = [x \in Subscribers |-> {}]
  /\ behind = {}

-----------------------------------------------------------------------------
Live(e) == status[e] \in {"first", "live"}
Queued == batch \cup later

Top == frames[Len(frames)]
Idle == frames = << >> /\ flushing = None
Running == {frames[i].who : i \in DOMAIN frames}

\* Where code may write, spawn and change the tree: outside any closure and in
\* the closure of an effect.  Between two effects the flush itself runs.
MayAct == Idle \/ (frames # << >> /\ Top.who \in Effects)

\* current_world_id: application code enters any World it still has.
Contexts == IF Idle THEN {None} \cup (Worlds \ released) ELSE {Top.world}

\* Enabled: the checks flush_signal_dirty makes before it runs an effect.
Enabled(e) ==
  /\ EntityOf[e] \notin dead
  /\ GatesOf[e] \cap concealed = {}

Column(x) == {d \in deps : d[2] = x}

-----------------------------------------------------------------------------
(***************************************************************************)
(* Publication.  A computed that was already dirty is not passed through.  *)
(***************************************************************************)

\* Mutant: a computed is marked dirty, but what reads it is not.
DirtiedDirectly(source) == {c \in Computeds \ stale : <<source, c>> \in deps}

\* mark_computed_dirty, applied to all that is reached: the least set closed
\* under the dependencies among computeds that are not dirty yet.
Dirtied(source) ==
  LET fresh == Computeds \ stale
      Closed(S) == \A c \in fresh :
        (<<source, c>> \in deps \/ \E d \in S : <<d, c>> \in deps) => c \in S
  IN  {c \in fresh : \A S \in SUBSET fresh : Closed(S) => c \in S}

Woken(source) ==
  {e \in Effects : \E y \in {source} \cup Dirtied(source) : <<y, e>> \in deps}

\* Mutant: an effect that is queued is queued again.
PublishTwice(source) ==
  /\ stale' = stale \cup Dirtied(source)
  /\ later' = later \cup Woken(source)
  /\ behind' = behind \cup {x \in Subscribers : source \in reads[x]}
  /\ UNCHANGED <<status, home, deps, batch, extra, flush, frames, retired, released, reads>>

\* publish_graph_source
Publish(source) ==
  /\ stale' = stale \cup Dirtied(source)
  /\ later' = later \cup (Woken(source) \ batch)
  /\ behind' = behind \cup {x \in Subscribers : source \in reads[x]}
  /\ UNCHANGED <<status, home, deps, batch, extra, flush, frames, retired, released, reads>>

SetSignal(s) == MayAct /\ Publish(s) /\ UNCHANGED tree

NotifyModel(m) ==
  /\ MayAct
  /\ m \notin retired
  /\ OwnerOf[m] \notin released
  /\ Publish(m)
  /\ UNCHANGED tree

\* ModelSource::retire: computeds are invalidated, effects are not queued, and
\* the source gets a new key, which drops its subscriptions.
Retire(m) ==
  /\ MayAct
  /\ m \in Retirable \ retired
  /\ retired' = retired \cup {m}
  /\ stale' = stale \cup Dirtied(m)
  /\ deps' = {d \in deps : d[1] # m}
  /\ reads' = [x \in Subscribers |-> reads[x] \ {m}]
  /\ UNCHANGED <<status, home, queues, flush, frames, tree, released, behind>>

-----------------------------------------------------------------------------
(***************************************************************************)
(* Reads.  The innermost closure subscribes; an effect that was disposed   *)
(* of while it runs does not.                                              *)
(***************************************************************************)
Tracks == frames # << >> /\ (Top.who \in Effects => Live(Top.who))

\* subscribe_automatic_graph: an effect without a World binds to that of the
\* first owned source it reads; other combinations of owners panic.
MayRead(x, owner) ==
  \/ owner = None
  \/ x \in Effects /\ home[x] \in {None, owner}
  \/ x \in Computeds /\ OwnerOf[x] = owner

\* Mutant: an effect without a World stays so.
BindNothing(x, owner) == UNCHANGED home

Bind(x, owner) ==
  IF x \in Effects /\ owner # None THEN home' = [home EXCEPT ![x] = owner]
                                   ELSE UNCHANGED home

Read(source, owner) ==
  /\ Tracks
  /\ MayRead(Top.who, owner)
  /\ Bind(Top.who, owner)
  /\ deps' = deps \cup {<<source, Top.who>>}
  /\ reads' = [reads EXCEPT ![Top.who] = @ \cup {source}]
  /\ UNCHANGED <<status, stale, queues, flush, frames, tree, retired, released, behind>>

ReadSignal(s) == Read(s, None)

ReadModel(m) == m \notin retired /\ OwnerOf[m] \notin released /\ Read(m, OwnerOf[m])

\* Computed::get.  The caller subscribes, then a dirty computed is evaluated in
\* a frame of its own, after its old subscriptions were cleared.
MayGet(c) ==
  /\ frames = << >> => flushing = None
  /\ c \notin Running
  /\ OwnerOf[c] \notin released
  /\ frames # << >> =>
       /\ OwnerOf[c] = None \/ Top.world \in {None, OwnerOf[c]}
       /\ Tracks => MayRead(Top.who, OwnerOf[c])

Subscription(c) == IF Tracks THEN {<<c, Top.who>>} ELSE {}

\* A clean computed answers from its cache.
GetCached(c) ==
  /\ c \notin stale
  /\ MayGet(c)
  /\ Tracks
  /\ Bind(Top.who, OwnerOf[c])
  /\ deps' = deps \cup Subscription(c)
  /\ reads' = [reads EXCEPT ![Top.who] = @ \cup reads[c]]
  /\ behind' = IF c \in behind THEN behind \cup {Top.who} ELSE behind
  /\ UNCHANGED <<status, stale, queues, flush, frames, tree, retired, released>>

\* Mutant: the caller of a dirty computed is not subscribed to it.
EvaluateUnsubscribed(c) ==
  /\ c \in stale
  /\ MayGet(c)
  /\ IF Tracks THEN Bind(Top.who, OwnerOf[c]) ELSE UNCHANGED home
  /\ deps' = deps \ Column(c)
  /\ reads' = [reads EXCEPT ![c] = {}]
  /\ behind' = behind \ {c}
  /\ frames' = Append(frames, [who |-> c, world |-> OwnerOf[c]])
  /\ UNCHANGED <<status, stale, queues, flush, tree, retired, released>>

Evaluate(c) ==
  /\ c \in stale
  /\ MayGet(c)
  /\ IF Tracks THEN Bind(Top.who, OwnerOf[c]) ELSE UNCHANGED home
  /\ deps' = (deps \cup Subscription(c)) \ Column(c)
  /\ reads' = [reads EXCEPT ![c] = {}]
  /\ behind' = behind \ {c}
  /\ frames' = Append(frames, [who |-> c, world |-> OwnerOf[c]])
  /\ UNCHANGED <<status, stale, queues, flush, tree, retired, released>>

\* The value is stored and goes to whoever asked for it.
ReturnComputed ==
  /\ frames # << >>
  /\ Top.who \in Computeds
  /\ stale' = stale \ {Top.who}
  /\ frames' = SubSeq(frames, 1, Len(frames) - 1)
  /\ reads' = IF Len(frames) = 1 THEN reads
              ELSE [reads EXCEPT ![frames[Len(frames) - 1].who] = @ \cup reads[Top.who]]
  /\ UNCHANGED <<status, home, deps, queues, flush, tree, retired, released, behind>>

-----------------------------------------------------------------------------
(***************************************************************************)
(* Effects.                                                                *)
(***************************************************************************)

\* Mutant: the queue keeps the id.
UnregisterKeepingQueue(E) ==
  /\ status' = [e \in Effects |-> IF e \in E THEN "gone" ELSE status[e]]
  /\ deps' = {d \in deps : d[2] \notin E}
  /\ UNCHANGED <<batch, later, extra>>
  /\ reads' = [x \in Subscribers |-> IF x \in E THEN {} ELSE reads[x]]
  /\ behind' = behind \ E

\* unregister_effect, of all in E at once: their places in the graph and in the
\* queue.
Forget(E) ==
  /\ status' = [e \in Effects |-> IF e \in E THEN "gone" ELSE status[e]]
  /\ deps' = {d \in deps : d[2] \notin E}
  /\ reads' = [x \in Subscribers |-> IF x \in E THEN {} ELSE reads[x]]
  /\ behind' = behind \ E

Unregister(E) ==
  /\ Forget(E)
  /\ batch' = batch \ E
  /\ later' = later \ E
  /\ extra' = extra + Cardinality(batch \cap E)

\* Effect::spawn: registered with the current World, and run at once.
Spawn(e, w) ==
  /\ MayAct
  /\ w \in Contexts
  /\ status[e] = "new"
  /\ EntityOf[e] # None => w = OwnerOf[EntityOf[e]] /\ EntityOf[e] \notin dead
  /\ status' = [status EXCEPT ![e] = "first"]
  /\ home' = [home EXCEPT ![e] = w]
  /\ frames' = Append(frames, [who |-> e, world |-> w])
  /\ UNCHANGED <<deps, stale, queues, flush, tree, retired, released, ghosts>>

\* Whoever holds the Effect, or the OwnedEffects with it, drops it.
Dispose(e) ==
  /\ MayAct
  /\ status[e] = "live"
  /\ Unregister({e})
  /\ UNCHANGED <<home, stale, flush, frames, tree, retired, released>>

ReturnEffect(e) ==
  /\ frames # << >>
  /\ Top.who = e
  /\ frames' = SubSeq(frames, 1, Len(frames) - 1)
  /\ status' = IF status[e] = "first" THEN [status EXCEPT ![e] = "live"] ELSE status
  /\ UNCHANGED <<home, deps, stale, queues, flush, tree, retired, released, ghosts>>

\* Mutant: an effect stays registered whose first run was left by a panic.
UnwindKeepingEffects(k) ==
  /\ k < Len(frames)
  /\ frames' = SubSeq(frames, 1, k)
  /\ IF k > 0 \/ flushing = None
       THEN UNCHANGED <<queues, flush>>
       ELSE /\ batch' = {}
            /\ later' = batch \cup later
            /\ extra' = 0
            /\ flushing' = None /\ passes' = 0 /\ ran' = FALSE
  /\ UNCHANGED <<status, home, deps, stale, tree, retired, released, ghosts>>

\* The innermost closure panics, and all are left but the first k, the last of
\* which catches the panic.  Guards put the scopes back and unregister the
\* effects that were in their first run; a computed stays dirty; a flush is over
\* when nothing within it catches, and its queue stays as it is.
Unwind(k) ==
  LET left == {frames[i].who : i \in (k + 1)..Len(frames)}
      unfinished == {e \in left \cap Effects : status[e] = "first"}
  IN  /\ k < Len(frames)
      /\ frames' = SubSeq(frames, 1, k)
      /\ IF k > 0 \/ flushing = None
           THEN Unregister(unfinished) /\ UNCHANGED flush
           ELSE /\ Forget(unfinished)
                /\ batch' = {}
                /\ later' = (batch \cup later) \ unfinished
                /\ extra' = 0
                /\ flushing' = None /\ passes' = 0 /\ ran' = FALSE
      /\ UNCHANGED <<home, stale, tree, retired, released>>

-----------------------------------------------------------------------------
(***************************************************************************)
(* flush_signal_dirty, at input delivery and at frame boundaries of a      *)
(* World; no two are nested.  order_effects sorts what the pass has left   *)
(* whenever the tree changed, so any of it may be popped next.             *)
(***************************************************************************)

\* What reclaim_dead_effects unregisters.
Doomed(w) == {e \in Effects : Live(e) /\ home[e] = w /\ EntityOf[e] \in dead}

\* Reclamation first, then nothing more when nothing is queued.
FlushBegin(w) ==
  LET doomed == Doomed(w)
  IN  /\ Idle
      /\ w \notin released
      /\ Forget(doomed)
      /\ batch' = later \ doomed
      /\ later' = {}
      /\ extra' = 0
      /\ IF batch' = {} THEN UNCHANGED flush
         ELSE flushing' = w /\ passes' = 1 /\ ran' = FALSE
      /\ UNCHANGED <<home, stale, frames, tree, retired, released>>

Foreign(e) == home[e] \notin {None, flushing}

\* e is popped: the batch shrinks, or what follows it when effects of the batch
\* were disposed of meanwhile.
Pop(e) ==
  /\ flushing # None
  /\ frames = << >>
  /\ \/ e \in batch /\ UNCHANGED extra
     \/ e \in later /\ extra > 0 /\ extra' = extra - 1
  /\ batch' = batch \ {e}

\* An effect of another World goes back to the end of the queue.
PopForeign(e) ==
  /\ Pop(e)
  /\ Foreign(e)
  /\ later' = later \cup {e}
  /\ UNCHANGED <<status, home, deps, stale, flush, frames, tree, retired, released, ghosts>>

\* An effect whose widget is gone or behind a closed gate is dropped: the gate
\* wakes it when it opens.
PopDisabled(e) ==
  /\ Pop(e)
  /\ ~Foreign(e)
  /\ ~Enabled(e)
  /\ later' = later \ {e}
  /\ UNCHANGED <<status, home, deps, stale, flush, frames, tree, retired, released, ghosts>>

\* run_effect: the old subscriptions are cleared and the closure starts; a
\* WorldlessEffectGuard hides the World from an effect without one.
PopRun(e) ==
  /\ Pop(e)
  /\ ~Foreign(e)
  /\ Enabled(e)
  /\ later' = later \ {e}
  /\ deps' = deps \ Column(e)
  /\ reads' = [reads EXCEPT ![e] = {}]
  /\ behind' = behind \ {e}
  /\ frames' = << [who |-> e, world |-> home[e]] >>
  /\ ran' = TRUE
  /\ UNCHANGED <<status, home, stale, flushing, passes, tree, retired, released>>

PassOver == flushing # None /\ frames = << >> /\ batch = {} /\ (extra = 0 \/ later = {})

\* Mutant: the flush stops after a pass that ran something.
EndPassAtOnce(marked) ==
  /\ PassOver
  /\ extra' = 0
  /\ flushing' = None
  /\ passes' = 0
  /\ ran' = FALSE
  /\ UNCHANGED <<batch, later>>
  /\ UNCHANGED <<status, home, deps, stale, frames, tree, retired, released, ghosts>>

\* Mutant: nothing stops effects that keep writing what they read.
EndPassUncapped(marked) ==
  /\ PassOver
  /\ extra' = 0
  /\ IF ran \/ marked
       THEN /\ UNCHANGED <<passes, flushing>>
            /\ ran' = FALSE
            /\ batch' = later
            /\ later' = {}
       ELSE /\ flushing' = None
            /\ passes' = 0
            /\ ran' = FALSE
            /\ UNCHANGED <<batch, later>>
  /\ UNCHANGED <<status, home, deps, stale, frames, tree, retired, released, ghosts>>

\* The end of a pass, in which widgets may have been marked too: the flush is
\* settled when nothing happened, and stops after PassLimit passes in any case.
EndPass(marked) ==
  /\ PassOver
  /\ extra' = 0
  /\ IF (ran \/ marked) /\ passes < PassLimit
       THEN /\ passes' = passes + 1
            /\ ran' = FALSE
            /\ batch' = later
            /\ later' = {}
            /\ UNCHANGED flushing
       ELSE /\ flushing' = None
            /\ passes' = 0
            /\ ran' = FALSE
            /\ UNCHANGED <<batch, later>>
  /\ UNCHANGED <<status, home, deps, stale, frames, tree, retired, released, ghosts>>

-----------------------------------------------------------------------------
(***************************************************************************)
(* The widget tree, as far as it gates effects, and the end of a World.    *)
(***************************************************************************)

\* with_world: an effect reaches the tree of its own World only.
MayTouch(n) ==
  /\ OwnerOf[n] \notin released
  /\ MayAct
  /\ frames # << >> => Top.world = OwnerOf[n]

Conceal(g) ==
  /\ MayTouch(g)
  /\ g \notin concealed
  /\ concealed' = concealed \cup {g}
  /\ UNCHANGED <<status, home, deps, stale, queues, flush, frames, dead,
                 retired, released, ghosts>>

\* The effects behind g, which retained::wake or wake_display queues.
Gated(g) ==
  {e \in Effects : Live(e) /\ g \in GatesOf[e] /\ home[e] = OwnerOf[EntityOf[e]]}

\* Mutant: a gate opens without waking anybody.
RevealSilently(g) ==
  /\ MayTouch(g)
  /\ g \in concealed
  /\ concealed' = concealed \ {g}
  /\ UNCHANGED <<status, home, deps, stale, queues, flush, frames, dead,
                 retired, released, ghosts>>

Reveal(g) ==
  /\ MayTouch(g)
  /\ g \in concealed
  /\ concealed' = concealed \ {g}
  /\ later' = later \cup (Gated(g) \ batch)
  /\ UNCHANGED <<status, home, deps, stale, batch, extra, flush, frames, dead,
                 retired, released, ghosts>>

Despawn(n) ==
  /\ MayTouch(n)
  /\ n \notin dead
  /\ dead' = dead \cup {n}
  /\ UNCHANGED <<status, home, deps, stale, queues, flush, frames, concealed,
                 retired, released, ghosts>>

\* release_graph_owner, when a World is dropped.
ReleaseWorld(w) ==
  LET own == {e \in Effects : Live(e) /\ home[e] = w}
      Owned(x) == x \in Models \cup Computeds /\ OwnerOf[x] = w
  IN  /\ Idle
      /\ w \in Worlds \ released
      /\ released' = released \cup {w}
      /\ status' = [e \in Effects |-> IF e \in own THEN "gone" ELSE status[e]]
      /\ deps' = {d \in deps : ~Owned(d[1]) /\ ~Owned(d[2]) /\ d[2] \notin own}
      /\ later' = later \ own
      /\ reads' = [x \in Subscribers |-> IF x \in own \/ Owned(x) THEN {} ELSE reads[x]]
      /\ behind' = {x \in behind : x \notin own /\ ~Owned(x)}
      /\ UNCHANGED <<home, stale, batch, extra, flush, frames, tree, retired>>

-----------------------------------------------------------------------------
FlushStep(e) == PopForeign(e) \/ PopDisabled(e) \/ PopRun(e)

\* What flush_signal_dirty does between two closures.
FlushLoop ==
  \/ \E e \in Effects : FlushStep(e)
  \/ \E marked \in BOOLEAN : EndPass(marked)

Next ==
  \/ \E s \in Signals : SetSignal(s) \/ ReadSignal(s)
  \/ \E m \in Models : NotifyModel(m) \/ Retire(m) \/ ReadModel(m)
  \/ \E c \in Computeds : GetCached(c) \/ Evaluate(c)
  \/ ReturnComputed
  \/ \E k \in 0..Len(frames) : Unwind(k)
  \/ \E e \in Effects, w \in Worlds \cup {None} : Spawn(e, w)
  \/ \E e \in Effects : Dispose(e) \/ ReturnEffect(e)
  \/ \E w \in Worlds : FlushBegin(w) \/ ReleaseWorld(w)
  \/ FlushLoop
  \/ \E g \in Gates : Conceal(g) \/ Reveal(g)
  \/ \E n \in Entities : Despawn(n)

Spec == Init /\ [][Next]_vars

\* Closures end, and those that the flushes of a World run do not all panic, which
\* could keep what is behind them in the queue from its turn; the flush loop runs
\* on, and every App has frames until it ends.
Fairness ==
  /\ \A w \in Worlds \cup {None} : SF_vars(flushing = w /\ \E e \in Effects : ReturnEffect(e))
  /\ WF_vars(ReturnComputed \/ FlushLoop)
  /\ \A w \in Worlds : SF_vars(FlushBegin(w))

FairSpec == Spec /\ Fairness

-----------------------------------------------------------------------------
(***************************************************************************)
(* Correctness.                                                            *)
(***************************************************************************)
Frame == [who : Subscribers, world : Worlds \cup {None}]

\* The state has its type; outside a flush no pass is under way.
TypeOK ==
  /\ status \in [Effects -> {"new", "first", "live", "gone"}]
  /\ home \in [Effects -> Worlds \cup {None}]
  /\ deps \subseteq (Sources \cup Computeds) \X Subscribers
  /\ stale \subseteq Computeds
  /\ batch \subseteq Effects /\ later \subseteq Effects /\ extra \in Nat
  /\ batch \cap later = {}
  /\ flushing \in Worlds \cup {None} /\ passes \in 0..PassLimit /\ ran \in BOOLEAN
  /\ flushing = None => batch = {} /\ extra = 0 /\ passes = 0
  /\ frames \in Seq(Frame)
  /\ concealed \subseteq Gates /\ dead \subseteq Entities
  /\ retired \subseteq Models /\ released \subseteq Worlds
  /\ reads \in [Subscribers -> SUBSET Sources]
  /\ behind \subseteq Subscribers

\* An effect whose first run was left by a panic is not registered: nobody has a
\* handle that could dispose of it.
UnfinishedForgotten ==
  \A e \in Effects : status[e] = "first" => e \in Running

\* No update is lost: an effect that read something, directly or through
\* computeds, that was written since is queued, unless a closed gate holds it
\* back until it opens.
NoLostUpdate ==
  \A e \in Effects : Live(e) /\ e \in behind => e \in Queued \/ ~Enabled(e)

\* A computed never answers from a cache that misses a write.
CachesCurrent == behind \cap Computeds \subseteq stale

\* An effect runs only in flushes of the World it belongs to, and depends on
\* the sources of that World alone besides the shared ones, also when it was
\* created outside any World and bound itself in the middle of a run.
EffectsStayHome ==
  /\ \A i \in DOMAIN frames : flushing # None /\ frames[i].who \in Effects =>
       frames[i].world \in {None, flushing}
  /\ \A d \in deps : d[2] \in Effects /\ d[1] \notin Signals =>
       OwnerOf[d[1]] \in {None, home[d[2]]}

\* Nothing of a disposed effect or a dropped World is left behind: no queue
\* entry to run, no subscription to wake, no source to read.
NothingLeftBehind ==
  /\ \A e \in Queued : Live(e)
  /\ \A d \in deps :
       /\ d[2] \in Effects => Live(d[2])
       /\ \A x \in {d[1], d[2]} \ (Effects \cup Signals) : OwnerOf[x] \notin released
  /\ \A e \in Effects : Live(e) => home[e] \notin released

\* A flush that no panic ends and that stays below the cap leaves nothing of its World to run.
FlushSettles ==
  [][ flushing # None /\ flushing' = None /\ frames = << >> /\ passes < PassLimit =>
        \A e \in Queued' : Foreign(e) ]_vars

\* An effect that missed a write eventually runs, whatever other effects and
\* Worlds do, and though flushes are cut short by panics, as long as a World is left that flushes it.
UpdatesArrive ==
  \A e \in Effects :
    (Live(e) /\ Enabled(e) /\ e \in behind)
      ~> (e \notin behind \/ ~Live(e) \/ ~Enabled(e) \/ released = Worlds)

\* What core/reactive/mod.rs:1719 says of an Effect: it reads signals, "then
\* re-runs whenever any of them changes", so a registered effect that read a
\* signal, be it through a computed, is queued when the signal was written.
RerunsOnChange ==
  \A e \in Effects : Live(e) /\ e \in behind /\ Enabled(e) => e \in Queued
=============================================================================
