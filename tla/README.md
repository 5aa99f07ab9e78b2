# Formal models of mirui's runtime

mirui is a `no_std` UI framework driven by an ECS. Its application code writes
signals and models; a dependency graph decides which effects are due; a flush
reruns them and with that changes the widget tree; resources arrive from
loaders and I/O threads and wake the host; models are saved to a file that must
survive a crash. This directory holds TLA+ models of the parts of that
machinery where order matters, TLC runs over small instances,
and TLAPS proofs that hold for every instance. All paths below are relative to
the repository; the crate is `src/src`.

    tlc -config MCGraph.cfg MCReactiveGraph.tla
    tlapm ReactiveGraph_proofs.tla

## 1. Inventory

| Component | State | Operations | What is hard | What makes it correct |
|---|---|---|---|---|
| Dependency graph `core/reactive/graph.rs` | per partition: source and consumer slots with generations, a bit matrix of edges, a queue with flags; owners with proxies of shared sources | reserve, add and remove owners, sources and consumers, renew, subscribe, publish, take pending | stale keys, slot reuse at the last generation, proxies in every owner, growth that must not change meaning | no edge or queue entry outlives its slot; proxies mirror the shared sources; no stale key works again; publication never overflows |
| Reactive runtime `core/reactive/mod.rs`, `retained.rs` | effects with home Worlds, dirty computeds, the dirty queue, flush state, retained gates | set, notify, retire, read, evaluate, spawn, dispose, flush, reveal, conceal, drop a World | closures that write, spawn and dispose while they run; several Worlds on one queue; widgets that are skipped and must catch up | whoever read what was written is queued, running or skipped on purpose; effects stay in their World; a flush ends; updates arrive |
| Resource manager `core/resource/manager*.rs`, `handle.rs`, `invocation.rs` | value cache, registrations, requests, failed tokens, invocation slots, handles with a cached answer | register, remove, load, reload, resolve, get, probe, poll | callbacks that call back into the manager; calls that outlive what they were for; two kinds of demand on one request | nothing stale is published; a request always has a call; slots are not lost; loads end |
| Wake-up chain `core/resource/wake.rs` and its callers | ready flags, registered wakers | take ready, register, register shared, wake | I/O threads between any two critical sections; wakers called late | no completion is lost on the way to the host |
| Byte sources and block pool `core/resource/assets.rs`, `blocks.rs`, `source*.rs` | sessions with an open or a read in progress, blocks with their buffers, a cache, reads in flight | open, read, cancel, retire | a consumer that goes away in the middle of a read, providers that panic or return another's buffer, a pool at its limit, blocks that are evicted while somebody reads them | every session and every buffer returns once; no block in use is recycled |
| State lease `core/threading/state.rs` | a value that is in or taken, eight waiters | take, wait, return | a return between the look and the registration, a ninth waiter | exclusive, and no waiter is forgotten |
| Models `core/model*` | incarnations, keyed lists, maps, sets, trees | mutate, move, retire | references to earlier incarnations, notifications during a mutation | a retired incarnation never comes back; views follow their collection |
| Persistence `core/persistence`, `core/storage` | registrations, pending marks, protection, autosave clock, the file | register and restore, save, remove, enable, autosave, suspend, quit | a crash between two steps of a write, a failed restore followed by a save, a save that fails, a change while its older value is being saved | the file is always a complete one; what could not be read is not overwritten unasked; no change is taken for saved that is not |
| Timers `core/timer` | due time, mode, pause | arm, fire, pause, resume | a wrapping 32-bit clock, callbacks that remove timers | each timer fires as often as its mode says |
| Caches `core/cache` | entries with costs, references, order of use | acquire, insert, evict, resize | entries that are in use at the limit | the budget holds, what is in use stays |
| ECS `ecs/` | entities with generations, sparse sets, command queue | spawn, despawn, insert, remove, commit | deferred commands against despawned entities | commands apply in order or not at all |
| Application loop `app/` | plugins, suspend request, frame timing | tick, suspend, resume, quit | the order of input, poll, flush, layout, paint | nothing is drawn from a half-updated tree |
| Input `input/` | presses, focus, hover, gestures | dispatch, recognise, cancel | leases in subtrees that are concealed or recycled | each press ends; no event reaches what is gone |
| Navigation and lists `ui/widgets/navigation*`, `lazy_list*`, `ui/branch.rs` | page stack, cell pool, visible range | push, pop, scroll, rebind | cells and pages that are recycled while effects are queued | a cell shows its row once it is visible |
| Layout, rendering, text, surfaces, audio, animation, diagnostics | see `PROJECT.json` | | geometry, pixels, samples and host protocols | not a matter of these models |

How they interact. Signals are global to the thread, models and computeds
belong to a World; the runtime keeps one graph for all Worlds and one queue of
dirty effects. `App::tick` and the render system flush one World
(`app/mod.rs:1111`, `ui/render_system.rs:3401`, `3512`, `4393`). Lazy lists,
navigation and hidden branches put gates between a flush and the effects of
concealed widgets. The plugins of `app/plugins/image_resources.rs` and
`resources.rs` poll the resource managers once per tick; loaders and factories
run inside `resolve` and `poll_pending` and may call the manager again. I/O
threads reach them only through wakers, along the chain from source to slot to
manager to host, which is guarded by short critical sections. The pool of
blocks is the other state that threads share: an `AssetSource` may be read and
dropped on any of them, and `poll_pending` retires on the host's thread what
they left. The persistence plugin runs after each frame and on suspend and
quit; it reads Models through their endpoints and writes through `Storage`.

The hazards this leads to are listed line by line in `PROJECT.json`, with the
properties that would catch each, or the reason why none does yet.

## 2. Modules

    BitGraph            one partition, as operators          graph.rs, BitGraph
      ReactiveGraph     the graph: partitions and owners     graph.rs, ReactiveGraph
        Dependencies    what the graph promises (abstract)
        MCReactiveGraph
      BitGraph_proofs -> ReactiveGraph_proofs
    ReactiveRuntime     runtime and flush over Dependencies' promise
      MCReactiveRuntime
      ReactiveRuntime_proofs
    ResourceManager     the manager on its owner thread
      MCResourceManager
      ResourceManager_proofs -> ResourceQuiet_proofs
    WakeSet             the wake-up chain between threads
      WakeSet_proofs
    ByteSources         sessions, the pool of blocks and its lease
      MCByteSources
      ByteSources_proofs
    RecordStore         what Storage promises (abstract)
      FileStorage       one file, its cache and the steps of a write
        Persistence     registrations, saves and autosave over FileStorage
          Persistence_proofs

**BitGraph, ReactiveGraph, Dependencies.** A partition is a record of source
and consumer nodes, `rows` (the set bits of the matrix), the pending queue and
its limits. Generations, the reuse of the first dead slot, the growth of the
matrix and the checks before a publication are as in the code; the packing of
bits into words is not modelled. A method that returns an error changes
nothing, so only successful outcomes are actions. The client may present any
key that could ever have been issued. `Dependencies` knows no slots, proxies,
rows or queues: sources, consumers, who depends on whom, who is due. The map
from one to the other reads a source's edges off all partitions, so an edge
missing from one proxy is a visible difference.

**ReactiveRuntime.** A closure is not known, so a running one is a frame of a
stack and takes any number of steps: it reads signals, models and computeds,
and an effect also writes, spawns effects, disposes of any, itself included,
and changes the widget tree. Application code takes the same steps. The graph
is the set `deps`, as `Dependencies` promises it. `batch`, `later` and `extra`
are the dirty queue during a pass: what was found and not yet popped, what is
behind it, and how many pops are left; effects of one batch come in any order,
which covers every order `order_effects` computes. `EndPass(marked)` stands
for passes that only mark widgets. `Unwind(k)` is a panic of the innermost
closure that the k-th closure catches, or the application: the guards of the
closures in between put the scopes back, effects in their first run (status
`"first"`) are unregistered by `EffectInitGuard`, computeds under evaluation
stay dirty, and a flush that nobody within it protects is over, with what it
had not popped still queued. `reads` and `behind` are history: what the
last run depends on, and whoever read something written since.

**ResourceManager.** Tokens are registered as values or factories, removed,
reloaded, loaded and resolved; what runs is a stack of frames (factory, loader
call, poll), and between a callback and its return the manager may do anything
`Reentrant` allows. A value is known by the age of its token, the number of
registrations, removals and reloads before it, so that a value of an earlier
registration is told from the current one. Handles cache an answer together
with a revision; all the code ever does with revisions is compare them, so a
handle has a usable answer or none, and a running `get` remembers whether the
revision it read is still the current one. The cache evicts any other entry
when it is full. Put takes the first empty slot, as in the code: calls move.

**WakeSet.** Every critical section of `wake.rs` is one step, and every thread
carries the wakers it has taken and not called yet, so that any thread runs
between two of them. Around it the owner thread runs `poll_pending`,
`take_ready`, `poll_on` and `poll_read` as sequences of those sections.
ResourceManager treats the chain from slot to host as one step; this module is
why it may.

**ByteSources.** A session is a record: the stage of its opening, where its
call in progress is (`at`), what the provider does (`io`), the block it is
reading into (`read`) and the one it read from last (`last`). Taking the pool
(`Take`), finding it taken (`Wait`, `Refuse`, `Break`) and what is done with it
before it is returned are steps of their own, so that any session on another
thread runs in between; nothing else happens while the pool is out, as the
code calls no provider then, and so an operation and the return are one step.
`Restored` is the fate of a buffer that comes back or does not. The code gives
each opening a new number so that keys of different openings differ; here the
source of a key is the session, and keys of its earlier openings become None
when it gets its identity. `parked` says that a call or the host was told to
wait; a session has one waker, whichever parent is behind it (module WakeSet).

**RecordStore, FileStorage, Persistence.** `FileStorage` is the file at the
path, the temporary one, the cache and the request in progress; creating,
writing, synchronising and renaming are steps, each of which may fail, and
between any two the process or the power may end. A file that was not
synchronised may be torn by a loss of power, and a rename is only certain after
the directory was flushed, which the code leaves to the system: after a loss of
power an older image may be back. `RecordStore` is the contract in two
variables: a write that was accepted is in the store, one that was refused is
not, and what a crash leaves is one of the images the store went through.
`Persistence` is the owner above it: entries for Models (value, candidate,
revision of `Width` values that saturates, protection) and for other items,
registration with its restore, changes, explicit saves and removals, save_all
over the live keys, disabling, the autosave clock, suspend, quit and resume. A
job is one save, restore or removal in progress; codecs accept a record or do
not. Bytes of archives are left out.

## 3. What is checked

| Run | Instance | Shows |
|---|---|---|
| `graph` | side by side: one partition with two sources and two consumers, slots through both generations and up to four reuses; two Worlds added and removed over three epochs, with a shared source and sources and a consumer of their own (22 thousand states up to symmetry) | TypeOK with the committed limits; edges join live slots; queue and flags agree; a publication fits; proxies mirror the shared sources; owner keys are unique; no stale key is usable; the graph implements `Dependencies` |
| `runtime` | side by side: one World with a computed and two effects; one with two computeds that may read each other and an effect; two Worlds whose effects keep writing, with a model that may be retired and two nested gates; closures that panic anywhere, caught at any level (212 thousand states) | no lost update; caches current; a flush settles its World or stops at the cap; effects stay in their World; a dropped World leaves nothing, nor does an effect whose first run panicked; what is skipped behind gates is made up for; updates arrive |
| `resource_reentrant` | two tokens, two handles, one slot, one cache place, callbacks that use the manager (454 thousand states) | nothing stale published; handles current; each request has exactly one call; no slot lost; the host is told |
| `resource_probes` | two probing loaders in a chain, callbacks that leave the manager alone (29 thousand states) | invalidated calls retire; metadata current; demand kept; loads finish |
| `wake_chain` | two slots, a source with room for one waiter, two I/O threads (334 thousand states) | waiters, slots and the manager are not forgotten; every wake-up arrives; no set overflows |
| `byte_sources` | side by side: two sessions, one of which reads two blocks; one that reads while two others open; two buffers, one read in flight, one waiter, one fault (107 thousand states) | buffers and reservations accounted for; a block in use keeps its bytes; who waits is woken; a dropped session returns |
| `persistence` | a Model and an item in one file, two values, a revision that saturates at once, one fault, one change in each run of the process, one rename not yet flushed (500 thousand states) | no change taken for saved that is not; unreadable records kept; the file implements `RecordStore`; autosave saves |

The bounds. Two of each actor are the least that makes the interesting cases
happen: two subscribers of one source, one disposing of the other; two Worlds
on one queue; two tokens competing for one slot and one cache place, with
callbacks nested two deep; two slots on one source. `MaxGeneration = 2` lets a
slot run through all its generations and die. `MaxEpoch = 3` lets a World be
added, removed and added again. `PassLimit = 2` stands for
`FLUSH_MAX_PASSES`: it is reached. `MaxRequest` and `MaxAge` bound requests and
registrations, and only steps that begin something new are cut off by them.
`Size = 1` stands for the eight waiters of a source, so that a second one is
refused; the proofs are about every `Size`. `WaiterSlots = 1` stands for the
eight of a `State` in the same way: with one session that has the pool and one
that waits, a third is refused. Two buffers and one read in flight are the
least with which a block can be evicted while somebody holds it, and with one
lost to a faulty provider the pool can have none to give. `Width = 2` makes the
revision of a candidate saturate after one change, and `MaxUnflushed` lets a
loss of power bring back the image before the last.

Instances side by side are one configuration whose state constraint
(`Instances`, in the MC module) is the union of two or three restrictions: each
is complete within its own, and every run starts in their intersection.

`CHECK_DEADLOCK FALSE` stands where the system may stop: a graph whose
generations are used up, effects that have all ended, an idle wake-up chain, a
process that has ended with no change left to make.

Fairness, and why the code justifies it:

- ReactiveRuntime. Computeds return, and the flush is a loop and goes on
  (weakly fair). Effects return strongly fairly, since they may be interrupted
  by computeds they read any number of times and may panic: of the effects that
  the flushes of one World run, not all panic for ever. Without that a flush
  may be cut short at the same effect each time, and what is behind it in the
  queue never has its turn; nothing in the code retires such an effect. Each
  World is flushed again and again while it lives, by the ticks of its
  application: strongly fair, because another World's flush disables it for a
  while. Nothing is assumed about writers, which may write for ever; the cap on
  passes is what keeps them from starving the other World.
- ResourceManager. The host polls when it was woken; the poll loop and the
  callbacks return; an operation that is pending wakes its call; and a call
  does not answer "pending" for ever.
- WakeSet. A thread that took wakers calls them; the owner thread goes on with
  a poll; a callback returns at last (strongly fair: it may read the source any
  number of times before); the host polls when woken, which is strongly fair
  because application code begins new calls in between. Nothing is assumed
  about completions, which may come for ever or not at all.
- ByteSources. Threads go on with a call in progress and return the pool, and
  the provider of the session in question finishes at last. Other sessions may
  read for ever. What their threads must not do is take the pool just before
  the host each time: that the host finds it free at some time and then gets
  it is strong fairness, an assumption about the scheduler, since the code has
  no queue for the pool.
- Persistence. A job goes on to its end, the file system flushes the directory,
  and frames come again and again while the application runs: strongly fair,
  because a job or a suspension disables them for a while. Nothing is assumed
  about changes, failures or crashes.

Every property has a mutant in `PROJECT.json`: a plausible mistake in a mapped
definition (a dropped guard, a register that does not look at the flag, a
verdict stored without a check) under which the run fails.

### Disagreements with the documentation

Five runs expect a violation. Each checks one sentence of the repository.

- `runtime_retired`: when a model is retired, computeds that read it become
  dirty without queueing the effects that read those computeds. A later write
  to a signal the computed reads too finds it dirty already and stops
  (`mod.rs:1675`), so the effect does not run again, though "an Effect
  subscribes to the signals it reads, then re-runs whenever any of them
  changes" (`mod.rs:1719`).
- `resource_retired`: a loader's callback that removes another pending token
  during `poll_pending` moves that token's call to a slot the loop has passed.
  Nobody wakes the manager for it, so it does not retire "on the next
  owner-thread poll" (`docs/resources.md:52`).
- `resource_meta`: when all loaders refuse a probe whose token was replaced
  meanwhile, the refusal is stored as metadata without a look at the request
  and becomes the verdict on the replacement (`docs/resources.md:28`).
- `resource_demand`: a token resolved from its own probe callback joins the
  probe's request and disappears with it when the probe answers at once
  (`docs/resources.md:54`).

- `sources_capacity`: the host retires a read whose buffer has come back while
  another thread has the pool and the waiters of its State are full.
  `poll_take` answers `Capacity`, `poll_retire` takes any ready answer for the
  end of the read (`source_read.rs:402`), and the reset of the session meets
  its assertion that a "physical read must retire before reusing its slot"
  (`source_read.rs:116`). The host panics; the reservation is never given back.

The properties of the three resource runs hold in `resource_probes`, where
callbacks leave the manager alone; `BuffersAccounted` and `ReaderReturns` say
what is left of the pool after such a panic; `NoLostUpdate` says what the runtime does keep after a
retirement.

## 4. What is proved

For every value of the constants that the named assumptions of the modules
allow: any number of Worlds, slots, generations, effects, computeds, sources,
tokens, handles, loaders, threads, sessions, blocks, keys and values. The bounds that only keep TLC's
instances small (`Growth`, `MaxDepth`, `MaxRequest`, `MaxAge`, `MaxChanges`, `MaxFaults`, `MaxUnflushed`) are
constants too, so that the theorems hold for every bound, and the state
constraints of the MC modules play no part in them.

| Module | Theorem | Property |
|---|---|---|
| `ReactiveGraph_proofs` | `Typing` | `TypeOK` |
| | `NoInheritedEdges` | `EdgesJoinLiveSlots` |
| | `QueueAndFlagsAgree` | `QueueMatchesFlags` |
| | `PublicationNeverFull` | `PublishFits` |
| | `OwnerKeysUnique` | `OwnersDistinct` |
| | `ProxiesMirror` | `ProxiesFaithful` |
| | `StaleForEver` | `StaleKeysStayStale`, an action property |
| | `Implementation` | `ImplementsDependencies`, the refinement of `Dependencies` |
| `ReactiveRuntime_proofs` | `Typing` | `TypeOK` |
| | `FirstRunsEnd` | `UnfinishedForgotten` |
| | `NothingOutlives` | `NothingLeftBehind` |
| | `HomesHold` | `EffectsStayHome` |
| | `FlushesSettle` | `FlushSettles`, an action property |
| | `ReadsCovered` | the invariant `ReadInv` |
| | `CachesStayCurrent` | `CachesCurrent` |
| | `UpdatesKept` | `NoLostUpdate`, if no computed reads what may be retired |
| `ResourceManager_proofs` | `Typing` | `TypeOK` |
| | `OneCallEach` | `RequestsServed` |
| | `NothingStale` | `NoStaleValue`, an action property |
| | `NoWakeUpLost` | `WakeUpsKept` |
| `ResourceQuiet_proofs` | `HandlesShowTheValue` | `HandlesCurrent`, if no loader probes or callbacks leave the manager alone |
| | `NoLoadForgotten` | `DemandKept`, an action property; likewise, and with a cache that keeps a value |
| | `InvalidatedRetire` | `RetiredByNextPoll`, if callbacks leave the manager alone |
| | `MetadataIsOfTheToken` | `MetaCurrent`, if callbacks leave the manager alone |
| `WakeSet_proofs` | `WakersFit` | `TypeOK` |
| | `NoWaiterForgotten` | `WaitersKept` |
| | `NoWakeUpLost` | `SlotWakesKept` |
| | `ManagersPolled` | `ManagerWakesKept` |
| `Persistence_proofs` | `Typing` | `TypeOK` |
| | `ChangesKept` | `NoLostChange` |
| | `UnreadableKept` | `UnreadKept`, an action property |
| | `Implementation` | `StoreImplemented`, the refinement of `RecordStore` |
| `ByteSources_proofs` | `Typing` | `TypeOK` |
| | `ReservationsReturn` | `BuffersAccounted` |
| | `BlocksHeld` | `HeldBlocksKept` |
| | `WaitersWoken` | `ParkedWillWake` |

**The graph.** The first invariant, `IInv`, is one of partitions: types and
limits, edges only between live slots, and a queue that holds each flagged
consumer once under its current generation. None of these is inductive alone.
Edges stay between live slots because a removal clears the row or the column,
and a generation renewed in place clears its row; the queue stays exact because
a removal takes the flag and the entry with it and a publication appends
exactly those who were not flagged. `BitGraph_proofs` shows that each operation
keeps the invariant of one partition; `ReactiveGraph_proofs` lifts that to all
partitions, action by action. That a publication fits follows from the queue
being exact: its entries are distinct live slots, and there are never more
slots than the limit. The counting rests on a lemma by least counterexample
(`LeastNatural`), since the installed provers have no induction scheme.
`PublishFits` speaks of every live source, so no precondition is left to the
caller.

The second, `IdentityInv`, adds who is who. `Faithful` says of one owner that
its proxies are live, in distinct slots, and one for each live shared source.
It survives what the client does to the owner's own sources for a reason that
is easy to miss in the code: `remove_source` and `renew_owner_source` take any
key, and nothing in them looks whether the source is a proxy; they cannot hit
one because a proxy's id is never handed out (`SourceKeys`), and a proxy and a
source of the client that are both live are in different slots. The proxies of
a new owner are numbered by rank; that the ranks of distinct sources differ is
an argument about cardinalities (`NewOwnerFaithful`). The invariant also says,
with the effect of each operation on the nodes (the `...Effect` lemmas), that
partitions only age (`Ageing`): a generation never goes down, a slot becomes
live only under a generation it has not had, and a partition that is found
under an owner key was there before under the same key or has the next epoch.
From that a stale key stays stale (`StaleForEver`).

`Implementation` proves the refinement that the run `graph` checks on an
instance. The four variables of `Dependencies` are unions over partitions of
keys put together from slots; `Views` says of them, element by element, what
they hold: a key is a source, has a target, depends, is due (`IsSource`,
`HasTarget`, `DependsOn`, `IsDue`). A dependency is a bit of a row of the
consumer's partition under the slot by which that partition knows the source:
its own slot, or the slot of its proxy (`Local`). `ViewInv` is `IdentityInv` and
the fact that no graph is larger than the key space (`LimitsInv`), which makes
all live keys members of `Ids`. The steps fall into three kinds. What a
consumer asks for, and a publication inside one partition, changes that
partition alone (`OneChanges`); a publication of a shared source changes all at
once, each by its own rule. Adding, renewing or removing a source sweeps, in
every partition that knows it, the row of one slot (`Swept`): nothing is left
in the row for the source that goes, or for the one that comes and reuses the
slot, and no row of another source is touched, because two sources never share
a slot, as `Faithful` says of the proxies. An owner takes its partition with it,
and `swap_remove`, which renumbers the others, is unseen since the views speak
of keys and not of positions. Growth, a scan of a queue in vain and the proxies
of a new owner are steps that a client cannot see. A renewal is a
`RenewSource`, or a `RemoveSource` when the slot has reached its last
generation.

**The runtime.** `IInv` of `ReactiveRuntime_proofs` adds three things to its
properties: a closure above a running computed is another computed
(`ReadersInnermost`: computeds only read), whoever runs does so in a World
that is still there (`FramesSound`), and the effect of a widget has the
widget's World and a computed depends on nothing of another World
(`HomesKept`). The last is what lets a World go: what it owns is read by its
own effects and computeds alone, so nothing that stays depends on it.
`FlushSettles` needs `RunSeen`: in a pass that ran nothing, nothing of the
flushed World was queued behind the batch.

The second half is about chains of computeds. `Dirtied(s)`, the
computeds a write of `s` makes dirty, is a least fixed point; the proofs use it
as the intersection of all closed sets (`Reach`), and its growth when an edge is
added or a computed becomes clean, without induction. The invariant says that
whatever the value of a clean computed came from still reaches it
(`ComputedsCovered`: `s` itself, or a computed that a write of `s` would make
dirty, is a dependency), also for a computed that is half evaluated, and that
the frames of nested evaluations are linked by dependencies (`Calls`). Then a
write of `s` makes every computed that came from it dirty (`CachesCurrent`),
and wakes every effect that read it (`EffectsCovered`), or a gate holds the
effect back. `UpdatesKept` has a hypothesis, `[]RetirablesReadDirectly`: no
computed reads a model that may be retired. Without it the argument breaks at
`ModelSource::retire`, which makes computeds dirty and queues nobody, and the
run `runtime_retired` is the counterexample. `CachesStayCurrent` needs no such
hypothesis. TLC checks `NoLostUpdate` on an instance with a model that may be
retired and an effect that reads it.

**The resource manager.** Loaders and factories are unknown code, so a running
one is a frame, and what it may do to the manager is what anybody may do. The
proofs are therefore about what a step leaves alone: which frames stay as they
were (`Alike`), and which slots. `TypeInv` counts: the leases that are out of a
loader are the frames that hold them (`Balanced`), so a call that returns finds
a slot, whatever was taken from the loader meanwhile; and a call that is held
while `poll_pending` asks further loaders comes from an earlier one.

`ServeInv` is about one token at a time. A request is with nobody while it is
queued, and otherwise with exactly one call in a slot or frame of the stack,
and that one was made for the token's present age (`Works`). Each operation
ends the requests it invalidates and makes at most one; a result is published
only under the generation it was asked for, and two requests never have the
same one. `RequestsServed` and `NoStaleValue` follow. `WakeInv` says who will
act: a call that waits will be told (`ready` or `linked`), one that was told and
is wanted has the manager scheduled, or a poll that runs has yet to come to its
slot (`Ahead`); a request that is queued has the manager scheduled, or was
queued before the poll began, which takes it at its end.

The other four need a hypothesis about callbacks, because the code does not
keep these properties without one: the runs `resource_demand`,
`resource_retired` and `resource_meta` are the counterexamples, and where
`resource_demand` loses a load, a handle that waits for it keeps its fallback.
With `Quiet`,
nobody asks for a token while a loader looks at it for a probe (`AloneInv`),
so that no load joins a request that ends with metadata; with it go the handles
(`ShowInv`: a handle shows the resident value, or a fallback that is due, and a
callback that runs may still tell the handle that waits for it). When callbacks
leave the manager alone, a call that was invalidated was woken, and the manager
is scheduled or a poll has yet to come to it (`RetireInv`): nothing takes the
slot's number away from it, which is what a callback that removes tokens does.
Then, too, the metadata in a slot and in a loader's hands is of the token as it
is now (`MetaInv`).

**Wake-ups.** The properties speak of flags, and a flag
alone says nothing about who will act on it. What makes them inductive is who
is registered while a flag is down (`Linked`, `HostLinked`): a slot of a call
has its manager, the manager has the host, but for the time between taking the
flag and registering; and that a set that is ready has told everyone (`Told`).
Then whoever sets a flag finds the next waker registered, or the owner thread
is about to register and will see the flag. For sources there is one more
thing to know (`Polling`): a call that is being polled is on no list of those
who wait.

**Persistence.** `StoreInv` ties the four images of the file together: the cache
is the file, or the file with the record being written; the temporary file is
the cache from the moment it is complete; a rename happens only once it was
synchronised. Each step of a write is then a step of `RecordStore` or none, and
so is a crash. For changes, `StampInv` says that while the revision of a
candidate is the one a write will confirm, and has not saturated, its value is
the one being written; it is why a change in the middle of a save stays pending,
and why `Candidate::confirm` refuses at the last revision. `UnreadInv` says that
a key whose record could not be read is protected, or not registered, as long
as that record is in the file.

**Byte sources.** `OwnersInv` gives every buffer that is out exactly one
session that reads into it; `CountInv` makes the number of reads in flight the
number of sessions that have a reservation, or broke with one; `SessionInv`
says what each stage of a session may hold; `LruInv` that only blocks whose
buffer is there are in the cache, each once. A block is recycled only if
nobody holds it, which is a statement about all sessions, and a session takes
hold of a block only in the step that finds it there. `ParkedWillWake` needs
nothing beyond its own statement and the types: whoever parks has a provider
that is running or is in the list that a return wakes.

What the theorems assume. Kinds of names are disjoint (a signal is not an
effect, `None` is nobody); a set whose elements are counted is finite (effects,
slots, sessions); sizes are natural numbers, positive where the code's are;
`WidgetsHaveWorlds` is the code's own assertion in `Effect::spawn`; there is a
value to write (`ValuesAssumption`). `Quiet` and `~Reentrant` are hypotheses of
theorems and not assumptions of the module: they restrict what callbacks do,
the code does not, and the theorems say what the code promises to those who
keep to it. `CacheLimit > 0` in `NoLoadForgotten` is needed: a cache that keeps
nothing drops a value in the step that publishes it.

What stays with TLC. Liveness under fairness (`UpdatesArrive`, `LoadsFinish`,
`AutosaveSaves` and the others) and ENABLED are out of the prover's reach. Of
the safety properties of the passing runs none is left: where a theorem has a
hypothesis, a run that expects a violation shows what happens without it. Those
five runs have no theorem by their nature.

## 5. What is not modelled

- In the runtime: which widgets are dirty and the paint requests that commit
  or drop invalidations; the window in which a World is being dropped; dropping
  signals and computeds; the stamps that let reclamation be skipped; nested
  flushes; moving a widget from one gate to another; cells of a lazy
  list, whose effects are discarded while the row does not match and are not
  queued again when a later rebind matches (recorded as a hazard against
  `docs/scrolling.md:85`).
- In the resource manager: the probe cache, `set_fallback`, subscriptions,
  loaders that are added late or bound to byte sources, a poll inside a
  callback, unwinding, and the costs of cached values.
- In the wake-up chain: reference counts.
- In byte sources: mapped readers and the prefix buffer (reads that need no
  pool), sequential cursors, blocks that end early, a pool without a cache,
  step budgets, more than one waker for a session, and a provider that panics
  while the host polls its retirement: the panic leaves through the host's
  frame, the session is back in its slot but its waker was taken, and nobody
  looks at it again.
- In persistence: which error `status` reports, intervals that are changed,
  poisoned Models, deferred commands, and the formats of archives and of the
  file.
- The components whose row above has no module. Layout, rasterisation, text
  shaping, audio mixing and easing are functions of their input; surfaces and
  host clipboards translate host protocols.

These components are the bulk of the repository: of some 375 thousand lines,
rendering and its backends, widgets and their drawing, text, macros, surface
drivers and the tests inside each file make up well over nine tenths, and they
are computations over geometry, pixels, glyphs and syntax trees, or calls into
host libraries. Modelling them would be a transliteration without a question a
model checker could answer. The state machines in the remainder are `core/`,
`ecs/`, `app/` and `input/`.

## 6. Plan

1. Proofs, next: every safety property of a passing run is proved. What
   `resource_reentrant` says of callbacks that use the manager can be
   sharpened: which of the four restricted properties survive if callbacks
   only resolve, or only drop handles.
2. `Timers` on a clock of a few bits, with the tick, suspend and resume that
   drive it.
3. `Reclamation` and `PaintRequests` of the runtime; cells and rebinding as
   gates that check validity.
4. `SlotAllocator` and `LruCache`: entity and model slots, eviction against
   handles that are in use.
5. ReactiveRuntime over ReactiveGraph: that a drained publication leaves the
   queue empty and that the reserved headroom makes binding infallible.
