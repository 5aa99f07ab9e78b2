-------------------------- MODULE ResourceManager --------------------------
(***************************************************************************)
(* ResourceManager<T> on its owner thread (core/resource): tokens that are *)
(* registered, resolved, loaded through a chain of loaders, reloaded and   *)
(* removed, and the handles that show their values.                        *)
(*                                                                         *)
(* The code borrows nothing while a factory or a loader runs, so either    *)
(* may call back into the manager.  A running callback is a frame of a     *)
(* stack, and so is poll_pending; between the call of a callback and its   *)
(* return the manager may do anything else.  A pending call waits in a     *)
(* slot of its loader for a wake-up, which may come at any time.           *)
(*                                                                         *)
(* A value is known by the age of the token it was made for: the number of *)
(* registrations, removals and reloads before it.  Revisions are compared  *)
(* for equality only, so a handle has either a usable answer or none.      *)
(*                                                                         *)
(* Assumed: all loaders are registered before the first request, none is   *)
(* bound to a byte source, poll_pending is not called from a callback, and *)
(* callbacks return.  The optional probe cache is not enabled.             *)
(***************************************************************************)
EXTENDS Naturals, FiniteSets, FiniteSetsExt, SequencesExt

CONSTANTS
  Tokens,
  Handles,        \* the ResourceHandles that can be alive at once
  LoaderCount,    \* the loaders, in the order of the chain
  Capacity,       \* invocation slots of a loader: DEFAULT_LOAD_CAPACITY
  Recognises,     \* what a loader says of a token: "NoMatch", "Need" or "Match"
  Probing,        \* the loaders that answer probes
  CacheLimit,     \* MaxSize::Count of the value cache
  Offered,        \* the kinds of registrations, and None when tokens are removed
  Reentrant,      \* whether callbacks use the manager
  None,
  Fallback,
  Leased,         \* an empty slot: its call is running
  MaxDepth,       \* bound of frames
  MaxRequest,     \* bound of nextRequest
  MaxAge          \* bound of age

Loaders == 1..LoaderCount
Slots == 1..Capacity
Kinds == {"Static", "Factory", "FactoryWithProbe"}

ASSUME SizesAssumption ==
  /\ LoaderCount \in Nat \ {0} /\ Capacity \in Nat \ {0}
  /\ CacheLimit \in Nat /\ MaxDepth \in Nat \ {0} /\ MaxRequest \in Nat /\ MaxAge \in Nat
ASSUME LoadersAssumption ==
  /\ Recognises \in [Loaders -> [Tokens -> {"NoMatch", "Need", "Match"}]]
  /\ Probing \subseteq Loaders
  /\ Reentrant \in BOOLEAN
  /\ Offered \subseteq Kinds \cup {None}
ASSUME NamesAssumption ==
  /\ None \notin Tokens \cup Handles \cup Nat \cup {"ok", "err"}
  /\ Fallback \notin Nat \cup {None}

VARIABLES
  value,          \* values: the age of the resident value of a token, or None
  entry,          \* by_token: the kind of the registration not used up yet
  failed,         \* failed_values
  request,        \* resolving: [gen, load, queued, detached], or None
  nextRequest,
  handles,        \* [token, shown]: the answer cached at the current revision
  slots,          \* the calls of every loader
  managerReady,   \* wake: TaskWake of the manager
  managerLinked,  \*   and whether the host's waker is registered with it
  hostWoken,      \* the host was told to poll
  frames,         \* what runs, the innermost last
  age             \* ghost: how often a token was registered, removed or reloaded

wake == <<managerReady, managerLinked, hostWoken>>
vars == <<value, entry, failed, request, nextRequest, handles, slots, wake, frames, age>>

\* A prepared slot.  What it keeps of its last call is overwritten by the next.
Free == [token |-> None, gen |-> 0, age |-> 0, probe |-> FALSE, meta |-> None,
         ready |-> FALSE, linked |-> FALSE]

Init ==
  /\ value = [t \in Tokens |-> None]
  /\ entry = [t \in Tokens |-> None]
  /\ failed = {}
  /\ request = [t \in Tokens |-> None]
  /\ nextRequest = 0
  /\ handles = [h \in Handles |-> None]
  /\ slots = [l \in Loaders |-> [s \in Slots |-> Free]]
  /\ managerReady = TRUE /\ managerLinked = FALSE /\ hostWoken = TRUE
  /\ frames = << >>
  /\ age = [t \in Tokens |-> 0]

\* Nobody is a request, a handle's state or a call, and an empty slot is no call.
ASSUME NobodyAssumption ==
  /\ None \notin [gen : Nat, load : BOOLEAN, queued : BOOLEAN, detached : BOOLEAN]
  /\ None \notin [token : Tokens, shown : Nat \cup {None, Fallback}]
  /\ Leased \notin [token : Tokens \cup {None}, gen : Nat, age : Nat, probe : BOOLEAN,
                    meta : {None, "ok", "err"}, ready : BOOLEAN, linked : BOOLEAN]

-----------------------------------------------------------------------------
Top == Last(frames)
Callers == Front(frames)

\* Application code and, when they do so, callbacks.
MayAct == frames # << >> => Reentrant /\ Top.op # "poll"
MayCall == MayAct /\ Len(frames) < MaxDepth

Current(t, g) == request[t] # None /\ request[t].gen = g
Holders(t) == {h \in Handles : handles[h] # None /\ handles[h].token = t}

\* advance_revision: no cached answer is usable, nor any that is being made.
Outdated == [h \in Handles |-> IF handles[h] = None THEN None
                               ELSE [handles[h] EXCEPT !.shown = None]]
Aged(stack) == [i \in DOMAIN stack |->
  IF stack[i].op = "poll" THEN stack[i] ELSE [stack[i] EXCEPT !.fresh = FALSE]]

\* What ResourceHandle::get stores; h is None when no handle asked.
Answer(H, h, v) == IF h = None THEN H ELSE [H EXCEPT ![h].shown = v]

\* Mutant: a fallback is stored with the revision of its arrival.
AnswerForNow(f, v) == Answer(handles, f.handle, v)

\* A fallback is stored with the revision at which the handle asked.
AnswerFor(f, v) == Answer(handles, f.handle, IF f.fresh THEN v ELSE None)

\* LruCache: another value may have to go.
Inserted(t, v) ==
  LET others == {u \in Tokens \ {t} : value[u] # None}
  IN  IF CacheLimit = 0 THEN {[value EXCEPT ![t] = None]}
      ELSE IF Cardinality(others) < CacheLimit THEN {[value EXCEPT ![t] = v]}
      ELSE {[value EXCEPT ![t] = v, ![u] = None] : u \in others}

\* publish_value, for handle h
Publish(t, v, h) ==
  /\ value' \in Inserted(t, v)
  /\ failed' = failed \ {t}
  /\ handles' = Answer(Outdated, h, v)

\* TaskWake::schedule of the manager: the host's waker is used up.
WakeManager(woken) ==
  IF woken THEN /\ managerReady' = TRUE
                /\ managerLinked' = FALSE
                /\ hostWoken' = (hostWoken \/ managerLinked)
           ELSE UNCHANGED wake

-----------------------------------------------------------------------------
(***************************************************************************)
(* The slots of a loader.                                                  *)
(***************************************************************************)
Holds(c, t) == c # Leased /\ c.token = t
Waits(c) == c # Leased /\ c.token # None /\ c.meta = None

\* put: a call returns to the first empty slot, not to the one it came from.
Put(row, c) == [row EXCEPT ![Min({s \in Slots : row[s] = Leased})] = c]
Returned(l, c) == [slots EXCEPT ![l] = Put(@, c)]

\* InstalledLoader::take: the slot of this call or of the token's metadata, or a
\* free slot, or one with the metadata of another token; 0 when there is none.
TakeSlot(row, t, g) ==
  LET own == {s \in Slots : Holds(row[s], t) /\ (row[s].gen = g \/ row[s].meta # None)}
      free == {s \in Slots : Holds(row[s], None)}
      done == {s \in Slots : row[s] # Leased /\ row[s].meta # None}
  IN  IF own # {} THEN Min(own)
      ELSE IF free # {} THEN Min(free)
      ELSE IF done # {} THEN Min(done) ELSE 0

\* The call as it is polled: its wake-up is registered with the manager's.
Lease(t, g, probe) ==
  [Free EXCEPT !.token = t, !.gen = g, !.age = age[t], !.probe = probe, !.linked = TRUE]

Woken(c) == [c EXCEPT !.ready = TRUE, !.linked = FALSE]

\* Mutant: metadata outlives the registration it was read from.
InvalidatedKeepingMeta(row, t) ==
  LET Visit(r, s) ==
        IF ~Holds(r[s], t) THEN r
        ELSE Put([r EXCEPT ![s] = Leased], IF r[s].meta # None THEN r[s] ELSE Woken(r[s]))
      rows[s \in 0..Capacity] == IF s = 0 THEN row ELSE Visit(rows[s - 1], s)
  IN  rows[Capacity]

\* invalidate, at one slot: metadata is dropped, a pending call is scheduled to
\* be retired; either is taken out and put back.
VisitSlot(r, s, t) ==
  IF ~Holds(r[s], t) THEN r
  ELSE Put([r EXCEPT ![s] = Leased], IF r[s].meta # None THEN Free ELSE Woken(r[s]))

\* invalidate, in the order of the slots.
Invalidated(row, t) ==
  LET rows[s \in 0..Capacity] == IF s = 0 THEN row ELSE VisitSlot(rows[s - 1], s, t)
  IN  rows[Capacity]

\* invalidate_calls
Invalidate(t) ==
  /\ slots' = [l \in Loaders |-> Invalidated(slots[l], t)]
  /\ WakeManager(\E l \in Loaders, s \in Slots :
       Holds(slots[l][s], t) /\ Waits(slots[l][s]) /\ slots[l][s].linked)

\* walk_chain up to the poll: the loader and slot that take the call, or << >>
\* when nobody claims the token, or who does cannot serve it.
Target(S, t, g, probe, start) ==
  LET claims == {l \in start..LoaderCount : Recognises[l][t] # "NoMatch"}
      l == Min(claims)
  IN  IF claims = {} \/ Recognises[l][t] = "Need" \/ (probe /\ l \notin Probing)
           \/ TakeSlot(S[l], t, g) = 0
      THEN << >> ELSE <<l, TakeSlot(S[l], t, g)>>

\* The call of a loader.  by: who walks the chain; held: the finished call whose
\* slot poll_pending keeps while it asks the loaders behind.
Call(by, c, l, h, fresh, held) ==
  [op |-> "call", by |-> by, call |-> c, loader |-> l, handle |-> h, fresh |-> fresh,
   held |-> held]

-----------------------------------------------------------------------------
(***************************************************************************)
(* Registration and handles.                                               *)
(***************************************************************************)

\* Mutant: the calls for the token are not told.
RegisterQuietly(t, kind) ==
  /\ MayAct
  /\ age[t] < MaxAge
  /\ age' = [age EXCEPT ![t] = @ + 1]
  /\ entry' = [entry EXCEPT ![t] = kind]
  /\ value' = [value EXCEPT ![t] = None]
  /\ failed' = failed \ {t}
  /\ request' = [request EXCEPT ![t] = None]
  /\ handles' = Outdated
  /\ frames' = Aged(frames)
  /\ UNCHANGED <<nextRequest, slots, wake>>

\* add_static, add_factory, add_probed_factory, and remove_token for None
Register(t, kind) ==
  /\ MayAct
  /\ age[t] < MaxAge
  /\ age' = [age EXCEPT ![t] = @ + 1]
  /\ entry' = [entry EXCEPT ![t] = kind]
  /\ value' = [value EXCEPT ![t] = None]
  /\ failed' = failed \ {t}
  /\ request' = [request EXCEPT ![t] = None]
  /\ handles' = Outdated
  /\ frames' = Aged(frames)
  /\ Invalidate(t)
  /\ UNCHANGED nextRequest

ClearFailed(t) ==
  /\ MayAct
  /\ t \in failed
  /\ failed' = failed \ {t}
  /\ handles' = Outdated
  /\ frames' = Aged(frames)
  /\ UNCHANGED <<value, entry, request, nextRequest, slots, wake, age>>

\* ResourceManager::load
Load(h, t) ==
  /\ MayAct
  /\ handles[h] = None
  /\ handles' = [handles EXCEPT ![h] = [token |-> t, shown |-> None]]
  /\ UNCHANGED <<value, entry, failed, request, nextRequest, slots, wake, frames, age>>

CloneHandle(h, copy) ==
  /\ MayAct
  /\ handles[h] # None /\ handles[copy] = None
  /\ handles' = [handles EXCEPT ![copy] = handles[h]]
  /\ UNCHANGED <<value, entry, failed, request, nextRequest, slots, wake, frames, age>>

\* release_handle: the last one takes the pending load with it, unless that was
\* asked for without a handle too.
DropHandle(h) ==
  LET t == handles[h].token
  IN  /\ MayAct
      /\ handles[h] # None
      /\ \A i \in DOMAIN frames : frames[i].op # "poll" => frames[i].handle # h
      /\ handles' = [handles EXCEPT ![h] = None]
      /\ IF Holders(t) # {h} \/ (request[t] # None /\ request[t].detached)
           THEN UNCHANGED <<request, slots, wake>>
           ELSE request' = [request EXCEPT ![t] = None] /\ Invalidate(t)
      /\ UNCHANGED <<value, entry, failed, nextRequest, frames, age>>

\* Mutant: nothing tells the host to poll.
ReloadUnscheduled(t) ==
  /\ MayAct
  /\ nextRequest < MaxRequest /\ age[t] < MaxAge
  /\ request[t] # None \/ Cardinality({u \in Tokens : request[u] # None}) < LoaderCount * Capacity
  /\ nextRequest' = nextRequest + 1
  /\ age' = [age EXCEPT ![t] = @ + 1]
  /\ request' = [request EXCEPT ![t] =
       [gen |-> nextRequest + 1, load |-> TRUE, queued |-> TRUE, detached |-> TRUE]]
  /\ failed' = failed \ {t}
  /\ Invalidate(t)
  /\ UNCHANGED <<value, entry, handles, frames>>

\* reload: the loaders are asked by the next poll; the value stays meanwhile.
Reload(t) ==
  /\ MayAct
  /\ nextRequest < MaxRequest /\ age[t] < MaxAge
  /\ request[t] # None \/ Cardinality({u \in Tokens : request[u] # None}) < LoaderCount * Capacity
  /\ nextRequest' = nextRequest + 1
  /\ age' = [age EXCEPT ![t] = @ + 1]
  /\ request' = [request EXCEPT ![t] =
       [gen |-> nextRequest + 1, load |-> TRUE, queued |-> TRUE, detached |-> TRUE]]
  /\ failed' = failed \ {t}
  /\ slots' = [l \in Loaders |-> Invalidated(slots[l], t)]
  /\ WakeManager(TRUE)
  /\ UNCHANGED <<value, entry, handles, frames>>

-----------------------------------------------------------------------------
(***************************************************************************)
(* resolve, for a handle (detached = FALSE) or directly (h = None).        *)
(***************************************************************************)

\* A resident value, or a token that is known to fail.
ResolveAtOnce(t, h) ==
  /\ MayAct
  /\ value[t] # None \/ t \in failed
  /\ handles' = Answer(handles, h, IF value[t] # None THEN value[t] ELSE Fallback)
  /\ UNCHANGED <<value, entry, failed, request, nextRequest, slots, wake, frames, age>>

Unknown(t) == value[t] = None /\ t \notin failed

\* The value moves from the registration into the cache.
ResolveStatic(t, h) ==
  /\ MayAct
  /\ Unknown(t)
  /\ entry[t] = "Static"
  /\ entry' = [entry EXCEPT ![t] = None]
  /\ Publish(t, age[t], h)
  /\ frames' = Aged(frames)
  /\ UNCHANGED <<request, nextRequest, slots, wake, age>>

\* Somebody asked already.  A factory was taken out by then and is dropped.
ResolveJoin(t, detached, h) ==
  /\ MayAct
  /\ Unknown(t)
  /\ entry[t] # "Static"
  /\ request[t] # None
  /\ entry' = [entry EXCEPT ![t] = None]
  /\ request' = [request EXCEPT ![t].detached = @ \/ detached, ![t].load = TRUE]
  /\ handles' = Answer(handles, h, Fallback)
  /\ UNCHANGED <<value, failed, nextRequest, slots, wake, frames, age>>

\* Resolution::begin
Begin(t, load, detached) ==
  /\ request[t] = None
  /\ nextRequest < MaxRequest
  /\ nextRequest' = nextRequest + 1
  /\ request' = [request EXCEPT ![t] =
       [gen |-> nextRequest + 1, load |-> load, queued |-> FALSE, detached |-> detached]]

ResolveFactory(t, detached, h) ==
  /\ MayCall
  /\ Unknown(t)
  /\ entry[t] \in {"Factory", "FactoryWithProbe"}
  /\ Begin(t, TRUE, detached)
  /\ entry' = [entry EXCEPT ![t] = None]
  /\ frames' = Append(frames, [op |-> "factory", token |-> t, gen |-> nextRequest + 1,
                               age |-> age[t], handle |-> h, fresh |-> h # None])
  /\ UNCHANGED <<value, failed, handles, slots, wake, age>>

ResolveChain(t, detached, h) ==
  LET g == nextRequest + 1
      target == Target(slots, t, g, FALSE, 1)
  IN  /\ MayCall
      /\ Unknown(t)
      /\ entry[t] = None
      /\ target # << >>
      /\ Begin(t, TRUE, detached)
      /\ slots' = [slots EXCEPT ![target[1]][target[2]] = Leased]
      /\ frames' = Append(frames,
           Call("resolve", Lease(t, g, FALSE), target[1], h, h # None, << >>))
      /\ UNCHANGED <<value, entry, failed, handles, wake, age>>

\* Nobody claims the token, or who does has no slot left.
ResolveUnserved(t, h) ==
  /\ MayAct
  /\ Unknown(t)
  /\ entry[t] = None /\ request[t] = None
  /\ nextRequest < MaxRequest
  /\ Target(slots, t, nextRequest + 1, FALSE, 1) = << >>
  /\ nextRequest' = nextRequest + 1
  /\ failed' = failed \cup {t}
  /\ handles' = Answer(handles, h, Fallback)
  /\ UNCHANGED <<value, entry, request, slots, wake, frames, age>>

Resolve(t, detached, h) ==
  \/ ResolveAtOnce(t, h)
  \/ ResolveStatic(t, h)
  \/ ResolveJoin(t, detached, h)
  \/ ResolveFactory(t, detached, h)
  \/ ResolveChain(t, detached, h)
  \/ ResolveUnserved(t, h)

\* ResourceHandle::get, without a usable answer
Get(h) ==
  /\ handles[h] # None
  /\ handles[h].shown = None
  /\ Resolve(handles[h].token, FALSE, h)

\* finish, for a factory
FactoryReturns(ok) ==
  LET f == Top
      t == f.token
  IN  /\ frames # << >>
      /\ f.op = "factory"
      /\ IF ~Current(t, f.gen)
           THEN /\ handles' = AnswerFor(f, IF value[t] # None THEN value[t] ELSE Fallback)
                /\ frames' = Callers
                /\ UNCHANGED <<value, failed, request>>
           ELSE /\ request' = [request EXCEPT ![t] = None]
                /\ IF ok THEN Publish(t, f.age, f.handle) /\ frames' = Aged(Callers)
                   ELSE /\ failed' = failed \cup {t}
                        /\ handles' = AnswerFor(f, Fallback)
                        /\ frames' = Callers
                        /\ UNCHANGED value
      /\ UNCHANGED <<entry, nextRequest, slots, wake, age>>

-----------------------------------------------------------------------------
(***************************************************************************)
(* probe, beyond a resident value.                                         *)
(***************************************************************************)
MetaSlots(t) == {p \in Loaders \X Slots : Holds(slots[p[1]][p[2]], t)
                                          /\ slots[p[1]][p[2]].meta # None}

\* completed_probe takes the call out to read it.
ProbeCompleted(t) ==
  LET l == Min({p[1] : p \in MetaSlots(t)})
      s == Min({p[2] : p \in {q \in MetaSlots(t) : q[1] = l}})
  IN  /\ MayAct
      /\ value[t] = None
      /\ MetaSlots(t) # {}
      /\ slots' = [slots EXCEPT ![l] = Put([@ EXCEPT ![s] = Leased], @[s])]
      /\ UNCHANGED <<value, entry, failed, request, nextRequest, handles, wake, frames, age>>

\* Only handles probe without demand of their own.
MayProbe(t, detached) ==
  MayAct /\ value[t] = None /\ MetaSlots(t) = {} /\ (detached \/ Holders(t) # {})

ProbeJoin(t, detached) ==
  /\ MayProbe(t, detached)
  /\ request[t] # None
  /\ request' = [request EXCEPT ![t].detached = @ \/ detached]
  /\ UNCHANGED <<value, entry, failed, nextRequest, handles, slots, wake, frames, age>>

\* The registration answers, or nobody does.
ProbeAtOnce(t, detached) ==
  /\ MayProbe(t, detached)
  /\ request[t] = None
  /\ nextRequest < MaxRequest
  /\ entry[t] # None \/ Target(slots, t, nextRequest + 1, TRUE, 1) = << >>
  /\ nextRequest' = nextRequest + 1
  /\ UNCHANGED <<value, entry, failed, request, handles, slots, wake, frames, age>>

ProbeChain(t, detached) ==
  LET g == nextRequest + 1
      target == Target(slots, t, g, TRUE, 1)
  IN  /\ MayProbe(t, detached) /\ MayCall
      /\ entry[t] = None
      /\ target # << >>
      /\ Begin(t, FALSE, detached)
      /\ slots' = [slots EXCEPT ![target[1]][target[2]] = Leased]
      /\ frames' = Append(frames,
           Call("probe", Lease(t, g, TRUE), target[1], None, FALSE, << >>))
      /\ UNCHANGED <<value, entry, failed, handles, wake, age>>

-----------------------------------------------------------------------------
(***************************************************************************)
(* poll_pending.                                                           *)
(***************************************************************************)
PollBegin ==
  /\ frames = << >>
  /\ managerReady' = FALSE /\ managerLinked' = TRUE /\ hostWoken' = FALSE
  /\ frames' = IF managerReady
               THEN << [op |-> "poll", through |-> nextRequest, loader |-> 1, slot |-> 1] >>
               ELSE << >>
  /\ UNCHANGED <<value, entry, failed, request, nextRequest, handles, slots, age>>

Polling == frames # << >> /\ Top.op = "poll"

Advanced(f) == IF f.slot < Capacity THEN [f EXCEPT !.slot = @ + 1]
                                    ELSE [f EXCEPT !.loader = @ + 1, !.slot = 1]

\* Mutant: take_ready does not register the manager's waker again.
PollSlotOnce ==
  LET f == Top
      c == slots[f.loader][f.slot]
      woken == Waits(c) /\ c.ready
      visited == [c EXCEPT !.ready = FALSE]
  IN  /\ Polling
      /\ f.loader \in Loaders
      /\ slots' = [slots EXCEPT ![f.loader][f.slot] =
           IF ~Waits(c) THEN c
           ELSE IF ~c.ready THEN visited
           ELSE IF Current(c.token, c.gen) THEN Leased ELSE Free]
      /\ frames' = IF woken /\ Current(c.token, c.gen)
                   THEN << Advanced(f), Call("slot", visited, f.loader, None, FALSE, << >>) >>
                   ELSE << Advanced(f) >>
      /\ UNCHANGED <<value, entry, failed, request, nextRequest, handles, wake, age>>

\* take_ready, and the poll of a call that was woken and is still wanted.
PollSlot ==
  LET f == Top
      c == slots[f.loader][f.slot]
      woken == Waits(c) /\ c.ready
      visited == [c EXCEPT !.ready = FALSE, !.linked = TRUE]
  IN  /\ Polling
      /\ f.loader \in Loaders
      /\ slots' = [slots EXCEPT ![f.loader][f.slot] =
           IF ~Waits(c) THEN c
           ELSE IF ~c.ready THEN visited
           ELSE IF Current(c.token, c.gen) THEN Leased ELSE Free]
      /\ frames' = IF woken /\ Current(c.token, c.gen)
                   THEN << Advanced(f), Call("slot", visited, f.loader, None, FALSE, << >>) >>
                   ELSE << Advanced(f) >>
      /\ UNCHANGED <<value, entry, failed, request, nextRequest, handles, wake, age>>

Queued(f) == {t \in Tokens : request[t] # None /\ request[t].queued /\ request[t].gen <= f.through}

\* A reload that was asked for before this poll.
PollQueued(t) ==
  LET target == Target(slots, t, request[t].gen, FALSE, 1)
  IN  /\ Polling
      /\ Top.loader \notin Loaders
      /\ t \in Queued(Top)
      /\ IF target = << >>
           THEN /\ failed' = failed \cup {t}
                /\ request' = [request EXCEPT ![t] = None]
                /\ UNCHANGED <<slots, frames>>
           ELSE /\ request' = [request EXCEPT ![t].queued = FALSE]
                /\ slots' = [slots EXCEPT ![target[1]][target[2]] = Leased]
                /\ frames' = Append(frames,
                     Call("queued", Lease(t, request[t].gen, FALSE), target[1], None, FALSE, << >>))
                /\ UNCHANGED failed
      /\ UNCHANGED <<value, entry, nextRequest, handles, wake, age>>

PollEnd ==
  /\ Polling
  /\ Top.loader \notin Loaders
  /\ Queued(Top) = {}
  /\ frames' = << >>
  /\ UNCHANGED <<value, entry, failed, request, nextRequest, handles, slots, wake, age>>

-----------------------------------------------------------------------------
(***************************************************************************)
(* What a loader's poll returns, and what walk_chain, resolve, probe and   *)
(* poll_pending make of it.                                                *)
(***************************************************************************)
Calling == frames # << >> /\ Top.op = "call"

\* The slots when the running call c, and the call it follows, are returned.
Settled(f, c, followed) ==
  LET returned == Returned(f.loader, c)
  IN  IF f.held = << >> THEN returned
      ELSE [returned EXCEPT ![f.held[1].loader] = Put(@, followed)]

\* Whether a failure ends a probe that nobody wants to be a load.
ProbeOnly(f) == f.call.probe /\ (f.by = "slot" => ~request[f.call.token].load)

\* The metadata verdict of poll_pending is left in the slot of its own call.
Refused(f) == [IF f.by = "next" THEN f.held[1].call ELSE f.call
               EXCEPT !.meta = "err", !.ready = FALSE, !.linked = FALSE]

\* Mutant: a superseded call does not give its slot back.
ReturnStaleLeaking ==
  LET f == Top
      t == f.call.token
      refusing == f.by = "next" /\ f.call.probe
  IN  /\ Calling
      /\ ~Current(t, f.call.gen)
      /\ UNCHANGED slots
      /\ handles' = IF refusing THEN Outdated
                    ELSE AnswerFor(f, IF value[t] # None THEN value[t] ELSE Fallback)
      /\ frames' = IF refusing THEN Aged(Callers) ELSE Callers
      /\ UNCHANGED <<value, entry, failed, request, nextRequest, wake, age>>

\* Superseded meanwhile: whatever was returned is discarded.
ReturnStale ==
  LET f == Top
      t == f.call.token
      refusing == f.by = "next" /\ f.call.probe
  IN  /\ Calling
      /\ ~Current(t, f.call.gen)
      /\ slots' = Settled(f, Free, IF refusing THEN Refused(f) ELSE Free)
      /\ handles' = IF refusing THEN Outdated
                    ELSE AnswerFor(f, IF value[t] # None THEN value[t] ELSE Fallback)
      /\ frames' = IF refusing THEN Aged(Callers) ELSE Callers
      /\ UNCHANGED <<value, entry, failed, request, nextRequest, wake, age>>

Ongoing(f) == Calling /\ Current(f.call.token, f.call.gen)

\* The call goes back to a slot and waits for its wake-up.
ReturnPending ==
  LET f == Top
  IN  /\ Ongoing(f)
      /\ slots' = Settled(f, f.call, Free)
      /\ handles' = AnswerFor(f, Fallback)
      /\ frames' = Callers
      /\ UNCHANGED <<value, entry, failed, request, nextRequest, wake, age>>

\* Mutant: what a superseded call loaded is published too.
ReturnValueAnyway ==
  LET f == Top
      t == f.call.token
  IN  /\ Calling
      /\ ~f.call.probe
      /\ slots' = Settled(f, Free, Free)
      /\ request' = [request EXCEPT ![t] = None]
      /\ Publish(t, f.call.age, f.handle)
      /\ frames' = Aged(Callers)
      /\ UNCHANGED <<entry, nextRequest, wake, age>>

ReturnValue ==
  LET f == Top
      t == f.call.token
  IN  /\ Ongoing(f)
      /\ ~f.call.probe
      /\ slots' = Settled(f, Free, Free)
      /\ request' = [request EXCEPT ![t] = None]
      /\ Publish(t, f.call.age, f.handle)
      /\ frames' = Aged(Callers)
      /\ UNCHANGED <<entry, nextRequest, wake, age>>

\* Mutant: metadata ends the call also when a load was asked for meanwhile.
ReturnMetaRegardless ==
  LET f == Top
      t == f.call.token
  IN  /\ Ongoing(f)
      /\ f.call.probe
      /\ slots' = Settled(f, [f.call EXCEPT !.meta = "ok", !.ready = FALSE, !.linked = FALSE], Free)
      /\ request' = [request EXCEPT ![t] = None]
      /\ IF f.by = "probe" THEN handles' = handles /\ frames' = Callers
                           ELSE handles' = Outdated /\ frames' = Aged(Callers)
      /\ UNCHANGED <<value, entry, failed, nextRequest, wake, age>>

\* Metadata for whoever probes next.
ReturnMeta ==
  LET f == Top
      t == f.call.token
  IN  /\ Ongoing(f)
      /\ f.call.probe
      /\ f.by = "slot" => ~request[t].load
      /\ slots' = Settled(f, [f.call EXCEPT !.meta = "ok", !.ready = FALSE, !.linked = FALSE], Free)
      /\ request' = [request EXCEPT ![t] = None]
      /\ IF f.by = "probe" THEN handles' = handles /\ frames' = Callers
                           ELSE handles' = Outdated /\ frames' = Aged(Callers)
      /\ UNCHANGED <<value, entry, failed, nextRequest, wake, age>>

\* Somebody resolved the token while it was probed: the call goes on as a load.
ReturnMetaWanted ==
  LET f == Top
      t == f.call.token
  IN  /\ Ongoing(f)
      /\ f.call.probe /\ f.by = "slot" /\ request[t].load
      /\ slots' = Returned(f.loader, [Woken(f.call) EXCEPT !.probe = FALSE])
      /\ WakeManager(f.call.linked)
      /\ frames' = Callers
      /\ UNCHANGED <<value, entry, failed, request, nextRequest, handles, age>>

\* The chain behind this loader: poll_pending keeps the call's slot meanwhile.
NextTarget(f) ==
  Target(IF f.by = "slot" THEN slots ELSE Returned(f.loader, Free),
         f.call.token, f.call.gen, ProbeOnly(f), f.loader + 1)

\* Err(NotMine), and another loader claims the token.
ReturnNotMine ==
  LET f == Top
      c == f.call
      target == NextTarget(f)
      S == IF f.by = "slot" THEN slots ELSE Returned(f.loader, Free)
      next == Lease(c.token, c.gen, ProbeOnly(f))
  IN  /\ Ongoing(f)
      /\ target # << >>
      /\ slots' = [S EXCEPT ![target[1]][target[2]] = Leased]
      /\ frames' = Append(Callers,
           IF f.by = "slot"
           THEN Call("next", next, target[1], None, FALSE, << [loader |-> f.loader, call |-> c] >>)
           ELSE Call(f.by, next, target[1], f.handle, f.fresh, f.held))
      /\ UNCHANGED <<value, entry, failed, request, nextRequest, handles, wake, age>>

\* Mutant: a failure leaves the request where it is.
ReturnErrorKeepingRequest(notMine) ==
  LET f == Top
      t == f.call.token
      polled == f.by \in {"slot", "next"}
  IN  /\ Ongoing(f)
      /\ notMine => NextTarget(f) = << >>
      /\ UNCHANGED request
      /\ failed' = IF f.by = "probe" \/ ProbeOnly(f) THEN failed ELSE failed \cup {t}
      /\ slots' = IF polled /\ ProbeOnly(f)
                  THEN Settled(f, IF f.by = "slot" THEN Refused(f) ELSE Free, Refused(f))
                  ELSE Settled(f, Free, Free)
      /\ handles' = IF polled THEN Outdated ELSE AnswerFor(f, Fallback)
      /\ frames' = IF polled THEN Aged(Callers) ELSE Callers
      /\ UNCHANGED <<value, entry, nextRequest, wake, age>>

\* A failure, or Err(NotMine) from the last loader that claims the token.
ReturnError(notMine) ==
  LET f == Top
      t == f.call.token
      polled == f.by \in {"slot", "next"}
  IN  /\ Ongoing(f)
      /\ notMine => NextTarget(f) = << >>
      /\ request' = [request EXCEPT ![t] = None]
      /\ failed' = IF f.by = "probe" \/ ProbeOnly(f) THEN failed ELSE failed \cup {t}
      /\ slots' = IF polled /\ ProbeOnly(f)
                  THEN Settled(f, IF f.by = "slot" THEN Refused(f) ELSE Free, Refused(f))
                  ELSE Settled(f, Free, Free)
      /\ handles' = IF polled THEN Outdated ELSE AnswerFor(f, Fallback)
      /\ frames' = IF polled THEN Aged(Callers) ELSE Callers
      /\ UNCHANGED <<value, entry, nextRequest, wake, age>>

-----------------------------------------------------------------------------
(***************************************************************************)
(* Wake-ups from I/O threads.                                              *)
(***************************************************************************)
WakeSlot(l, s) ==
  /\ Waits(slots[l][s])
  /\ slots' = [slots EXCEPT ![l][s] = Woken(@)]
  /\ WakeManager(slots[l][s].linked)
  /\ UNCHANGED <<value, entry, failed, request, nextRequest, handles, frames, age>>

\* A call is woken while it is polled.
WakeRunning(i) ==
  /\ frames[i].op = "call"
  /\ frames' = [frames EXCEPT ![i].call = Woken(@)]
  /\ WakeManager(frames[i].call.linked)
  /\ UNCHANGED <<value, entry, failed, request, nextRequest, handles, slots, age>>

\* A waker of a call that is long over.
WakeLate ==
  /\ WakeManager(TRUE)
  /\ UNCHANGED <<value, entry, failed, request, nextRequest, handles, slots, frames, age>>

-----------------------------------------------------------------------------
Return ==
  \/ ReturnStale \/ ReturnPending \/ ReturnValue \/ ReturnMeta \/ ReturnMetaWanted
  \/ ReturnNotMine
  \/ \E notMine \in BOOLEAN : ReturnError(notMine)

Next ==
  \/ \E t \in Tokens :
       \/ \E kind \in Offered : Register(t, kind)
       \/ ClearFailed(t) \/ Reload(t)
       \/ Resolve(t, TRUE, None)
       \/ ProbeCompleted(t)
       \/ \E detached \in BOOLEAN :
            ProbeJoin(t, detached) \/ ProbeAtOnce(t, detached) \/ ProbeChain(t, detached)
       \/ PollQueued(t)
  \/ \E h \in Handles :
       \/ \E t \in Tokens : Load(h, t)
       \/ \E copy \in Handles : CloneHandle(h, copy)
       \/ DropHandle(h) \/ Get(h)
  \/ \E ok \in BOOLEAN : FactoryReturns(ok)
  \/ PollBegin \/ PollSlot \/ PollEnd
  \/ Return
  \/ \E l \in Loaders, s \in Slots : WakeSlot(l, s)
  \/ \E i \in DOMAIN frames : WakeRunning(i)
  \/ WakeLate

Spec == Init /\ [][Next]_vars

\* The host polls when it is woken, and at first; poll_pending and callbacks
\* return; a pending call is woken, and does not stay pending for good.
Fairness ==
  /\ WF_vars(hostWoken /\ PollBegin)
  /\ WF_vars(PollSlot \/ PollEnd \/ \E t \in Tokens : PollQueued(t))
  /\ WF_vars(Return \/ \E ok \in BOOLEAN : FactoryReturns(ok))
  /\ \A l \in Loaders, s \in Slots : WF_vars(WakeSlot(l, s))
  /\ SF_vars(Return /\ ~ReturnPending)

FairSpec == Spec /\ Fairness

-----------------------------------------------------------------------------
(***************************************************************************)
(* Correctness.                                                            *)
(***************************************************************************)
Ages == 0..MaxAge
CallState == [token : Tokens \cup {None}, gen : 0..MaxRequest, age : Ages, probe : BOOLEAN,
              meta : {None, "ok", "err"}, ready : BOOLEAN, linked : BOOLEAN]

\* The leases of loader l that are in the hands of running code.
Lent(l) ==
  Cardinality({i \in DOMAIN frames : frames[i].op = "call" /\ frames[i].loader = l})
  + Cardinality({i \in DOMAIN frames : frames[i].op = "call" /\ frames[i].held # << >>
                                       /\ frames[i].held[1].loader = l})

\* The state has its type, and no slot is lost or doubled: an empty one belongs
\* to a call that runs, so that put always finds it.
TypeOK ==
  /\ value \in [Tokens -> Ages \cup {None}]
  /\ entry \in [Tokens -> Kinds \cup {None}]
  /\ failed \subseteq Tokens
  /\ \A t \in Tokens : request[t] # None =>
       request[t] \in [gen : 1..nextRequest, load : BOOLEAN, queued : BOOLEAN, detached : BOOLEAN]
  /\ \A h \in Handles : handles[h] # None =>
       handles[h] \in [token : Tokens, shown : Ages \cup {None, Fallback}]
  /\ \A l \in Loaders, s \in Slots : slots[l][s] = Leased \/ slots[l][s] \in CallState
  /\ \A l \in Loaders : Cardinality({s \in Slots : slots[l][s] = Leased}) = Lent(l)
  /\ managerReady \in BOOLEAN /\ managerLinked \in BOOLEAN /\ hostWoken \in BOOLEAN
  /\ nextRequest \in 0..MaxRequest
  /\ age \in [Tokens -> Ages]
  /\ Len(frames) <= MaxDepth + 1

\* A completion that was superseded, by a registration, a removal or a reload in
\* the meantime, is never published.
NoStaleValue ==
  [][ \A t \in Tokens : value'[t] # value[t] /\ value'[t] # None => value'[t] = age'[t] ]_vars

\* A handle whose cached answer is usable shows the resident value, and one that
\* shows the fallback is right to do so: the token failed, or is being loaded.
HandlesCurrent ==
  \A h \in Handles : handles[h] # None /\ handles[h].shown # None =>
    LET t == handles[h].token
    IN  /\ value[t] # None => handles[h].shown = value[t]
        /\ handles[h].shown = Fallback =>
             t \in failed \/ (request[t] # None /\ request[t].load)

\* Every request is under way: it is queued for the next poll, or exactly one
\* call of its generation waits in a slot or runs.  Otherwise whoever resolves
\* the token would join it and be given the fallback for ever.
RequestsServed ==
  \A t \in Tokens : request[t] # None =>
    LET g == request[t].gen
        waiting == {p \in Loaders \X Slots : Waits(slots[p[1]][p[2]])
                      /\ slots[p[1]][p[2]].token = t /\ slots[p[1]][p[2]].gen = g}
        running == {i \in DOMAIN frames :
                      \/ frames[i].op = "call" /\ frames[i].call.token = t /\ frames[i].call.gen = g
                      \/ frames[i].op = "factory" /\ frames[i].token = t /\ frames[i].gen = g}
    IN  Cardinality(waiting) + Cardinality(running) = IF request[t].queued THEN 0 ELSE 1

\* A load that was asked for is never dropped without an answer: it ends with a
\* value, a failure, a registration or reload that takes its place, or because
\* the last handle went and nobody else wants it.  docs/resources.md:54 says so of
\* direct requests: "merging one of these requests into an existing load preserves
\* that work until completion or explicit invalidation".
DemandKept ==
  [][ \A t \in Tokens :
        request[t] # None /\ request[t].load /\ request'[t] = None =>
          \/ t \in failed' \/ value'[t] = age[t] \/ age'[t] # age[t]
          \/ ~request[t].detached /\ Holders(t) # {} /\ Holders(t)' = {} ]_vars

\* No wake-up is lost: between polls, a call that was woken and is still wanted,
\* or a reload in the queue, has the manager scheduled, and the host knows.
WakeUpsKept ==
  frames = << >> =>
    /\ (\/ \E t \in Tokens : request[t] # None /\ request[t].queued
        \/ \E l \in Loaders, s \in Slots :
             LET c == slots[l][s]
             IN  Waits(c) /\ c.ready /\ Current(c.token, c.gen))
       => managerReady
    /\ managerReady => hostWoken

\* A load that began is answered one day, or superseded.
LoadsFinish ==
  \A t \in Tokens, g \in 1..MaxRequest : Current(t, g) ~> ~Current(t, g)

\* What docs/resources.md:52 says: "An invalidated invocation retires on the
\* next owner-thread poll, including when the external producer has not sent a
\* wake", so such a call is ready and the manager's next poll will look at it.
RetiredByNextPoll ==
  frames = << >> =>
    \A l \in Loaders, s \in Slots :
      LET c == slots[l][s]
      IN  Waits(c) /\ ~Current(c.token, c.gen) => c.ready /\ managerReady

\* What docs/resources.md:28 says: "Replacing or removing the active token
\* invalidates the earlier call's completion", metadata included.
MetaCurrent ==
  \A l \in Loaders, s \in Slots :
    LET c == slots[l][s]
    IN  c # Leased /\ c.meta # None => c.age = age[c.token]
=============================================================================
