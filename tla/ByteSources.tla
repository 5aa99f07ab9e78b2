----------------------------- MODULE ByteSources -----------------------------
(***************************************************************************)
(* Byte sources that read through one pool of blocks (core/resource:       *)
(* assets.rs, source_read.rs, blocks.rs; core/threading/state.rs).         *)
(*                                                                         *)
(* A session is opened, read, and dropped on any thread.  What a provider  *)
(* has not finished by then is retired later by poll_pending, so that its  *)
(* buffer goes back to the pool.  The pool is taken out of its State for   *)
(* one operation at a time; who finds it taken leaves a waker there, if    *)
(* there is room.  No user code runs while it is out, so that what is done *)
(* with it and its return are one step here.                               *)
(*                                                                         *)
(* A session has one waker: the parents behind it are in module WakeSet.   *)
(* An offset stands for the block that holds it.                           *)
(***************************************************************************)
EXTENDS Integers, FiniteSets, Sequences, SequencesExt

CONSTANTS
  Sessions,      \* prepared sessions, of all providers
  Offsets,
  BlockCount, MaxInFlight,
  WaiterSlots,   \* of the State: 8
  MaxFaults,     \* providers that panic or return a wrong buffer
  None

ASSUME PoolAssumption ==
  /\ BlockCount \in Nat /\ MaxInFlight \in 1..BlockCount
  /\ WaiterSlots \in Nat \ {0} /\ MaxFaults \in Nat
ASSUME FiniteAssumption == IsFiniteSet(Sessions) /\ IsFiniteSet(Offsets)

Slots == 1..BlockCount

Keys == [source : Sessions, offset : Offsets]
Blocks == [slot : Slots, key : Keys]   \* a handle of a block, or a reservation

ASSUME NoneAssumption == None \notin Sessions \cup Offsets \cup Keys \cup Blocks

VARIABLES
  src,        \* the sessions
  lease,      \* the session that has taken the pool
  waiters,    \* sessions whose wakers the State keeps
  block,      \* the blocks: key, and where the buffer is
  lru,        \* slots in the cache, the least recently used first
  inFlight,
  faults

pool == <<block, lru, inFlight>>
vars == <<src, lease, waiters, pool, faults>>

(* stage: opening is a provider's open in progress; opened has its reader, *)
(* but no identity yet.  at: where a call in progress is.  io: what the    *)
(* provider does with the open or the read; done is a ReadComplete that    *)
(* is kept until the pool is free, lost an operation that unwound.         *)
Session == [stage : {"closed", "opening", "opened", "failed", "open", "broken"},
            at : {"out", "identify", "lookup", "reserve", "physical", "finish",
                  "abandon"},
            want : Offsets \cup {None},
            read : Blocks \cup {None},
            io : {"none", "running", "ready", "done", "lost"},
            last : Blocks \cup {None},
            parked : BOOLEAN,
            retiring : BOOLEAN]

Closed == [stage |-> "closed", at |-> "out", want |-> None, read |-> None,
           io |-> "none", last |-> None, parked |-> FALSE,
           retiring |-> FALSE]

Init ==
  /\ src = [s \in Sessions |-> Closed]
  /\ lease = None
  /\ waiters = {}
  /\ block = [i \in Slots |-> [key |-> None, buffer |-> "here"]]
  /\ lru = <<>>
  /\ inFlight = 0
  /\ faults = 0

-----------------------------------------------------------------------------
(* The lease of the pool *)

WantsPool(s) ==
  lease # s /\ src[s].at \in {"identify", "lookup", "reserve", "finish", "abandon"}

Take(s) ==
  /\ WantsPool(s)
  /\ lease = None
  /\ lease' = s
  /\ UNCHANGED <<src, waiters, pool, faults>>

(* poll_take when the pool is out; insert_waiter. *)
HasRoom(s) == s \in waiters \/ Cardinality(waiters) < WaiterSlots

Wait(s) ==
  /\ WantsPool(s)
  /\ lease # None /\ HasRoom(s)
  /\ waiters' = waiters \cup {s}
  /\ src' = [src EXCEPT ![s].at = "out", ![s].want = None, ![s].parked = TRUE]
  /\ UNCHANGED <<lease, pool, faults>>

(* A client gets AccessError::Capacity and may try again. *)
Refuse(s) ==
  /\ WantsPool(s)
  /\ lease # None /\ ~HasRoom(s) /\ ~src[s].retiring
  /\ src' = [src EXCEPT ![s].at = "out", ![s].want = None]
  /\ UNCHANGED <<lease, waiters, pool, faults>>

(* poll_retire takes that error for the end of the read, and reset panics  *)
(* as the read is still there: it is dropped with the session's reader.    *)
Break(s) ==
  /\ WantsPool(s)
  /\ lease # None /\ ~HasRoom(s) /\ src[s].retiring
  /\ src' = [src EXCEPT ![s] = [Closed EXCEPT !.stage = "broken"]]
  /\ block' = [block EXCEPT ![src[s].read.slot].buffer = "lost"]
  /\ UNCHANGED <<lease, waiters, lru, inFlight, faults>>

\* Mutant: has_waiters is cleared, but one waker stays behind.
WokenButOne(sessions) ==
  [s \in Sessions |->
     IF s \in waiters /\ s # (CHOOSE t \in waiters : TRUE)
       THEN [sessions[s] EXCEPT !.parked = FALSE] ELSE sessions[s]]

Woken(sessions) ==
  [s \in Sessions |->
     IF s \in waiters THEN [sessions[s] EXCEPT !.parked = FALSE] ELSE sessions[s]]

(* The lease is dropped: the pool is back and all waiters are woken. *)
Return(sessions) ==
  /\ lease' = None
  /\ waiters' = {}
  /\ src' = Woken(sessions)

Fault ==
  /\ faults < MaxFaults
  /\ faults' = faults + 1

-----------------------------------------------------------------------------
(* Opening *)

Open(s) ==
  /\ src[s].stage = "closed"
  /\ src' = [src EXCEPT ![s] = [Closed EXCEPT !.stage = "opening", !.io = "running"]]
  /\ UNCHANGED <<lease, waiters, pool, faults>>

(* The provider finishes the open or the read, and wakes the session. *)
Completes(s) ==
  /\ src[s].io = "running"
  /\ src' = [src EXCEPT ![s].io = "ready", ![s].parked = FALSE]
  /\ UNCHANGED <<lease, waiters, pool, faults>>

Calls(s) == src[s].at = "out" /\ ~src[s].retiring

PollOpen(s) ==
  /\ Calls(s)
  /\ \/ /\ src[s].stage = "opening" /\ src[s].io = "running"
        /\ src' = [src EXCEPT ![s].parked = TRUE]
     \/ /\ src[s].stage = "opening" /\ src[s].io = "ready"
        /\ src' = [src EXCEPT ![s].stage = "opened", ![s].io = "none",
                              ![s].at = "identify", ![s].parked = FALSE]
     \/ /\ src[s].stage = "opening" /\ src[s].io = "ready"   \* an error or a panic
        /\ src' = [src EXCEPT ![s].stage = "failed", ![s].io = "none",
                              ![s].parked = FALSE]
     \/ /\ src[s].stage = "opened"
        /\ src' = [src EXCEPT ![s].at = "identify", ![s].parked = FALSE]
  /\ UNCHANGED <<lease, waiters, pool, faults>>

(* new_source: a number that no session had before.  It only tells apart   *)
(* the keys of this opening from those of others: here the source of a key *)
(* is the session, and a key of an earlier opening is None.                *)
Identify(s) ==
  /\ lease = s /\ src[s].at = "identify"
  /\ Return([src EXCEPT ![s].stage = "open", ![s].at = "out"])
  /\ block' = [i \in Slots |->
       IF block[i].key # None /\ block[i].key.source = s
         THEN [block[i] EXCEPT !.key = None] ELSE block[i]]
  /\ UNCHANGED <<lru, inFlight, faults>>

-----------------------------------------------------------------------------
(* Reading *)

(* poll_read, unless the last block answers it.  A client resumes a        *)
(* pending read with its offset, and may do so without being woken.        *)
PollRead(s, o) ==
  /\ Calls(s)
  /\ src[s].stage = "open" /\ src[s].io # "lost"
  /\ src[s].read # None => src[s].read.key.offset = o
  /\ src[s].last # None => src[s].last.key.offset # o
  /\ src' = [src EXCEPT ![s].last = None, ![s].at = "lookup", ![s].want = o,
                        ![s].parked = FALSE]
  /\ UNCHANGED <<lease, waiters, pool, faults>>

KeyWanted(s) == [source |-> s, offset |-> src[s].want]
Cached(k) == {n \in 1..Len(lru) : block[lru[n]].key = k}

Hit(s) ==
  /\ lease = s /\ src[s].at = "lookup"
  /\ \E n \in Cached(KeyWanted(s)) :
       /\ lru' = Append(RemoveAt(lru, n), lru[n])
       /\ Return([src EXCEPT ![s].at = "out", ![s].want = None,
                             ![s].last = [slot |-> lru[n], key |-> KeyWanted(s)]])
  /\ UNCHANGED <<block, inFlight, faults>>

Miss(s) ==
  /\ lease = s /\ src[s].at = "lookup"
  /\ Cached(KeyWanted(s)) = {}
  /\ Return([src EXCEPT ![s].at =
       IF src[s].read = None THEN "reserve"
       ELSE IF src[s].io = "done" THEN "finish" ELSE "physical"])
  /\ UNCHANGED <<pool, faults>>

(* Handle::get_mut: what a reader holds is not exclusive, nor what the     *)
(* cache holds.                                                            *)
\* Mutant: the cache alone pins a block.
UnheldEvicted(i) == block[i].buffer = "here"

Unheld(i) ==
  /\ block[i].buffer = "here"
  /\ \A s \in Sessions : src[s].last # None => src[s].last.slot # i

(* The cache after begin has evicted until it finds a block, or all.       *)
Exclusive(cache) == {i \in Slots : Unheld(i) /\ i \notin Range(cache)}
Evicted ==
  LET remaining == {n \in 0..Len(lru) : Exclusive(SubSeq(lru, n + 1, Len(lru))) # {}}
  IN IF remaining = {} THEN <<>>
     ELSE SubSeq(lru, (CHOOSE n \in remaining : \A m \in remaining : n =< m) + 1, Len(lru))

\* Mutant: one read too many.
RoomInFlightOver == inFlight =< MaxInFlight

RoomInFlight == inFlight < MaxInFlight

Reserve(s) ==
  /\ lease = s /\ src[s].at = "reserve"
  /\ RoomInFlight
  /\ lru' = Evicted
  /\ Exclusive(Evicted) # {}
  /\ LET i == CHOOSE i \in Exclusive(Evicted) : \A j \in Exclusive(Evicted) : i =< j
         k == KeyWanted(s)
         reading == [src EXCEPT ![s].read = [slot |-> i, key |-> k]]
     IN /\ block' = [block EXCEPT ![i] = [key |-> k, buffer |-> "out"]]
        /\ \/ /\ Return([reading EXCEPT ![s].io = "running", ![s].at = "physical"])
              /\ UNCHANGED faults
           \/ /\ Fault   \* AssetReader::read panics
              /\ Return([reading EXCEPT ![s].io = "lost", ![s].at = "out",
                                        ![s].want = None])
  /\ inFlight' = inFlight + 1

(* begin fails with Capacity; by then it may have emptied the cache. *)
Unreserved(s) ==
  /\ lease = s /\ src[s].at = "reserve"
  /\ \/ ~RoomInFlight /\ UNCHANGED lru
     \/ RoomInFlight /\ Exclusive(Evicted) = {} /\ lru' = Evicted
  /\ Return([src EXCEPT ![s].at = "out", ![s].want = None])
  /\ UNCHANGED <<block, inFlight, faults>>

(* The future of the read is polled. *)
Physical(s) ==
  /\ src[s].at = "physical"
  /\ \/ /\ src[s].io = "running"
        /\ src' = [src EXCEPT ![s].at = "out", ![s].want = None, ![s].parked = TRUE]
        /\ UNCHANGED faults
     \/ /\ src[s].io = "ready"
        /\ src' = [src EXCEPT ![s].at = "finish", ![s].io = "done"]
        /\ UNCHANGED faults
     \/ /\ src[s].io = "ready" /\ ~src[s].retiring /\ Fault   \* it panics
        /\ src' = [src EXCEPT ![s].at = "out", ![s].want = None, ![s].io = "lost"]
  /\ UNCHANGED <<lease, waiters, pool>>

Ended(s) == [src EXCEPT ![s].at = "out", ![s].want = None, ![s].read = None,
                        ![s].io = "none"]

\* Mutant: a wrong buffer leaves the read counted.
RestoredCounting(s) ==
  \/ /\ block' = [block EXCEPT ![src[s].read.slot].buffer = "here"]
     /\ inFlight' = inFlight - 1
     /\ UNCHANGED faults
  \/ /\ Fault
     /\ block' = [block EXCEPT ![src[s].read.slot].buffer = "lost"]
     /\ UNCHANGED inFlight

(* The buffer of the read is back, or it is another's and this one lost.   *)
Restored(s) ==
  /\ inFlight' = inFlight - 1
  /\ \/ /\ block' = [block EXCEPT ![src[s].read.slot].buffer = "here"]
        /\ UNCHANGED faults
     \/ /\ Fault
        /\ block' = [block EXCEPT ![src[s].read.slot].buffer = "lost"]

Publish(s) ==
  /\ lease = s /\ src[s].at = "finish" /\ ~src[s].retiring
  /\ block' = [block EXCEPT ![src[s].read.slot].buffer = "here"]
  /\ inFlight' = inFlight - 1
  /\ lru' = Append(lru, src[s].read.slot)
  /\ Return([Ended(s) EXCEPT ![s].last = src[s].read])
  /\ UNCHANGED faults

(* The provider answers with an error, or returns a wrong buffer. *)
FailRead(s) ==
  /\ lease = s /\ src[s].at = "finish" /\ ~src[s].retiring
  /\ Restored(s)
  /\ Return(Ended(s))
  /\ UNCHANGED lru

(* Less than the block was read: the rest is asked for. *)
ShortRead(s) ==
  /\ lease = s /\ src[s].at = "finish" /\ ~src[s].retiring
  /\ \/ /\ Return([src EXCEPT ![s].at = "physical", ![s].io = "running"])
        /\ UNCHANGED faults
     \/ /\ Fault
        /\ Return([src EXCEPT ![s].at = "out", ![s].want = None, ![s].io = "lost"])
  /\ UNCHANGED pool

-----------------------------------------------------------------------------
(* Dropping and retiring *)

HasPending(s) == src[s].stage = "opening" \/ src[s].read # None

\* Mutant: the session's wake is not scheduled.
RetiredLater(s) == [src[s] EXCEPT !.retiring = TRUE, !.parked = TRUE]

ToRetire(s) == [src[s] EXCEPT !.retiring = TRUE, !.parked = FALSE]

(* AssetSource is dropped: what is pending is scheduled to be retired. *)
DropSource(s) ==
  /\ Calls(s)
  /\ src[s].stage \notin {"closed", "broken"}
  /\ src' = [src EXCEPT ![s] = IF HasPending(s) THEN ToRetire(s) ELSE Closed]
  /\ UNCHANGED <<lease, waiters, pool, faults>>

(* poll_retired looks at one session after the other. *)
Retire(s) ==
  /\ src[s].retiring /\ ~src[s].parked
  /\ \A t \in Sessions : src[t].retiring => src[t].at = "out"
  /\ \/ /\ src[s].stage = "opening" /\ src[s].io = "running"
        /\ src' = [src EXCEPT ![s].parked = TRUE]
     \/ /\ src[s].stage = "opening" /\ src[s].io = "ready"
        /\ src' = [src EXCEPT ![s] = Closed]
     \/ /\ src[s].stage = "open"
        /\ src' = [src EXCEPT ![s].last = None, ![s].at =
             CASE src[s].io = "lost" -> "abandon"
               [] src[s].io = "done" -> "finish"
               [] OTHER -> "physical"]
  /\ UNCHANGED <<lease, waiters, pool, faults>>

(* The buffer goes back without its data: abort, then reset. *)
Abort(s) ==
  /\ lease = s /\ src[s].at = "finish" /\ src[s].retiring
  /\ Restored(s)
  /\ Return([src EXCEPT ![s] = Closed])
  /\ UNCHANGED lru

(* A provider that unwound keeps the buffer. *)
Abandon(s) ==
  /\ lease = s /\ src[s].at = "abandon"
  /\ block' = [block EXCEPT ![src[s].read.slot].buffer = "lost"]
  /\ inFlight' = inFlight - 1
  /\ Return([src EXCEPT ![s] = Closed])
  /\ UNCHANGED <<lru, faults>>

-----------------------------------------------------------------------------
Operate(s) ==
  \/ Identify(s) \/ Hit(s) \/ Miss(s) \/ Reserve(s) \/ Unreserved(s)
  \/ Publish(s) \/ FailRead(s) \/ ShortRead(s) \/ Abort(s) \/ Abandon(s)

(* A call in progress goes on. *)
Continue(s) ==
  Take(s) \/ Wait(s) \/ Refuse(s) \/ Break(s) \/ Operate(s) \/ Physical(s)

Next ==
  \E s \in Sessions :
    \/ Continue(s)
    \/ Open(s) \/ Completes(s) \/ PollOpen(s) \/ DropSource(s) \/ Retire(s)
    \/ \E o \in Offsets : PollRead(s, o)

Spec == Init /\ [][Next]_vars

(* Threads go on, and the provider of a session finishes.  The pool is     *)
(* free again and again: a host that keeps polling the session finds it    *)
(* free at some time, and no other thread is always faster to take it.     *)
RetireFree(s) == lease = None /\ Retire(s)
Fairness(s) ==
  /\ \A t \in Sessions : WF_vars(Continue(t))
  /\ WF_vars(Completes(s))
  /\ SF_vars(RetireFree(s)) /\ SF_vars(src[s].retiring /\ Take(s))

-----------------------------------------------------------------------------
TypeOK ==
  /\ src \in [Sessions -> Session]
  /\ lease \in Sessions \cup {None}
  /\ waiters \subseteq Sessions /\ Cardinality(waiters) =< WaiterSlots
  /\ block \in [Slots -> [key : Keys \cup {None}, buffer : {"here", "out", "lost"}]]
  /\ IsInjective(lru) /\ Range(lru) \subseteq Slots
  /\ inFlight \in 0..MaxInFlight
  /\ faults \in 0..MaxFaults

(* Every buffer that is out belongs to one read that has yet to return it, *)
(* and the reads are what in_flight counts: neither a short read, a        *)
(* provider that fails or panics, a drop in the middle nor a retirement    *)
(* leaves a reservation behind or gives one back twice (BlockPool: begin,  *)
(* restore, abandon).  Only the sessions that broke stay counted.          *)
Reading(i) == {s \in Sessions : src[s].read # None /\ src[s].read.slot = i}
BuffersAccounted ==
  /\ \A i \in Slots : Cardinality(Reading(i)) = IF block[i].buffer = "out" THEN 1 ELSE 0
  /\ inFlight = Cardinality({s \in Sessions :
                  src[s].read # None \/ src[s].stage = "broken"})

(* A block that a session has read from keeps its bytes while the session  *)
(* holds it, though it may be evicted meanwhile: no read of another block  *)
(* is given its buffer (Handle::get_mut in begin).                         *)
HeldBlocksKept ==
  \A s \in Sessions :
    src[s].last # None =>
      /\ block[src[s].last.slot].key = src[s].last.key
      /\ block[src[s].last.slot].buffer = "here"

(* A session that was told to wait has somebody to wake it: a provider     *)
(* that has not finished, or the thread that has the pool, in whose State  *)
(* its waker is (poll_take; Drop of Lease).                                *)
ParkedWillWake ==
  \A s \in Sessions :
    src[s].parked => src[s].io = "running" \/ (lease # None /\ s \in waiters)

(* A session that is dropped with an operation pending can be opened again *)
(* eventually, unless retiring it panics (poll_retired; put).              *)
Returns(s) == src[s].retiring ~> src[s].stage \in {"closed", "broken"}

(* The assertion in into_storage: "physical read must retire before        *)
(* reusing its slot" (source_read.rs:116).                                 *)
ReadsRetireFirst == \A s \in Sessions : src[s].stage # "broken"
=============================================================================
