----------------------------- MODULE WakeSet -----------------------------
(***************************************************************************)
(* How a completion on an I/O thread reaches the host                      *)
(* (core/resource/wake.rs).  A WakeSet is a flag, ready, and the wakers    *)
(* registered with it; to wake it is to set the flag and to wake those in  *)
(* turn.  A source wakes the invocation slots that wait for it, a slot     *)
(* wakes its manager, and the manager the host.                            *)
(*                                                                         *)
(* What happens in one critical section is one step.  The wakers taken in  *)
(* it are called after it, so every thread carries those it has yet to     *)
(* call, and any thread may run between two of them.  The owner thread     *)
(* runs poll_pending and the callbacks of the loaders.                     *)
(*                                                                         *)
(* Module ResourceManager is about the calls themselves and treats a wake  *)
(* from slot to host as one step.  Reference counts are not modelled.      *)
(***************************************************************************)
EXTENDS Naturals, FiniteSets

CONSTANTS
  Slots,      \* the invocation slots of the manager's loaders
  Sources,    \* byte sources that loaders read from
  Manager, Host,
  Threads,    \* I/O threads
  Owner,      \* the thread of the manager
  Size        \* waiters of a source: the 8 of SourceWake

Sets == Slots \cup Sources \cup {Manager}
Actors == Threads \cup {Owner}

ASSUME SizeAssumption == Size \in Nat \ {0}
ASSUME DistinctAssumption ==
  /\ Slots \cap Sources = {} /\ Manager \notin Slots \cup Sources
  /\ Host \notin Sets /\ Owner \notin Threads
ASSUME FiniteAssumption == IsFiniteSet(Slots)

VARIABLES
  ready,       \* of a set
  parents,     \* the wakers registered with a set
  todo,        \* the wakers a thread has taken and not called yet
  known,       \* sets whose wakers were handed out
  hostWoken,
  armed,       \* slots with a call in progress
  pc,          \* where the owner thread is
  current,     \* the slot it is at
  polled,      \* whether that slot was ready, so that its call is polled
  source,      \* the source that call reads
  left,        \* the slots poll_pending has yet to look at
  waiting      \* ghost: <<slot, source>> pairs of calls told to wait

owner == <<pc, current, polled, source, left>>
vars == <<ready, parents, todo, known, hostWoken, armed, owner, waiting>>

Init ==
  /\ ready = [s \in Sets |-> TRUE]
  /\ parents = [s \in Sets |-> {}]
  /\ todo = [a \in Actors |-> {}]
  /\ known = {}
  /\ hostWoken = TRUE
  /\ armed = {}
  /\ pc = "idle" /\ current = Manager /\ polled = FALSE /\ source = Manager /\ left = {}
  /\ waiting = {}

-----------------------------------------------------------------------------
(***************************************************************************)
(* The critical sections.                                                  *)
(***************************************************************************)

\* wake_by_ref; rest: what the thread had to call besides.
Wake(a, s, rest) ==
  /\ ready' = [ready EXCEPT ![s] = TRUE]
  /\ todo' = [todo EXCEPT ![a] = rest \cup parents[s]]
  /\ parents' = [parents EXCEPT ![s] = {}]

TakeReady(s) == ready' = [ready EXCEPT ![s] = FALSE]

\* Mutants: a set that was woken meanwhile is not noticed.
RegisterBlindly(s, p) ==
  /\ parents' = [parents EXCEPT ![s] = IF ready[s] THEN {} ELSE {p}]
  /\ UNCHANGED <<ready, todo>>
RegisterSharedBlindly(s, p) ==
  /\ parents' = [parents EXCEPT ![s] = @ \cup {p}]
  /\ UNCHANGED <<ready, todo>>

\* register, by the owner thread: p replaces every waker registered before.
Register(s, p) ==
  /\ parents' = [parents EXCEPT ![s] = IF ready[s] THEN {} ELSE {p}]
  /\ todo' = [todo EXCEPT ![Owner] = IF ready[s] THEN {p} ELSE {}]
  /\ UNCHANGED ready

\* Mutant: one waiter more than there is room for.
AcceptsOneMore(s, p) == ready[s] \/ p \in parents[s] \/ Cardinality(parents[s]) <= Size

\* insert_waiter: a waiter that is there already needs no room.
Accepts(s, p) == ready[s] \/ p \in parents[s] \/ Cardinality(parents[s]) < Size

\* register_shared: p joins the waiters.
RegisterShared(s, p) ==
  /\ parents' = [parents EXCEPT ![s] = IF ready[s] THEN @ ELSE @ \cup {p}]
  /\ todo' = [todo EXCEPT ![Owner] = IF ready[s] THEN {p} ELSE {}]
  /\ UNCHANGED ready

-----------------------------------------------------------------------------
(***************************************************************************)
(* I/O threads.  A waker may be called long after what it was for is over. *)
(***************************************************************************)
Complete(a, s) ==
  /\ a \in Threads
  /\ todo[a] = {}
  /\ s \in known
  /\ Wake(a, s, {})
  /\ UNCHANGED <<known, hostWoken, armed, owner, waiting>>

\* The next waker is called, with all that follows from it.
Deliver(a, s) ==
  /\ s \in todo[a] \ {Host}
  /\ Wake(a, s, todo[a] \ {s})
  /\ UNCHANGED <<known, hostWoken, armed, owner, waiting>>

DeliverHost(a) ==
  /\ Host \in todo[a]
  /\ hostWoken' = TRUE
  /\ todo' = [todo EXCEPT ![a] = @ \ {Host}]
  /\ UNCHANGED <<ready, parents, known, armed, owner, waiting>>

-----------------------------------------------------------------------------
(***************************************************************************)
(* The owner thread.                                                       *)
(***************************************************************************)
At(place) == pc = place /\ todo[Owner] = {}

\* poll_pending
PollBegin ==
  /\ At("idle")
  /\ hostWoken' = FALSE
  /\ TakeReady(Manager)
  /\ left' = IF ready[Manager] THEN armed ELSE {}
  /\ pc' = "registerManager"
  /\ UNCHANGED <<parents, todo, known, armed, current, polled, source, waiting>>

RegisterManager ==
  /\ At("registerManager")
  /\ Register(Manager, Host)
  /\ pc' = "slots"
  /\ UNCHANGED <<known, hostWoken, armed, current, polled, source, left, waiting>>

\* Adapter::take_ready, its first half
VisitSlot(s) ==
  /\ At("slots")
  /\ s \in left
  /\ TakeReady(s)
  /\ left' = left \ {s}
  /\ current' = s /\ polled' = ready[s]
  /\ waiting' = IF ready[s] THEN {w \in waiting : w[1] # s} ELSE waiting
  /\ pc' = "registerSlot"
  /\ UNCHANGED <<parents, todo, known, hostWoken, armed, source>>

\* and its second
RegisterSlot ==
  /\ At("registerSlot")
  /\ Register(current, Manager)
  /\ pc' = IF polled THEN "poll" ELSE "slots"
  /\ UNCHANGED <<known, hostWoken, armed, current, polled, source, left, waiting>>

PollEnd ==
  /\ At("slots")
  /\ left = {}
  /\ pc' = "idle"
  /\ UNCHANGED <<ready, parents, todo, known, hostWoken, armed, current, polled, source, left,
                 waiting>>

\* resolve: a slot is taken for a new call, which is polled at once.
Begin(s) ==
  /\ At("idle")
  /\ s \in Slots \ armed
  /\ armed' = armed \cup {s}
  /\ TakeReady(s)
  /\ current' = s
  /\ pc' = "poll"
  /\ UNCHANGED <<parents, todo, known, hostWoken, polled, source, left, waiting>>

\* invalidate and reload, on the owner thread
Schedule(s) ==
  /\ At("idle")
  /\ s \in armed \cup {Manager}
  /\ Wake(Owner, s, {})
  /\ UNCHANGED <<known, hostWoken, armed, owner, waiting>>

\* Task::poll_on, up to the loader
PollCall ==
  /\ At("poll")
  /\ Register(current, Manager)
  /\ known' = known \cup {current}
  /\ pc' = "call"
  /\ UNCHANGED <<hostWoken, armed, current, polled, source, left, waiting>>

\* The loader is done, or waits for something of its own.
CallDone ==
  /\ At("call")
  /\ armed' = armed \ {current}
  /\ pc' = "slots"
  /\ UNCHANGED <<ready, parents, todo, known, hostWoken, current, polled, source, left, waiting>>

CallPending ==
  /\ At("call")
  /\ pc' = "slots"
  /\ UNCHANGED <<ready, parents, todo, known, hostWoken, armed, current, polled, source, left,
                 waiting>>

\* Metadata came for a call that is now to load: it is polled again next time.
CallAgain ==
  /\ At("call")
  /\ Wake(Owner, current, {})
  /\ pc' = "slots"
  /\ UNCHANGED <<known, hostWoken, armed, current, polled, source, left, waiting>>

\* walk_chain: the token is not the loader's, and the next one gets a call.
PassOn(s) ==
  /\ At("call")
  /\ s \in Slots \ armed
  /\ armed' = (armed \ {current}) \cup {s}
  /\ TakeReady(s)
  /\ current' = s
  /\ pc' = "poll"
  /\ UNCHANGED <<parents, todo, known, hostWoken, polled, source, left, waiting>>

\* Session::poll_read, up to the read
ReadSource(q) ==
  /\ At("call")
  /\ source' = q
  /\ TakeReady(q)
  /\ known' = known \cup {q}
  /\ pc' = "read"
  /\ UNCHANGED <<parents, todo, hostWoken, armed, current, polled, left, waiting>>

\* The read is pending: the call waits, or fails when too many do.
ReadPending ==
  /\ At("read")
  /\ Accepts(source, current)
  /\ RegisterShared(source, current)
  /\ waiting' = waiting \cup {<<current, source>>}
  /\ pc' = "slots"
  /\ UNCHANGED <<known, hostWoken, armed, current, polled, source, left>>

ReadRefused ==
  /\ At("read")
  /\ ~Accepts(source, current)
  /\ armed' = armed \ {current}
  /\ pc' = "slots"
  /\ UNCHANGED <<ready, parents, todo, known, hostWoken, current, polled, source, left, waiting>>

\* The read is complete, and the loader goes on.
ReadDone ==
  /\ At("read")
  /\ pc' = "call"
  /\ UNCHANGED <<ready, parents, todo, known, hostWoken, armed, current, polled, source, left,
                 waiting>>

-----------------------------------------------------------------------------
Return == CallDone \/ CallPending \/ CallAgain \/ ReadPending \/ ReadRefused

PollStep ==
  RegisterManager \/ RegisterSlot \/ PollEnd \/ PollCall \/ \E s \in Slots : VisitSlot(s)

Next ==
  \/ \E a \in Threads, s \in Sets : Complete(a, s)
  \/ \E a \in Actors : DeliverHost(a)
  \/ \E a \in Actors, s \in Sets : Deliver(a, s)
  \/ PollBegin \/ PollStep \/ Return
  \/ \E s \in Slots : Begin(s) \/ PassOn(s)
  \/ \E s \in Sets : Schedule(s)
  \/ \E q \in Sources : ReadSource(q)
  \/ ReadDone

Spec == Init /\ [][Next]_vars

\* A thread that took wakers calls them, the owner thread goes on with a poll, a
\* callback returns at last, and the host polls when it is woken.
Fairness ==
  /\ \A a \in Actors : \A s \in Sets : WF_vars(Deliver(a, s))
  /\ \A a \in Actors : WF_vars(DeliverHost(a))
  /\ WF_vars(PollStep)
  /\ SF_vars(Return)
  /\ SF_vars(hostWoken /\ PollBegin)

FairSpec == Spec /\ Fairness

-----------------------------------------------------------------------------
(***************************************************************************)
(* Correctness.                                                            *)
(***************************************************************************)
Places == {"idle", "registerManager", "slots", "registerSlot", "poll", "call", "read"}

\* Every variable has its type, and no set holds more wakers than it has room
\* for: one, or Size of them for a source (WakeData::parents).
TypeOK ==
  /\ ready \in [Sets -> BOOLEAN]
  /\ parents \in [Sets -> SUBSET (Slots \cup {Manager, Host})]
  /\ \A s \in Slots : parents[s] \subseteq {Manager}
  /\ parents[Manager] \subseteq {Host}
  /\ \A q \in Sources : parents[q] \subseteq Slots /\ Cardinality(parents[q]) <= Size
  /\ todo \in [Actors -> SUBSET (Slots \cup {Manager, Host})]
  /\ known \subseteq Slots \cup Sources /\ armed \subseteq Slots
  /\ hostWoken \in BOOLEAN
  /\ pc \in Places /\ polled \in BOOLEAN /\ left \subseteq armed
  /\ current \in Sets /\ source \in Sets
  /\ pc \in {"registerSlot", "poll", "call", "read"} => current \in armed
  /\ pc = "read" => source \in Sources

Carried(p) == \E a \in Actors : p \in todo[a]

\* Whoever waits for a source is registered with it until it is woken, and then is
\* told: its slot is ready, or a thread is about to make it so (register_shared
\* against a completion between the read and the registration).
WaitersKept ==
  \A w \in waiting :
    (w[1] \in parents[w[2]] /\ ~ready[w[2]]) \/ Carried(w[1]) \/ ready[w[1]]

\* A slot that was woken is going to be looked at: by the poll in progress, or
\* because the manager was told or is about to be (take_ready and register are two
\* critical sections, and a thread may wake the slot between them).
SlotWakesKept ==
  \A s \in armed : ready[s] =>
    \/ ready[Manager] \/ Carried(Manager) \/ s \in left
    \/ current = s /\ pc \in {"registerSlot", "poll"}

\* A manager that was woken is going to be polled: the host knows, or is about to
\* be told, or the poll in progress has yet to register the host (poll_pending).
ManagerWakesKept ==
  ready[Manager] => hostWoken \/ Carried(Host) \/ pc = "registerManager"

\* A wake-up of a call in progress leads to a poll of its slot, whatever the other
\* threads do: it does not stay unseen in a flag nobody reads.
WakesArrive ==
  \A s \in Slots : (s \in armed /\ ready[s]) ~> (s \notin armed \/ ~ready[s])
=============================================================================
