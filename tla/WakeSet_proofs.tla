-------------------------- MODULE WakeSet_proofs --------------------------
(***************************************************************************)
(* No wake-up is lost between an I/O thread and the host, for any number   *)
(* of slots, sources, threads and waiters of a source.                     *)
(***************************************************************************)
EXTENDS WakeSet, FiniteSetTheorems, TLAPS

Busy == {"registerSlot", "poll", "call", "read"}

\* A set that is ready has told everyone who was registered with it.
Told == \A s \in Sets : ready[s] => parents[s] = {}

\* Unless it is ready, the slot of a call has the manager registered with it, but
\* for the time between take_ready and register.
Linked ==
  \A s \in armed :
    ready[s] \/ parents[s] = {Manager} \/ (current = s /\ pc \in {"registerSlot", "poll"})

\* And the manager has the host.
HostLinked == ready[Manager] \/ parents[Manager] = {Host} \/ pc = "registerManager"

\* A call that is being polled waits for nothing, and is not to be polled again.
Polling ==
  /\ pc = "idle" => left = {}
  /\ pc \in Busy => current \notin left
  /\ \A w \in waiting :
       /\ w \in armed \X Sources
       /\ pc \in {"poll", "call", "read"} => w[1] # current
       /\ pc = "registerSlot" /\ polled => w[1] # current

\* The three properties speak of flags; what makes them inductive is who is
\* registered where while a flag is down.
IInv ==
  /\ TypeOK /\ Told /\ Linked /\ HostLinked /\ Polling
  /\ WaitersKept /\ SlotWakesKept /\ ManagerWakesKept

-----------------------------------------------------------------------------
LEMMA InitInv == Init => IInv
<1>1. Cardinality({}) = 0
  BY FS_EmptySet
<1> SUFFICES ASSUME Init PROVE IInv
  OBVIOUS
<1>2. TypeOK
  <2>1. \A s \in Sets : parents[s] = {}
    BY DEF Init
  <2>2. \A q \in Sources : Cardinality(parents[q]) <= Size
    BY <1>1, <2>1, SizeAssumption DEF Sets
  <2>3. ready \in [Sets -> BOOLEAN]
    BY DEF Init
  <2>4. parents \in [Sets -> SUBSET (Slots \cup {Manager, Host})]
    BY DEF Init
  <2>5. todo \in [Actors -> SUBSET (Slots \cup {Manager, Host})]
    BY DEF Init
  <2> QED
    BY <2>1, <2>2, <2>3, <2>4, <2>5 DEF Init, TypeOK, Places, Sets
<1>3. Told /\ Linked /\ HostLinked /\ Polling
  BY DEF Init, Told, Linked, HostLinked, Polling, Busy, Sets
<1>4. WaitersKept /\ SlotWakesKept /\ ManagerWakesKept
  BY DEF Init, WaitersKept, SlotWakesKept, ManagerWakesKept
<1> QED
  BY <1>2, <1>3, <1>4 DEF IInv

\* A source that accepts a waiter has room for it.
LEMMA WaitersAfterRegister ==
  ASSUME IInv, source \in Sources, current \in Slots, Accepts(source, current),
         RegisterShared(source, current)
  PROVE  Cardinality(parents'[source]) <= Size
<1>1. IsFiniteSet(parents[source]) /\ Cardinality(parents[source]) <= Size
  BY FiniteAssumption, FS_Subset DEF IInv, TypeOK
<1>2. CASE ready[source] \/ current \in parents[source]
  <2>1. parents'[source] = parents[source]
    BY <1>2 DEF RegisterShared, IInv, TypeOK, Sets
  <2> QED  BY <1>1, <2>1
<1>3. CASE ~ready[source] /\ current \notin parents[source]
  <2>1. parents'[source] = parents[source] \cup {current}
    BY <1>3 DEF RegisterShared, IInv, TypeOK, Sets
  <2>2. Cardinality(parents[source] \cup {current}) = Cardinality(parents[source]) + 1
    BY <1>1, <1>3, FS_AddElement
  <2>3. Cardinality(parents[source]) \in Nat /\ Cardinality(parents[source]) < Size
    BY <1>1, <1>3, FS_CardinalityType DEF Accepts
  <2> QED  BY <2>1, <2>2, <2>3, SizeAssumption
<1> QED  BY <1>2, <1>3

LEMMA CompleteStep ==
  ASSUME IInv, NEW a \in Threads, NEW s \in Sets, Complete(a, s)
  PROVE  IInv'
<1>1. TypeOK' /\ Polling'
  <2>1. Cardinality({}) = 0
    BY FS_EmptySet
  <2> QED
    BY <2>1, DistinctAssumption, SizeAssumption
    DEF Complete, Wake, owner, IInv, TypeOK, Polling, Places, Busy, Sets, Actors
<1>2. Told' /\ Linked' /\ HostLinked'
  BY DistinctAssumption
  DEF Complete, Wake, owner, IInv, TypeOK, Polling, Told, Linked, HostLinked, Busy, Sets, Actors
<1>3. WaitersKept' /\ SlotWakesKept' /\ ManagerWakesKept'
  BY DistinctAssumption
  DEF Complete, Wake, owner, IInv, TypeOK, Polling, Told, Linked, HostLinked, WaitersKept, SlotWakesKept, ManagerWakesKept, Carried, Busy, Sets, Actors
<1> QED  BY <1>1, <1>2, <1>3 DEF IInv

LEMMA DeliverHostStep ==
  ASSUME IInv, NEW a \in Actors, DeliverHost(a)
  PROVE  IInv'
<1>1. TypeOK' /\ Polling'
  BY DistinctAssumption
  DEF DeliverHost, owner, IInv, TypeOK, Polling, Places, Busy, Sets, Actors
<1>2. Told' /\ Linked' /\ HostLinked'
  BY DistinctAssumption
  DEF DeliverHost, owner, IInv, TypeOK, Polling, Told, Linked, HostLinked, Busy, Sets, Actors
<1>3. WaitersKept' /\ SlotWakesKept' /\ ManagerWakesKept'
  BY DistinctAssumption
  DEF DeliverHost, owner, IInv, TypeOK, Polling, Told, Linked, HostLinked, WaitersKept, SlotWakesKept, ManagerWakesKept, Carried, Busy, Sets, Actors
<1> QED  BY <1>1, <1>2, <1>3 DEF IInv

LEMMA DeliverStep ==
  ASSUME IInv, NEW a \in Actors, NEW s \in Sets, Deliver(a, s)
  PROVE  IInv'
<1>1. TypeOK' /\ Polling'
  BY DistinctAssumption
  DEF Deliver, Wake, owner, IInv, TypeOK, Polling, Places, Busy, Sets, Actors
<1>2. Told' /\ Linked' /\ HostLinked'
  BY DistinctAssumption
  DEF Deliver, Wake, owner, IInv, TypeOK, Polling, Told, Linked, HostLinked, Busy, Sets, Actors
<1>3. WaitersKept' /\ SlotWakesKept' /\ ManagerWakesKept'
  BY DistinctAssumption
  DEF Deliver, Wake, owner, IInv, TypeOK, Polling, Told, Linked, HostLinked, WaitersKept, SlotWakesKept, ManagerWakesKept, Carried, Busy, Sets, Actors
<1> QED  BY <1>1, <1>2, <1>3 DEF IInv

LEMMA PollBeginStep ==
  ASSUME IInv, PollBegin
  PROVE  IInv'
<1>1. TypeOK' /\ Polling'
  BY DistinctAssumption
  DEF PollBegin, At, TakeReady, IInv, TypeOK, Polling, Places, Busy, Sets, Actors
<1>2. Told' /\ Linked' /\ HostLinked'
  BY DistinctAssumption
  DEF PollBegin, At, TakeReady, IInv, TypeOK, Polling, Told, Linked, HostLinked, Busy, Sets, Actors
<1>3. WaitersKept' /\ SlotWakesKept' /\ ManagerWakesKept'
  BY DistinctAssumption
  DEF PollBegin, At, TakeReady, IInv, TypeOK, Polling, Told, Linked, HostLinked, WaitersKept, SlotWakesKept, ManagerWakesKept, Carried, Busy, Sets, Actors
<1> QED  BY <1>1, <1>2, <1>3 DEF IInv

LEMMA RegisterManagerStep ==
  ASSUME IInv, RegisterManager
  PROVE  IInv'
<1>1. TypeOK' /\ Polling'
  BY DistinctAssumption
  DEF RegisterManager, At, Register, IInv, TypeOK, Polling, Places, Busy, Sets, Actors
<1>2. Told' /\ Linked' /\ HostLinked'
  BY DistinctAssumption
  DEF RegisterManager, At, Register, IInv, TypeOK, Polling, Told, Linked, HostLinked, Busy, Sets, Actors
<1>3. WaitersKept' /\ SlotWakesKept' /\ ManagerWakesKept'
  BY DistinctAssumption
  DEF RegisterManager, At, Register, IInv, TypeOK, Polling, Told, Linked, HostLinked, WaitersKept, SlotWakesKept, ManagerWakesKept, Carried, Busy, Sets, Actors
<1> QED  BY <1>1, <1>2, <1>3 DEF IInv

LEMMA VisitSlotStep ==
  ASSUME IInv, NEW s \in Slots, VisitSlot(s)
  PROVE  IInv'
<1>1. TypeOK' /\ Polling'
  BY DistinctAssumption
  DEF VisitSlot, At, TakeReady, IInv, TypeOK, Polling, Places, Busy, Sets, Actors
<1>2. Told' /\ Linked' /\ HostLinked'
  BY DistinctAssumption
  DEF VisitSlot, At, TakeReady, IInv, TypeOK, Polling, Told, Linked, HostLinked, Busy, Sets, Actors
<1>3. WaitersKept' /\ SlotWakesKept' /\ ManagerWakesKept'
  BY DistinctAssumption
  DEF VisitSlot, At, TakeReady, IInv, TypeOK, Polling, Told, Linked, HostLinked, WaitersKept, SlotWakesKept, ManagerWakesKept, Carried, Busy, Sets, Actors
<1> QED  BY <1>1, <1>2, <1>3 DEF IInv

LEMMA RegisterSlotStep ==
  ASSUME IInv, RegisterSlot
  PROVE  IInv'
<1>1. TypeOK' /\ Polling'
  BY DistinctAssumption
  DEF RegisterSlot, At, Register, IInv, TypeOK, Polling, Places, Busy, Sets, Actors
<1>2. Told' /\ Linked' /\ HostLinked'
  BY DistinctAssumption
  DEF RegisterSlot, At, Register, IInv, TypeOK, Polling, Told, Linked, HostLinked, Busy, Sets, Actors
<1>3. WaitersKept' /\ SlotWakesKept' /\ ManagerWakesKept'
  BY DistinctAssumption
  DEF RegisterSlot, At, Register, IInv, TypeOK, Polling, Told, Linked, HostLinked, WaitersKept, SlotWakesKept, ManagerWakesKept, Carried, Busy, Sets, Actors
<1> QED  BY <1>1, <1>2, <1>3 DEF IInv

LEMMA PollEndStep ==
  ASSUME IInv, PollEnd
  PROVE  IInv'
<1>1. TypeOK' /\ Polling'
  BY DistinctAssumption
  DEF PollEnd, At, IInv, TypeOK, Polling, Places, Busy, Sets, Actors
<1>2. Told' /\ Linked' /\ HostLinked'
  BY DistinctAssumption
  DEF PollEnd, At, IInv, TypeOK, Polling, Told, Linked, HostLinked, Busy, Sets, Actors
<1>3. WaitersKept' /\ SlotWakesKept' /\ ManagerWakesKept'
  BY DistinctAssumption
  DEF PollEnd, At, IInv, TypeOK, Polling, Told, Linked, HostLinked, WaitersKept, SlotWakesKept, ManagerWakesKept, Carried, Busy, Sets, Actors
<1> QED  BY <1>1, <1>2, <1>3 DEF IInv

LEMMA PollCallStep ==
  ASSUME IInv, PollCall
  PROVE  IInv'
<1>1. TypeOK' /\ Polling'
  BY DistinctAssumption
  DEF PollCall, At, Register, IInv, TypeOK, Polling, Places, Busy, Sets, Actors
<1>2. Told' /\ Linked' /\ HostLinked'
  BY DistinctAssumption
  DEF PollCall, At, Register, IInv, TypeOK, Polling, Told, Linked, HostLinked, Busy, Sets, Actors
<1>3. WaitersKept' /\ SlotWakesKept' /\ ManagerWakesKept'
  BY DistinctAssumption
  DEF PollCall, At, Register, IInv, TypeOK, Polling, Told, Linked, HostLinked, WaitersKept, SlotWakesKept, ManagerWakesKept, Carried, Busy, Sets, Actors
<1> QED  BY <1>1, <1>2, <1>3 DEF IInv

LEMMA CallDoneStep ==
  ASSUME IInv, CallDone
  PROVE  IInv'
<1>1. TypeOK' /\ Polling'
  BY DistinctAssumption
  DEF CallDone, At, IInv, TypeOK, Polling, Places, Busy, Sets, Actors
<1>2. Told' /\ Linked' /\ HostLinked'
  BY DistinctAssumption
  DEF CallDone, At, IInv, TypeOK, Polling, Told, Linked, HostLinked, Busy, Sets, Actors
<1>3. WaitersKept' /\ SlotWakesKept' /\ ManagerWakesKept'
  BY DistinctAssumption
  DEF CallDone, At, IInv, TypeOK, Polling, Told, Linked, HostLinked, WaitersKept, SlotWakesKept, ManagerWakesKept, Carried, Busy, Sets, Actors
<1> QED  BY <1>1, <1>2, <1>3 DEF IInv

LEMMA CallPendingStep ==
  ASSUME IInv, CallPending
  PROVE  IInv'
<1>1. TypeOK' /\ Polling'
  BY DistinctAssumption
  DEF CallPending, At, IInv, TypeOK, Polling, Places, Busy, Sets, Actors
<1>2. Told' /\ Linked' /\ HostLinked'
  BY DistinctAssumption
  DEF CallPending, At, IInv, TypeOK, Polling, Told, Linked, HostLinked, Busy, Sets, Actors
<1>3. WaitersKept' /\ SlotWakesKept' /\ ManagerWakesKept'
  BY DistinctAssumption
  DEF CallPending, At, IInv, TypeOK, Polling, Told, Linked, HostLinked, WaitersKept, SlotWakesKept, ManagerWakesKept, Carried, Busy, Sets, Actors
<1> QED  BY <1>1, <1>2, <1>3 DEF IInv

LEMMA CallAgainStep ==
  ASSUME IInv, CallAgain
  PROVE  IInv'
<1>1. TypeOK' /\ Polling'
  BY DistinctAssumption
  DEF CallAgain, At, Wake, IInv, TypeOK, Polling, Places, Busy, Sets, Actors
<1>2. Told' /\ Linked' /\ HostLinked'
  BY DistinctAssumption
  DEF CallAgain, At, Wake, IInv, TypeOK, Polling, Told, Linked, HostLinked, Busy, Sets, Actors
<1>3. WaitersKept' /\ SlotWakesKept' /\ ManagerWakesKept'
  BY DistinctAssumption
  DEF CallAgain, At, Wake, IInv, TypeOK, Polling, Told, Linked, HostLinked, WaitersKept, SlotWakesKept, ManagerWakesKept, Carried, Busy, Sets, Actors
<1> QED  BY <1>1, <1>2, <1>3 DEF IInv

LEMMA ReadPendingStep ==
  ASSUME IInv, ReadPending
  PROVE  IInv'
<1>1. TypeOK' /\ Polling'
  <2>1. current \in Slots /\ source \in Sources
    BY DEF ReadPending, At, IInv, TypeOK
  <2>2. Cardinality(parents'[source]) <= Size
    BY <2>1, WaitersAfterRegister DEF ReadPending
  <2> QED
    BY <2>1, <2>2, DistinctAssumption
    DEF ReadPending, At, RegisterShared, IInv, TypeOK, Polling, Places, Busy, Sets, Actors
<1>2. Told' /\ Linked' /\ HostLinked'
  BY DistinctAssumption
  DEF ReadPending, At, RegisterShared, Accepts, IInv, TypeOK, Polling, Told, Linked, HostLinked, Busy, Sets, Actors
<1>3. WaitersKept' /\ SlotWakesKept' /\ ManagerWakesKept'
  BY DistinctAssumption
  DEF ReadPending, At, RegisterShared, Accepts, IInv, TypeOK, Polling, Told, Linked, HostLinked, WaitersKept, SlotWakesKept, ManagerWakesKept, Carried, Busy, Sets, Actors
<1> QED  BY <1>1, <1>2, <1>3 DEF IInv

LEMMA ReadRefusedStep ==
  ASSUME IInv, ReadRefused
  PROVE  IInv'
<1>1. TypeOK' /\ Polling'
  BY DistinctAssumption
  DEF ReadRefused, At, Accepts, IInv, TypeOK, Polling, Places, Busy, Sets, Actors
<1>2. Told' /\ Linked' /\ HostLinked'
  BY DistinctAssumption
  DEF ReadRefused, At, Accepts, IInv, TypeOK, Polling, Told, Linked, HostLinked, Busy, Sets, Actors
<1>3. WaitersKept' /\ SlotWakesKept' /\ ManagerWakesKept'
  BY DistinctAssumption
  DEF ReadRefused, At, Accepts, IInv, TypeOK, Polling, Told, Linked, HostLinked, WaitersKept, SlotWakesKept, ManagerWakesKept, Carried, Busy, Sets, Actors
<1> QED  BY <1>1, <1>2, <1>3 DEF IInv

LEMMA BeginStep ==
  ASSUME IInv, NEW s \in Slots, Begin(s)
  PROVE  IInv'
<1>1. TypeOK' /\ Polling'
  BY DistinctAssumption
  DEF Begin, At, TakeReady, IInv, TypeOK, Polling, Places, Busy, Sets, Actors
<1>2. Told' /\ Linked' /\ HostLinked'
  BY DistinctAssumption
  DEF Begin, At, TakeReady, IInv, TypeOK, Polling, Told, Linked, HostLinked, Busy, Sets, Actors
<1>3. WaitersKept' /\ SlotWakesKept' /\ ManagerWakesKept'
  BY DistinctAssumption
  DEF Begin, At, TakeReady, IInv, TypeOK, Polling, Told, Linked, HostLinked, WaitersKept, SlotWakesKept, ManagerWakesKept, Carried, Busy, Sets, Actors
<1> QED  BY <1>1, <1>2, <1>3 DEF IInv

LEMMA PassOnStep ==
  ASSUME IInv, NEW s \in Slots, PassOn(s)
  PROVE  IInv'
<1>1. TypeOK' /\ Polling'
  BY DistinctAssumption
  DEF PassOn, At, TakeReady, IInv, TypeOK, Polling, Places, Busy, Sets, Actors
<1>2. Told' /\ Linked' /\ HostLinked'
  BY DistinctAssumption
  DEF PassOn, At, TakeReady, IInv, TypeOK, Polling, Told, Linked, HostLinked, Busy, Sets, Actors
<1>3. WaitersKept' /\ SlotWakesKept' /\ ManagerWakesKept'
  BY DistinctAssumption
  DEF PassOn, At, TakeReady, IInv, TypeOK, Polling, Told, Linked, HostLinked, WaitersKept, SlotWakesKept, ManagerWakesKept, Carried, Busy, Sets, Actors
<1> QED  BY <1>1, <1>2, <1>3 DEF IInv

LEMMA ScheduleStep ==
  ASSUME IInv, NEW s \in Sets, Schedule(s)
  PROVE  IInv'
<1>1. TypeOK' /\ Polling'
  BY DistinctAssumption
  DEF Schedule, At, Wake, owner, IInv, TypeOK, Polling, Places, Busy, Sets, Actors
<1>2. Told' /\ Linked' /\ HostLinked'
  BY DistinctAssumption
  DEF Schedule, At, Wake, owner, IInv, TypeOK, Polling, Told, Linked, HostLinked, Busy, Sets, Actors
<1>3. WaitersKept' /\ SlotWakesKept' /\ ManagerWakesKept'
  BY DistinctAssumption
  DEF Schedule, At, Wake, owner, IInv, TypeOK, Polling, Told, Linked, HostLinked, WaitersKept, SlotWakesKept, ManagerWakesKept, Carried, Busy, Sets, Actors
<1> QED  BY <1>1, <1>2, <1>3 DEF IInv

LEMMA ReadSourceStep ==
  ASSUME IInv, NEW q \in Sources, ReadSource(q)
  PROVE  IInv'
<1>1. TypeOK' /\ Polling'
  BY DistinctAssumption
  DEF ReadSource, At, TakeReady, IInv, TypeOK, Polling, Places, Busy, Sets, Actors
<1>2. Told' /\ Linked' /\ HostLinked'
  BY DistinctAssumption
  DEF ReadSource, At, TakeReady, IInv, TypeOK, Polling, Told, Linked, HostLinked, Busy, Sets, Actors
<1>3. WaitersKept' /\ SlotWakesKept' /\ ManagerWakesKept'
  BY DistinctAssumption
  DEF ReadSource, At, TakeReady, IInv, TypeOK, Polling, Told, Linked, HostLinked, WaitersKept, SlotWakesKept, ManagerWakesKept, Carried, Busy, Sets, Actors
<1> QED  BY <1>1, <1>2, <1>3 DEF IInv

LEMMA ReadDoneStep ==
  ASSUME IInv, ReadDone
  PROVE  IInv'
<1>1. TypeOK' /\ Polling'
  BY DistinctAssumption
  DEF ReadDone, At, IInv, TypeOK, Polling, Places, Busy, Sets, Actors
<1>2. Told' /\ Linked' /\ HostLinked'
  BY DistinctAssumption
  DEF ReadDone, At, IInv, TypeOK, Polling, Told, Linked, HostLinked, Busy, Sets, Actors
<1>3. WaitersKept' /\ SlotWakesKept' /\ ManagerWakesKept'
  BY DistinctAssumption
  DEF ReadDone, At, IInv, TypeOK, Polling, Told, Linked, HostLinked, WaitersKept, SlotWakesKept, ManagerWakesKept, Carried, Busy, Sets, Actors
<1> QED  BY <1>1, <1>2, <1>3 DEF IInv

LEMMA StepInv == IInv /\ [Next]_vars => IInv'
<1> SUFFICES ASSUME IInv, [Next]_vars PROVE IInv'
  OBVIOUS
<1>1. ASSUME NEW a \in Threads, NEW s \in Sets, Complete(a, s) PROVE IInv'
  BY <1>1, CompleteStep
<1>2. ASSUME NEW a \in Actors, DeliverHost(a) PROVE IInv'
  BY <1>2, DeliverHostStep
<1>3. ASSUME NEW a \in Actors, NEW s \in Sets, Deliver(a, s) PROVE IInv'
  BY <1>3, DeliverStep
<1>4. CASE PollBegin
  BY <1>4, PollBeginStep
<1>5. CASE PollStep
  BY <1>5, RegisterManagerStep, RegisterSlotStep, PollEndStep, PollCallStep, VisitSlotStep
  DEF PollStep
<1>6. CASE Return
  BY <1>6, CallDoneStep, CallPendingStep, CallAgainStep, ReadPendingStep, ReadRefusedStep
  DEF Return
<1>7. ASSUME NEW s \in Slots, Begin(s) \/ PassOn(s) PROVE IInv'
  BY <1>7, BeginStep, PassOnStep
<1>8. ASSUME NEW s \in Sets, Schedule(s) PROVE IInv'
  BY <1>8, ScheduleStep
<1>9. ASSUME NEW q \in Sources, ReadSource(q) PROVE IInv'
  BY <1>9, ReadSourceStep
<1>10. CASE ReadDone
  BY <1>10, ReadDoneStep
<1>11. CASE UNCHANGED vars
  BY <1>11
  DEF vars, owner, IInv, TypeOK, Told, Linked, HostLinked, Polling, WaitersKept,
      SlotWakesKept, ManagerWakesKept, Carried
<1> QED
  BY <1>1, <1>2, <1>3, <1>4, <1>5, <1>6, <1>7, <1>8, <1>9, <1>10, <1>11 DEF Next

LEMMA Invariant == Spec => []IInv
  BY InitInv, StepInv, PTL DEF Spec

-----------------------------------------------------------------------------
\* Every variable keeps its type, and no set ever holds more wakers than it has
\* room for, so that register_shared never drops a waiter that was accepted.
THEOREM WakersFit == Spec => []TypeOK
<1>1. IInv => TypeOK  BY DEF IInv
<1> QED  BY <1>1, Invariant, PTL

\* A call that was told to wait for a source is registered with it until it is woken
\* (Session::poll_read): no completion falls between the read and the registration.
THEOREM NoWaiterForgotten == Spec => []WaitersKept
<1>1. IInv => WaitersKept  BY DEF IInv
<1> QED  BY <1>1, Invariant, PTL

\* A slot that was woken is looked at by the poll in progress or by the next one
\* (poll_pending).
THEOREM NoWakeUpLost == Spec => []SlotWakesKept
<1>1. IInv => SlotWakesKept  BY DEF IInv
<1> QED  BY <1>1, Invariant, PTL

\* A manager that was woken makes the host poll, whoever woke it in the meantime.
THEOREM ManagersPolled == Spec => []ManagerWakesKept
<1>1. IInv => ManagerWakesKept  BY DEF IInv
<1> QED  BY <1>1, Invariant, PTL
=============================================================================
