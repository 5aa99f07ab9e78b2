\* A session that reads two blocks and one that reads one, or one that reads
\* while two open; two buffers, one read in flight, room for one waiter.
CONSTANTS
  Sessions = {r1, r2, r3}
  Offsets = {o1, o2}
  BlockCount = 2
  MaxInFlight = 1
  WaiterSlots = 1
  MaxFaults = 1
  None = None
  Pair = {r1, r2}
  Reader = r1
  Single = o1
SPECIFICATION FairSpec
CONSTRAINT Instances
INVARIANTS
  TypeOK
  BuffersAccounted
  HeldBlocksKept
  ParkedWillWake
PROPERTIES
  ReaderReturns
