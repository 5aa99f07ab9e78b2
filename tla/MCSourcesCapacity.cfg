\* A session that reads while two open, and one waiter: the third poller finds
\* no room.
CONSTANTS
  Sessions = {r1, r2, r3}
  Offsets = {o1, o2}
  BlockCount = 2
  MaxInFlight = 1
  WaiterSlots = 1
  MaxFaults = 1
  None = None
  Pair = {r1, r2}
  Reader = r1
  Single = o1
SPECIFICATION Spec
CONSTRAINT Instances
INVARIANTS
  ReadsRetireFirst
