\* Two slots that share a source with room for one of them, and two I/O threads.
CONSTANTS
  Slots = {s1, s2}
  Sources = {q1}
  Manager = Manager
  Host = Host
  Threads = {a1, a2}
  Owner = Owner
  Size = 1
SPECIFICATION FairSpec
CHECK_DEADLOCK FALSE
INVARIANTS
  TypeOK
  WaitersKept
  SlotWakesKept
  ManagerWakesKept
PROPERTIES
  WakesArrive
