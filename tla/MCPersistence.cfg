\* A Model and an item in one file, two values, and a revision that saturates.
CONSTANTS
  Keys = {m, s}
  Models = {m}
  Values = {v1, v2}
  Bad = Bad
  None = None
  MaxUnflushed = 1
  Width = 2
  Interval = 1
  MaxChanges = 1
  MaxFaults = 1
SPECIFICATION FairSpec
CHECK_DEADLOCK FALSE
INVARIANTS
  TypeOK
  NoLostChange
PROPERTIES
  UnreadKept
  StoreImplemented
  AutosaveSaves
