\* A model read through a computed is retired.
CONSTANTS
  None = None
  Signals = {s1}
  Models = {m1}
  Computeds = {c1}
  Effects = {e1}
  Worlds = {w1}
  Entities = {}
  Gates = {}
  Retirable = {m1}
  InFirst = {m1, c1}
  InSecond = {}
  Bound = {}
  Chained = {}
  First = w1
  Second = w1
  PassLimit = 2
  OwnerOf <- MCOwnerOf
  EntityOf <- MCEntityOf
  GatesOf <- MCGatesOf
SPECIFICATION Spec
CHECK_DEADLOCK FALSE
INVARIANTS
  RerunsOnChange
