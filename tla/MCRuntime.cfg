\* One World with a computed and two effects, or two computeds and one effect;
\* and two Worlds whose effects keep writing what they read, one of them behind
\* two gates that open and close.
CONSTANTS
  None = None
  Signals = {s1}
  Models = {m1}
  Computeds = {c1, c2}
  Effects = {e1, e2}
  Worlds = {w1, w2}
  Entities = {n1}
  Gates = {g1, g2}
  Retirable = {m1}
  InFirst = {m1, n1, g1, g2}
  InSecond = {}
  Bound = {e1}
  Chained = {c2}
  First = w1
  Second = w2
  PassLimit = 2
  OwnerOf <- MCOwnerOf
  EntityOf <- MCEntityOf
  GatesOf <- MCGatesOf
SPECIFICATION FairSpec
CHECK_DEADLOCK FALSE
CONSTRAINT Instances
INVARIANTS
  TypeOK
  NoLostUpdate
  CachesCurrent
  EffectsStayHome
  NothingLeftBehind
  UnfinishedForgotten
PROPERTIES
  FlushSettles
  UpdatesArrive
