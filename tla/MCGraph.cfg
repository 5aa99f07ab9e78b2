\* The shared partition alone, its slots reused, with two kinds of consumer;
\* and two Worlds that come and go, with a shared source and their own.
CONSTANTS
  MaxGeneration = 2
  SlotLimit = 2
  Widgets = {}
  Effects = {e1}
  Computeds = {c1}
  Worlds = {w1, w2}
  MaxOwners = 2
  MaxEpoch = 3
  Sources = 2
  Consumers = 2
  OwnerSources = 2
  OwnerConsumers = 1
  MaxReuse = 4
  Growth <- MCGrowth
SPECIFICATION Spec
CHECK_DEADLOCK FALSE
CONSTRAINT Instances
SYMMETRY Symmetry
INVARIANTS
  TypeOK
  EdgesJoinLiveSlots
  QueueMatchesFlags
  PublishFits
  ProxiesFaithful
  OwnersDistinct
PROPERTIES
  ImplementsDependencies
  StaleKeysStayStale
