SPECIFICATION Spec
INVARIANT RetiredByNextPoll
CONSTANTS
  Tokens = {t1, t2}
  Handles = {}
  LoaderCount = 1
  Capacity = 2
  Recognises <- MCRecognises
  Probing = {}
  CacheLimit = 2
  Offered = {None}
  Reentrant = TRUE
  Fallback = Fallback
  Leased = Leased
  MaxDepth = 2
  MaxRequest = 2
  MaxAge = 1
  Orphans = {}
  None = None
