SPECIFICATION Spec
INVARIANT MetaCurrent
CONSTANTS
  Tokens = {t1}
  Handles = {}
  LoaderCount = 2
  Capacity = 1
  Recognises <- MCRecognises
  Probing = {1, 2}
  CacheLimit = 2
  Offered = {"Static"}
  Reentrant = TRUE
  Fallback = Fallback
  Leased = Leased
  MaxDepth = 2
  MaxRequest = 1
  MaxAge = 1
  Orphans = {}
  None = None
