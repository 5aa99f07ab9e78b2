SPECIFICATION Spec
PROPERTY DemandKept
CONSTANTS
  Tokens = {t1}
  Handles = {h1}
  LoaderCount = 1
  Capacity = 1
  Recognises <- MCRecognises
  Probing = {1}
  CacheLimit = 2
  Offered = {}
  Reentrant = TRUE
  Fallback = Fallback
  Leased = Leased
  MaxDepth = 2
  MaxRequest = 2
  MaxAge = 0
  Orphans = {}
  None = None
