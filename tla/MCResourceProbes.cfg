SPECIFICATION FairSpec
PROPERTY LoadsFinish
INVARIANT RetiredByNextPoll
INVARIANT MetaCurrent
PROPERTY DemandKept
CONSTANTS
  Tokens = {t1}
  Handles = {h1}
  LoaderCount = 2
  Capacity = 1
  Recognises <- MCRecognises
  Probing = {1, 2}
  CacheLimit = 2
  Offered = {"Static", "Factory", None}
  Reentrant = FALSE
  Fallback = Fallback
  Leased = Leased
  MaxDepth = 2
  MaxRequest = 3
  MaxAge = 2
  Orphans = {}
  None = None
