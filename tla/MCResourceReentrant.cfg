SPECIFICATION Spec
INVARIANT TypeOK
INVARIANT WakeUpsKept
INVARIANT HandlesCurrent
INVARIANT RequestsServed
PROPERTY NoStaleValue
CONSTANTS
  Tokens = {t1, t2}
  Handles = {h1, h2}
  LoaderCount = 1
  Capacity = 1
  Recognises <- MCRecognises
  Probing = {}
  CacheLimit = 1
  Offered = {"Static", "Factory", None}
  Reentrant = TRUE
  Fallback = Fallback
  Leased = Leased
  MaxDepth = 2
  MaxRequest = 3
  MaxAge = 1
  Orphans = {}
  None = None
