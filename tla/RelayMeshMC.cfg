\* A chain a - b - d whose middle has a detour back to a; no time passes.
CONSTANTS
  a = a
  b = b
  c = c
  d = d
  m1 = m1
  Null = Null
  Nodes = {a, b, d}
  Externals = {}
  Keys = {a, b, c, d}
  Neighbours = {a, b, d}
  Senders <- MCSenders
  KeysOf <- MCKeysOf
  Messages <- MCMessages
  Injected = {}
  Advertisements <- MCAdvertisements
  MaxPerNeighbor = 1
  MaxTotal = 2
  MaxAge = 1
  Skew = 1
  Probation = 1
  AckTimeout = 1
  ValidationTtl = 2
  MaxPendingAcks = 2
  AdMaxAge = 1
  AdPurgeAges = {1}
  AdSkew = 1
  MaxSeenAds = 3
  DefaultTtl = 2
  MaxAcks = 1
  MaxTrust = 1
  Horizon = 0
SPECIFICATION MCSpec
VIEW WithoutLastStep
INVARIANTS
  LoopsDieOut
