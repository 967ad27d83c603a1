\* A diamond with one message, one acknowledgement and no time passing; a may
\* lose b, and no hop is chosen among equals.
CONSTANTS
  a = a
  b = b
  c = c
  d = d
  m1 = m1
  Null = Null
  Nodes = {a, b, c, d}
  Externals = {}
  Keys = {a, b, c, d}
  Neighbours = {a, b, c, d}
  Senders <- MCSenders
  KeysOf <- MCKeysOf
  Messages <- MCMessages
  Injected = {}
  Advertisements <- MCAdvertisements
  MaxPerNeighbor = 1
  MaxTotal = 2
  MaxAge = 1
  Skew = 1
  Probation = 1
  AckTimeout = 1
  ValidationTtl = 2
  MaxPendingAcks = 2
  AdMaxAge = 1
  AdPurgeAges = {1}
  AdSkew = 1
  MaxSeenAds = 3
  DefaultTtl = 2
  MaxAcks = 1
  MaxTrust = 1
  Horizon = 0
SPECIFICATION MCPathSpec
VIEW WithoutLastStep
PROPERTY
  RelayPathProven
