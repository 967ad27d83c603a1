\* One node, two neighbours, two messages for a destination behind both; two
\* ticks, each of which outlasts a probation and an acknowledgement timeout.
\* Room for one awaited acknowledgement and one remembered advertisement: every
\* further one evicts.
CONSTANTS
  a = a
  b = b
  c = c
  d = d
  m1 = m1
  m2 = m2
  k1 = k1
  k2 = k2
  Null = Null
  Nodes = {a}
  Externals = {b, c}
  Keys = {a, b, c, d}
  Neighbours <- MCNeighbours
  Senders <- MCSenders
  KeysOf <- MCKeysOf
  Messages <- MCMessages
  Injected <- MCInjected
  Advertisements <- MCAdvertisements
  MaxPerNeighbor = 1
  MaxTotal = 2
  MaxAge = 1
  Skew = 1
  Probation = 1
  AckTimeout = 1
  ValidationTtl = 2
  MaxPendingAcks = 1
  AdMaxAge = 1
  AdPurgeAges = {0, 1}
  AdSkew = 1
  MaxSeenAds = 1
  DefaultTtl = 2
  MaxAcks = 1
  MaxTrust = 1
  Horizon = 2
SPECIFICATION Spec
VIEW WithoutLastStep
INVARIANTS
  TypeOK
  QueuesSound
  ProbationIsUnbound
  TablesBounded
PROPERTIES
  CreditIsEarned
  SilentHopAvoided
  QueueKeepsUnsent
  AdvertisementDoesNotDivert
