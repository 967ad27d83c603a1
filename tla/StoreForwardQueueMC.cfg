\* Four messages for three places, two per neighbour: both limits bite.
CONSTANTS
  m1 = m1
  m2 = m2
  m3 = m3
  m4 = m4
  Senders = {n1, n2}
  MaxPerNeighbor = 2
  MaxTotal = 3
  MaxAge = 2
  Skew = 1
  PurgeAges = {0, 2}
  Horizon = 5
  Envelopes <- MCEnvelopes
SPECIFICATION Spec
INVARIANTS
  TypeOK
  CountersExact
  WithinLimits
PROPERTIES
  HeldUntilReleased
  RefusedOnlyByLiveMessages
