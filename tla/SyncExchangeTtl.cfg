\* The same exchange: does the hop it makes cost a hop?
CONSTANTS
  a = a
  b = b
  elsewhere = elsewhere
  e1 = e1
  e2 = e2
  e3 = e3
  c = c
  Nodes <- MCNodes
  Senders <- MCSenders
  Envelopes <- MCEnvelopes
  MaxPerNeighbor = 1
  MaxTotal = 2
  MaxAge = 2
  Skew = 1
  Sessions = 2
  MaxEntries = 2
  MaxTransfer = 2
  MaxSeen = 1
  ReplayTtl = 1
  ReplayPurges <- MCReplayPurges
  MaxPackets = 4
  MaxTimes = 2
  Arrivals <- MCArrivals
  Syncs <- MCSyncs
  Horizon = 2
SPECIFICATION Spec
CHECK_DEADLOCK FALSE
PROPERTY
  SyncTakesHop
