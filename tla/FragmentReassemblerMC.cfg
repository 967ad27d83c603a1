\* Four messages of one or two fragments, two peers: both quotas and both totals
\* bite, and sets outlive their age.
CONSTANTS
  p = p
  q = q
  m1 = m1
  m2 = m2
  m3 = m3
  m4 = m4
  Unknown = unknown
  Peers = {p, q}
  MessageIds = {m1, m2, m3, m4}
  Sizes = {1, 2}
  Counts = {1, 2}
  MaxSets = 3
  MaxBytes = 4
  MaxSetsPerPeer = 2
  MaxBytesPerPeer = 3
  MaxAge = 1
  PurgeAges = {0}
  Horizon = 2
SPECIFICATION Spec
SYMMETRY Alike
INVARIANTS
  AccountsSound
  AssembledWhole
PROPERTIES
  KeptUntilWhole
  EmptySetOnlyWhenFull
