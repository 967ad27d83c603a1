\* Two scans of two nodes, of good codes and others; they may overlap.
CONSTANTS
  n1 = n1  n2 = n2
  i1 = i1  i2 = i2  i3 = i3
  s1 = s1  s2 = s2  s3 = s3
  Attempts = {a1, a2}
  Nodes = {n1, n2}
  Identities = {i1, i2, i3}
  Codes <- AllCodes
  Keys <- MCKeys
  MessageChunks <- MCChunks
  MaxCalls = 2
  Garbled = Garbled
  Null = Null
SPECIFICATION Spec
INVARIANTS
  TypeOK
  VerifiedBySession
  PeersApart
  ActiveIsRunning
PROPERTIES
  EarnedByRunningCall
  CallsReturn
CHECK_DEADLOCK FALSE
