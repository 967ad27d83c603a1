\* Two broadcasts of a; the clock outlasts a rate window and a header's age.
CONSTANTS
  a = a
  b = b
  c = c
  Nodes = {a, b, c}
  Links <- MCLinks
  Calls <- MCCalls
  Budget = 1
  Window = 1
  MaxAge = 2
  Skew = 1
  PurgeAges = {1}
  MaxTold = 2
  Horizon = 3
SPECIFICATION Spec
INVARIANTS
  WindowsSound
  ToldOnce
  TtlBoundsReach
  FloodComplete
