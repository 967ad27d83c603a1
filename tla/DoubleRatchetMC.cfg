\* Four messages each way, gaps of at most two: longer ones are refused.
CONSTANTS
  Initiator = alice
  Responder = bob
  Null = Null
  MaxSkip = 2
  MaxMessages = 4
  Damage <- MCDamage
SPECIFICATION Spec
INVARIANTS
  EndsInStep
  FirstReceiptOpens
  SkippedKeysAwaited
  KeysUsedOnce
  ForwardSecrecy
PROPERTIES
  KeepsChannelPromise
