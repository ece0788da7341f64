SPECIFICATION NecSpec
CONSTANTS
  ByteBits = 1
  Messages <- MCMessages
  Misreads <- MCMisreads
  Capacity = 1
  MaxFrames = 2
  MaxSpoils = 1
INVARIANTS DecoderInv DataIntact
PROPERTY BackToHead
CHECK_DEADLOCK FALSE
