SPECIFICATION Spec
CONSTANTS
  RING_SIZE = 2
  IdxMod = 4
  MaxPackets = 2
  MaxConfigs = 0
INVARIANT AllProcessed
