SPECIFICATION Spec
CONSTANTS
  RING_SIZE = 2
  IdxMod = 4
  MaxPackets = 1
  MaxConfigs = 0
INVARIANT NoNullCall
