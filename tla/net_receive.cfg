SPECIFICATION FairSpec
CONSTANTS
  RING_SIZE = 2
  IdxMod = 4
  MaxPackets = 5
  MaxConfigs = 1
INVARIANTS TypeOK OneOwner ArrivalOrder WakeupsPaidFor
PROPERTIES Announced
