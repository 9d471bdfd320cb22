SPECIFICATION FairSpec
CONSTANTS
  RING_SIZE = 2
  IdxMod = 4
  Layouts = {"struct", "commented"}
  Devices = {"lenient", "strict", "legacy"}
  MaxFrames = 4
INVARIANTS TypeOK HandshakeSuffices InOrderUnlessLapped 
PROPERTY FramesGoOut
CHECK_DEADLOCK FALSE
