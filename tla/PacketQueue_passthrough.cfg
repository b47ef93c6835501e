SPECIFICATION Spec
CONSTANTS
  e1 = e1
  e2 = e2
  Events = {e1, e2}
  Settings <- MC_Passthrough
  Decoding = FALSE
  Cameras = {1}
  MaxPackets = 6
SYMMETRY MC_Symmetry
INVARIANTS
  TypeOK
  CountsExact
  
  FrontIsKeyframe
  ErasedPacketIsBehindFront
  ReadersKeepDecodedData
  ReleaseKeepsEventStart
  OverLimitIsOneInterval
PROPERTIES
  DecodedDataBounded
