SPECIFICATION Spec
CONSTANTS
  e1 = e1
  e2 = e2
  Events = {e1}
  Settings <- MC_Reload
  Decoding = TRUE
  Cameras = {1, 2}
  MaxPackets = 4
INVARIANTS
  FrontIsKeyframe
  ReadersKeepDecodedData
  
PROPERTIES
  
  TrimLeavesWindow
