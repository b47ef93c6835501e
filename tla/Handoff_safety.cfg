\* A queue of two packets that overflows, two events, three packets in the codec
SPECIFICATION Spec
CONSTANTS
  e1 = e1
  e2 = e2
  Events = {e1, e2}
  Limit = 2
  Pre = 1
  DecoderQueueLimit = 2
SYMMETRY MC_Symmetry
INVARIANTS
  TypeOK
  
  
  NobodySleepsThroughStop
PROPERTY
  ImplementsRecordingLog
