SPECIFICATION Spec
CONSTANTS
  pre_event_count = 1
  alarm_frame_count = 2
  post_event_count = 1
  MinSection = 1
  section_length = 2
  Recording = "none"
  CloseModes = {"idle"}
  Analysing = TRUE
  Environment = {"audio", "skip", "signal", "trigger", "suspend", "link", "ondemand"}
  MaxLag = 1
INVARIANTS
  TypeOK
  AlertCountdown
  PreAlarmCounts
  
