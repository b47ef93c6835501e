SPECIFICATION FairSpec
CONSTANTS
  pre_event_count = 1
  alarm_frame_count = 2
  post_event_count = 1
  MinSection = 1
  section_length = 2
  Recording = "onmotion"
  CloseModes = {"idle"}
  Analysing = TRUE
  Environment = {"fail", "ondemand", "suspend"}
  MaxLag = 1
PROPERTIES
  AlarmEnds
  EventEnds
