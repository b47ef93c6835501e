SPECIFICATION Spec
CONSTANTS
  pre_event_count = 1
  alarm_frame_count = 1
  post_event_count = 1
  MinSection = 1
  section_length = 2
  Recording = "always"
  CloseModes = {"alarm", "time", "idle", "duration"}
  Analysing = TRUE
  Environment = {"fail", "reload"}
  MaxLag = 3
INVARIANTS
  AlarmIsRecorded
