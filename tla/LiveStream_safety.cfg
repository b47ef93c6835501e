\* Two processes that die or are slow, two reconnections; no request is lost
SPECIFICATION Spec
CONSTANTS
  Keys = {1, 2}
  Rates = {1}
  MAX_AUTH_REFRESH_ATTEMPTS = 2
  MaxQueue = 3
  MaxFaults = 2
  FaultKinds = {"dies", "slow", "busy"}
INVARIANTS
  TypeOK
  PollsOnlyWhileStarted
  QuitOnItsWay
  StartedMeansPlaying
PROPERTY
  HealthyStreamIsKept
