SPECIFICATION Spec
CONSTANTS
  Keys = {1, 2, 3}
  Rates = {1}
  MAX_AUTH_REFRESH_ATTEMPTS = 1
  MaxQueue = 2
  MaxFaults = 1
  FaultKinds = {"dies", "slow", "busy"}
INVARIANT
  PageIsNoImage
