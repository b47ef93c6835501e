\* A page at 2x whose timeline is dragged
SPECIFICATION Spec
CONSTANTS
  Keys = {1, 2, 3}
  Events = {1, 2}
  Rates = {1, 2}
  maxRecoveryAttempts = 1
  MaxQueue = 2
  MaxFaults = 0
  FaultKinds = {"dies", "slow", "busy", "transient", "failed"}
INVARIANT
  RunningAtTheRightRate
