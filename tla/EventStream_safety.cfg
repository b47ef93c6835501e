\* Two connkeys and two events; two failures are enough to give a stream up
SPECIFICATION Spec
CONSTANTS
  Keys = {1, 2}
  Events = {1, 2}
  Rates = {1}
  maxRecoveryAttempts = 1
  MaxQueue = 2
  MaxFaults = 2
  FaultKinds = {"dies", "slow", "busy", "transient", "failed"}
INVARIANTS
  TypeOK
  OneStream
  QuitOnItsWay
PROPERTIES
  HealthyStreamIsKept
  FailuresAreOfThisStream
