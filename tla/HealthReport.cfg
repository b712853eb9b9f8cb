SPECIFICATION Spec
CONSTANTS
  Configs <- SomeConfigs
  MaxInstalls = 2
  MaxSessions = 2
  MaxFailed = 3
INVARIANTS OneMonitor
PROPERTIES UnhealthyEarned UpShown DownShown
CHECK_DEADLOCK FALSE
