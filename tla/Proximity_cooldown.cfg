CONSTANTS
  Profiles <- CooldownModes
  MaxSamples = 1
  FailureLimit = 3
  FailureWindow = 2
  FailureCooldown = 3
  ResumeUnlockWindow = 0
  TimeCap = 3
  Methods = {"attempt", "failure", "lock", "settings", "reset"}
SPECIFICATION Spec
INVARIANTS
  TypeOK
  CooldownIsEarned
