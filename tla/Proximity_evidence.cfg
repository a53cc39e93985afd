CONSTANTS
  Profiles <- AllModes
  MaxSamples = 2
  FailureLimit = 2
  FailureWindow = 1
  FailureCooldown = 1
  ResumeUnlockWindow = 1
  TimeCap = 3
  Methods = {"observe", "attempt", "lock", "resume", "settings", "grace", "immediate", "reset"}
SPECIFICATION Spec
INVARIANTS
  ProofProtects
PROPERTIES
  HoldNeedsAbsence
  DueStaysDue
