CONSTANTS
  Poll <- PollTicks
  Delay <- DelayTicks
  CallTime = 1
  Grace = 2
  PauseLife = 2
  MaxNotices = 1
  Requests = {"autoLock", "fast", "pause", "resume"}
SPECIFICATION Spec
INVARIANTS
  TypeOK
  DueIsLocked
  FailSafeLocks
PROPERTIES
  PauseHolds
  FreshUnlockStays
