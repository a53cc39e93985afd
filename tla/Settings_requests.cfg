CONSTANTS
  Callers = {c1, c2}
  MaxBusy = 2
  Changes <- SomeChanges
  OldLines <- SomeLines
  Levels <- SomeLevels
SPECIFICATION Spec
SYMMETRY CallerSymmetry
INVARIANTS
  StartsAgain
  HysteresisHolds
  SettingsFollow
  CalibrationIsAccepted
