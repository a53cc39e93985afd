---------------------------- MODULE MCSettings ----------------------------
(* An instance of Settings: an old file whose lock line is too low for a   *)
(* high-sensitivity line above it, and requests that turn the profile on   *)
(* and off, calibrate, and ask for lines that are refused.                 *)
EXTENDS Settings, TLC

CallerSymmetry == Permutations(Callers)

SomeLines == {[unlock |-> -60, lock |-> -99]}
SomeLevels == {-120, -99, -61, -37, -20}

SomeChanges ==
  {"highSensitivity" :> TRUE, "highSensitivity" :> FALSE,
   "immediateUnlock" :> TRUE,
   Calibrated(-30, -45), [unlockRSSI |-> -70, lockRSSI |-> -75]}
=============================================================================
