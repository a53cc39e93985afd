---------------------------- MODULE MCProximity ----------------------------
(***************************************************************************)
(* Settings for TLC, after settingsFor with a tick of about ten seconds:   *)
(* normal mode (windows of 3, 20, 20 and 10 s), high sensitivity (1.5, 10, *)
(* 10 and 2 s) and prediction (a proof timeout of 10 s).                   *)
(***************************************************************************)
EXTENDS Proximity

Normal ==
  [highSensitivity |-> FALSE, dopplerPrediction |-> FALSE, immediateUnlock |-> FALSE,
   failureCooldownOn |-> TRUE, unlockWindow |-> 0, lockWindow |-> 2,
   proofTimeout |-> 2, manualHoldAway |-> 2, requiredNearSamples |-> 2]
Sensitive ==
  [Normal EXCEPT !.highSensitivity = TRUE, !.lockWindow = 1, !.proofTimeout = 1,
                 !.manualHoldAway = 1, !.requiredNearSamples = 1]
Predicting == [Normal EXCEPT !.dopplerPrediction = TRUE, !.proofTimeout = 1]
NoCooldown == [Normal EXCEPT !.failureCooldownOn = FALSE]

AllModes == {Normal, Sensitive, Predicting}
CooldownModes == {Normal, NoCooldown}

=============================================================================
