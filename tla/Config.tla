------------------------------- MODULE Config -------------------------------
(***************************************************************************)
(* config.json: what Validate accepts, how Load migrates a file of an      *)
(* earlier version, what the proximity state is given of a configuration   *)
(* (settingsFor), and the thresholds a calibration proposes.               *)
(*                                                                         *)
(* A file is a function from the fields it has to their values; a field it *)
(* lacks is read as zero.  One field stands for several that are treated   *)
(* alike: window for the four times (in seconds), autoLock for the fields  *)
(* the proximity state does not see.  Identifiers and keys are left out.   *)
(***************************************************************************)
EXTENDS Integers

CurrentVersion == 4

Fields ==
  {"version", "mode", "autoLock", "highSensitivity", "dopplerPrediction", "sensitivity",
   "immediateUnlock", "failureCooldown", "credentialValid", "unlockRSSI", "lockRSSI",
   "highRSSI", "window"}

Default ==
  [version |-> CurrentVersion, mode |-> "strict", autoLock |-> TRUE,
   highSensitivity |-> FALSE, dopplerPrediction |-> FALSE, sensitivity |-> 60,
   immediateUnlock |-> FALSE, failureCooldown |-> TRUE, credentialValid |-> FALSE,
   unlockRSSI |-> -65, lockRSSI |-> -80, highRSSI |-> -55, window |-> 20]

(* What encoding/json leaves in a field the file does not have. *)
Zero ==
  [version |-> 0, mode |-> "", autoLock |-> FALSE, highSensitivity |-> FALSE,
   dopplerPrediction |-> FALSE, sensitivity |-> 0, immediateUnlock |-> FALSE,
   failureCooldown |-> FALSE, credentialValid |-> FALSE, unlockRSSI |-> 0,
   lockRSSI |-> 0, highRSSI |-> 0, window |-> 0]

ValidThresholds(unlock, lock) ==
  /\ unlock \in -90 .. -20
  /\ lock \in -120 .. -28
  /\ unlock - lock >= 8

Validates(c) ==
  /\ c.version = CurrentVersion
  /\ c.mode \in {"strict", "convenience"}
  /\ ValidThresholds(c.unlockRSSI, c.lockRSSI)
  /\ c.highRSSI \in -90 .. -20
  /\ c.sensitivity \in 1 .. 100
  /\ c.window >= 5

-----------------------------------------------------------------------------
(* Load                                                                    *)

Read(data) == [f \in Fields |-> IF f \in DOMAIN data THEN data[f] ELSE Zero[f]]

(* The default takes the place of a zero. *)
Given(c, f) == IF c[f] = Zero[f] THEN Default[f] ELSE c[f]

(* The default takes the place of a field that is not there. *)
PresentOr(data, f) == IF f \in DOMAIN data THEN data[f] ELSE Default[f]

HighOrUnlock(c) ==
  CASE c.highRSSI # 0 -> c.highRSSI
    [] c.highRSSI = 0 /\ c.unlockRSSI # 0 -> c.unlockRSSI
    [] OTHER -> Default.highRSSI

MigrateV0(data) ==
  LET c == Read(data)
      unlock == Given(c, "unlockRSSI")
  IN [c EXCEPT !.version = CurrentVersion, !.mode = Given(c, "mode"),
               !.autoLock = PresentOr(data, "autoLock"),
               !.failureCooldown = PresentOr(data, "failureCooldown"),
               !.unlockRSSI = unlock, !.lockRSSI = Given(c, "lockRSSI"),
               !.highRSSI = HighOrUnlock([c EXCEPT !.unlockRSSI = unlock]),
               !.sensitivity = Given(c, "sensitivity"), !.window = Given(c, "window")]

MigrateV1(data) ==
  LET c == Read(data) IN
    [c EXCEPT !.version = CurrentVersion,
              !.failureCooldown = PresentOr(data, "failureCooldown"),
              !.highRSSI = HighOrUnlock(c), !.sensitivity = Given(c, "sensitivity")]

(* The lock line of the high-sensitivity profile is kept where it was, if  *)
(* the line above it may be chosen.                                        *)
MayBeHigh(candidate) == candidate \in -90 .. -20

MigrateV2(data) ==
  LET c == Read(data)
      candidate == c.lockRSSI + 8
      high == IF c.highRSSI = 0 /\ c.lockRSSI # 0 /\ MayBeHigh(candidate)
                THEN candidate ELSE HighOrUnlock(c)
  IN [c EXCEPT !.version = CurrentVersion, !.highRSSI = high,
               !.sensitivity = Given(c, "sensitivity")]

MigrateV3(data) ==
  LET c == Read(data) IN
    [c EXCEPT !.version = CurrentVersion, !.sensitivity = Given(c, "sensitivity")]

Loaded(data) ==
  LET version == Read(data).version IN
    CASE version = 0 -> MigrateV0(data)
      [] version = 1 -> MigrateV1(data)
      [] version = 2 -> MigrateV2(data)
      [] version = 3 -> MigrateV3(data)
      [] OTHER -> Read(data)

Loads(data) == Validates(Loaded(data))

-----------------------------------------------------------------------------
(* What the proximity state is given                                       *)

(* Mutant: the profile keeps the ordinary lock line. *)
LockLineOrdinary(c) == c.lockRSSI
LockLine(c) == IF c.highSensitivity THEN c.highRSSI - 8 ELSE c.lockRSSI

SettingsFor(c) ==
  LET high == c.highSensitivity IN
    [highSensitivity |-> high,
     unlockRSSI |-> IF high THEN c.highRSSI ELSE c.unlockRSSI,
     lockRSSI |-> LockLine(c),
     lockWindow |-> IF high THEN 10 ELSE c.window,
     proofTimeout |-> IF high \/ c.dopplerPrediction THEN 10 ELSE c.window,
     dopplerPrediction |-> c.dopplerPrediction, sensitivity |-> c.sensitivity,
     immediateUnlock |-> c.immediateUnlock, failureCooldown |-> c.failureCooldown]

-----------------------------------------------------------------------------
(* Calibration                                                             *)

Clamp(value, minimum, maximum) ==
  IF value < minimum THEN minimum ELSE IF value > maximum THEN maximum ELSE value

CalibratedUnlock(near) == Clamp(near - 2, -90, -35)

(* Mutant: no distance is kept to the unlock line. *)
CalibratedLockClose(near, far) == Clamp(far + 2, -110, CalibratedUnlock(near))
CalibratedLock(near, far) == Clamp(far + 2, -110, CalibratedUnlock(near) - 8)

Calibrated(near, far) ==
  [unlockRSSI |-> CalibratedUnlock(near), lockRSSI |-> CalibratedLock(near, far)]

=============================================================================
