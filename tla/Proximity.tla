----------------------------- MODULE Proximity -----------------------------
(***************************************************************************)
(* The proximity state of internal/proximity/state.go: the evidence kept   *)
(* about the phone (signal samples, proofs, failures), and the decisions   *)
(* made from it (may a challenge start, should the desktop be locked).     *)
(* Every method of the Go type runs under its mutex: one action each.      *)
(*                                                                         *)
(* Times are kept as ages.  x.IsZero() is x = Never, now.Sub(x) >= d is    *)
(* Passed(x, d), and a deadline is the time left until it.  Signal strength*)
(* is kept as what the thresholds make of it: "near" (at or above          *)
(* UnlockRSSI), "low" (at or below LockRSSI), "mid" (between them).        *)
(***************************************************************************)
EXTENDS Integers, Sequences, FiniteSets

CONSTANTS
  Profiles,           \* the Settings the instance uses, records of SettingsType
  MaxSamples,         \* samples kept
  FailureLimit,       \* security failures that start a cooldown,
  FailureWindow,      \*   made within this time,
  FailureCooldown,    \*   and how long it lasts
  ResumeUnlockWindow, \* how long after a resume one near sample is enough
  TimeCap,            \* where ages stop growing: past every limit
  Methods             \* the methods used in the instance, see AllMethods

AllMethods == {"observe", "attempt", "failure", "lock", "resume", "settings", "grace",
               "immediate", "reset"}

Never == -1
Times == Never .. TimeCap
Levels == {"near", "mid", "low"}

SettingsType ==
  [highSensitivity : BOOLEAN, dopplerPrediction : BOOLEAN, immediateUnlock : BOOLEAN,
   failureCooldownOn : BOOLEAN, unlockWindow : Nat, lockWindow : Nat,
   proofTimeout : Nat, manualHoldAway : Nat, requiredNearSamples : Nat]

ASSUME ProfilesAreSettings ==
  \A s \in Profiles :
    s \in SettingsType /\ s.lockWindow <= TimeCap /\ s.proofTimeout <= TimeCap
                       /\ s.manualHoldAway <= TimeCap /\ s.unlockWindow < TimeCap
ASSUME SizesAreNats ==
  /\ MaxSamples \in Nat \ {0} /\ FailureLimit \in Nat \ {0}
  /\ FailureWindow \in Nat \ {0} /\ FailureCooldown \in Nat
  /\ FailureWindow <= FailureCooldown /\ FailureWindow <= TimeCap
  /\ ResumeUnlockWindow \in Nat /\ TimeCap \in Nat
ASSUME MethodsAreKnown == Methods \subseteq AllMethods

VARIABLES
  settings, samples, locked, manualHold, awaySince, lastSeen, lowSince, lastProof,
  authFailureSince, unlockedAt, resumeLeft, failures, cooldownLeft,
  lastNear,    \* not in the code: time since the last near sample, Never if none
  strikes      \* not in the code: security failures since the last proof or reset

timers == <<awaySince, lastSeen, lowSince>>
proofs == <<lastProof, authFailureSince, unlockedAt>>
cooling == <<failures, cooldownLeft>>
lock == <<locked, manualHold>>
ghosts == <<lastNear, strikes>>
vars == <<settings, samples, lock, timers, proofs, resumeLeft, cooling, ghosts>>

Samples == [level : Levels, age : 0 .. TimeCap]

TypeOK ==
  /\ settings \in SettingsType
  /\ samples \in Seq(Samples) /\ Len(samples) <= MaxSamples
  /\ locked \in BOOLEAN /\ manualHold \in BOOLEAN
  /\ awaySince \in Times /\ lastSeen \in Times /\ lowSince \in Times
  /\ lastProof \in Times /\ authFailureSince \in Times /\ unlockedAt \in Times
  /\ resumeLeft \in 0 .. ResumeUnlockWindow
  /\ failures \in Seq(0 .. TimeCap) /\ Len(failures) <= FailureLimit
  /\ cooldownLeft \in 0 .. FailureCooldown
  /\ lastNear \in Times /\ strikes \in 0 .. FailureLimit

Init ==
  /\ settings \in Profiles
  /\ samples = <<>> /\ locked = FALSE /\ manualHold = FALSE
  /\ awaySince = Never /\ lastSeen = Never /\ lowSince = Never
  /\ lastProof = Never /\ authFailureSince = Never /\ unlockedAt = Never
  /\ resumeLeft = 0 /\ failures = <<>> /\ cooldownLeft = 0
  /\ lastNear = Never /\ strikes = 0

-----------------------------------------------------------------------------
(* What the evidence says                                                  *)

Passed(since, time) == since # Never /\ since >= time
Start(since) == IF since = Never THEN 0 ELSE since

Fresh(window) == {i \in DOMAIN samples : samples[i].age <= window}
NearOf(indices) == {i \in indices : samples[i].level = "near"}

(* medianLocked is at or above UnlockRSSI: sorted, the middle one is near. *)
MedianNear ==
  LET recent == Fresh(settings.proofTimeout) IN
    /\ recent # {}
    /\ Cardinality(recent \ NearOf(recent)) <= Cardinality(recent) \div 2

(* nearLocked: with high sensitivity the latest sample decides alone. *)
NearBySignal ==
  IF settings.highSensitivity
    THEN /\ samples # <<>>
         /\ Len(samples) \in NearOf(Fresh(settings.unlockWindow))
    ELSE MedianNear

HasNearSamples ==
  Cardinality(NearOf(Fresh(settings.unlockWindow))) >= settings.requiredNearSamples

CanAuthenticate == settings.failureCooldownOn => cooldownLeft = 0

(* predicted is the answer of predictionLocked. *)
ShouldAttemptUnlock(predicted) ==
  /\ locked /\ ~manualHold /\ CanAuthenticate
  /\ \/ NearBySignal /\ HasNearSamples
     \/ settings.dopplerPrediction /\ predicted
     \/ NearBySignal /\ resumeLeft > 0

FastRelock == settings.highSensitivity \/ settings.dopplerPrediction

ProofMissing ==
  IF FastRelock /\ authFailureSince # Never
    THEN Passed(authFailureSince, settings.proofTimeout)
    ELSE /\ unlockedAt = Never \/ Passed(unlockedAt, settings.proofTimeout)
         /\ lastProof = Never \/ Passed(lastProof, settings.proofTimeout)

ShouldAutoLock == ~locked /\ (ProofMissing \/ Passed(lowSince, settings.lockWindow))

-----------------------------------------------------------------------------
(* The methods                                                             *)

(* Mutants: a near sample does not end the absence; each low sample starts *)
(* the low time again.                                                     *)
AwayAfterKept(level) == IF level = "near" THEN awaySince ELSE Start(awaySince)
LowAfterRestarted(level) == IF level = "low" THEN 0 ELSE Never

AwayAfter(level) == IF level = "near" THEN Never ELSE Start(awaySince)
LowAfter(level) == IF level = "low" THEN Start(lowSince) ELSE Never

(* A manual hold ends when the phone was silent, or was seen away, for     *)
(* ManualHoldAway.                                                         *)
ObserveRSSI(level) ==
  /\ lastSeen' = 0
  /\ awaySince' = AwayAfter(level)
  /\ lowSince' = LowAfter(level)
  /\ samples' = Append(IF Len(samples) < MaxSamples THEN samples ELSE Tail(samples),
                       [level |-> level, age |-> 0])
  /\ manualHold' = /\ manualHold
                   /\ ~Passed(lastSeen, settings.manualHoldAway)
                   /\ ~Passed(AwayAfter(level), settings.manualHoldAway)
  /\ lastNear' = IF level = "near" THEN 0 ELSE lastNear
  /\ UNCHANGED <<settings, locked, proofs, resumeLeft, cooling, strikes>>

(* Mutants of RecordProof: the failure window stays open; the failures that *)
(* led to a cooldown are kept.                                              *)
RecordProofKeepsWindow ==
  /\ lastProof' = 0
  /\ failures' = <<>> /\ cooldownLeft' = 0 /\ strikes' = 0
  /\ UNCHANGED <<settings, samples, lock, timers, authFailureSince, unlockedAt,
                 resumeLeft, lastNear>>
RecordProofKeepsFailures ==
  /\ lastProof' = 0 /\ authFailureSince' = Never
  /\ cooldownLeft' = 0 /\ strikes' = 0
  /\ UNCHANGED <<settings, samples, lock, timers, failures, unlockedAt, resumeLeft,
                 lastNear>>

RecordProof ==
  /\ lastProof' = 0 /\ authFailureSince' = Never
  /\ failures' = <<>> /\ cooldownLeft' = 0 /\ strikes' = 0
  /\ UNCHANGED <<settings, samples, lock, timers, unlockedAt, resumeLeft, lastNear>>

RecordAttemptFailure ==
  /\ authFailureSince' = Start(authFailureSince)
  /\ UNCHANGED <<settings, samples, lock, timers, lastProof, unlockedAt, resumeLeft,
                 cooling, ghosts>>

(* A mutant: the cooldown comes one failure late.                          *)
EarnsCooldownLate(recent) == Len(recent) > FailureLimit

EarnsCooldown(recent) == Len(recent) >= FailureLimit

(* The loop keeps the failures in the window; they are in the order they   *)
(* were made, so these are all but the Outdated(failures) first ones.      *)
Outdated(ages) == Cardinality({i \in DOMAIN ages : ages[i] >= FailureWindow})
Recent(ages) == SubSeq(ages, Outdated(ages) + 1, Len(ages))

RecordFailure ==
  LET recent == Append(Recent(failures), 0)
  IN /\ IF settings.failureCooldownOn
          THEN /\ failures' = recent
               /\ cooldownLeft' = IF EarnsCooldown(recent) THEN FailureCooldown
                                                           ELSE cooldownLeft
               /\ strikes' = IF strikes < FailureLimit THEN strikes + 1 ELSE strikes
          ELSE failures' = <<>> /\ cooldownLeft' = 0 /\ strikes' = 0
     /\ UNCHANGED <<settings, samples, lock, timers, proofs, resumeLeft, lastNear>>

OnLock ==
  /\ locked' = TRUE
  /\ manualHold' = (~settings.immediateUnlock /\ NearBySignal)
  /\ UNCHANGED <<settings, samples, timers, proofs, resumeLeft, cooling, lastNear, strikes>>

OnUnlock ==
  /\ locked' = FALSE /\ manualHold' = FALSE
  /\ lowSince' = Never /\ authFailureSince' = Never
  /\ unlockedAt' = 0 /\ resumeLeft' = 0
  /\ UNCHANGED <<settings, samples, awaySince, lastSeen, lastProof, cooling, ghosts>>

OnResume ==
  /\ resumeLeft' = ResumeUnlockWindow /\ manualHold' = FALSE
  /\ UNCHANGED <<settings, samples, locked, timers, proofs, cooling, ghosts>>

UpdateSettings(new) ==
  /\ settings' = new
  /\ IF new.failureCooldownOn THEN UNCHANGED <<cooling, strikes>>
                              ELSE failures' = <<>> /\ cooldownLeft' = 0 /\ strikes' = 0
  /\ samples' = <<>>
  /\ awaySince' = Never /\ lowSince' = Never /\ authFailureSince' = Never
  /\ UNCHANGED <<lock, lastSeen, lastProof, unlockedAt, resumeLeft, lastNear>>

BeginProofGrace ==
  /\ unlockedAt' = IF locked THEN unlockedAt ELSE 0
  /\ UNCHANGED <<settings, samples, lock, timers, lastProof, authFailureSince,
                 resumeLeft, cooling, ghosts>>

SetImmediateUnlock(enabled) ==
  /\ settings' = [settings EXCEPT !.immediateUnlock = enabled]
  /\ manualHold' = (manualHold /\ ~enabled)
  /\ UNCHANGED <<samples, locked, timers, proofs, resumeLeft, cooling, ghosts>>

ResetDeviceEvidence ==
  /\ samples' = <<>> /\ manualHold' = FALSE
  /\ awaySince' = Never /\ lastSeen' = Never /\ lowSince' = Never
  /\ lastProof' = Never /\ authFailureSince' = Never
  /\ resumeLeft' = 0 /\ failures' = <<>> /\ cooldownLeft' = 0 /\ strikes' = 0
  /\ UNCHANGED <<settings, locked, unlockedAt, lastNear>>

-----------------------------------------------------------------------------
(* Time                                                                    *)

Older(since) == IF since = Never \/ since = TimeCap THEN since ELSE since + 1
Sooner(left) == IF left = 0 THEN 0 ELSE left - 1

Tick ==
  /\ samples' = [i \in DOMAIN samples |-> [samples[i] EXCEPT !.age = Older(@)]]
  /\ failures' = [i \in DOMAIN failures |-> Older(failures[i])]
  /\ awaySince' = Older(awaySince) /\ lastSeen' = Older(lastSeen)
  /\ lowSince' = Older(lowSince) /\ lastProof' = Older(lastProof)
  /\ authFailureSince' = Older(authFailureSince) /\ unlockedAt' = Older(unlockedAt)
  /\ resumeLeft' = Sooner(resumeLeft) /\ cooldownLeft' = Sooner(cooldownLeft)
  /\ lastNear' = Older(lastNear)
  /\ UNCHANGED <<settings, lock, strikes>>

(* The coordinator may call the methods in any order; OnResume only while  *)
(* locked, and RecordFailure only out of a cooldown: it is about the one   *)
(* challenge in flight, and none is started in a cooldown.  Immediate      *)
(* unlocking is switched by its own method.                                *)
Next ==
  \/ "observe" \in Methods /\ \E level \in Levels : ObserveRSSI(level)
  \/ RecordProof
  \/ "attempt" \in Methods /\ RecordAttemptFailure
  \/ "failure" \in Methods /\ CanAuthenticate /\ RecordFailure
  \/ "lock" \in Methods /\ OnLock
  \/ "lock" \in Methods /\ OnUnlock
  \/ "resume" \in Methods /\ locked /\ OnResume
  \/ "settings" \in Methods /\ \E new \in Profiles :
       new.immediateUnlock = settings.immediateUnlock /\ UpdateSettings(new)
  \/ "grace" \in Methods /\ BeginProofGrace
  \/ "immediate" \in Methods /\ \E enabled \in BOOLEAN : SetImmediateUnlock(enabled)
  \/ "reset" \in Methods /\ ResetDeviceEvidence
  \/ Tick

Spec == Init /\ [][Next]_vars

-----------------------------------------------------------------------------
(* Properties                                                              *)

(***************************************************************************)
(* A desktop whose phone has proved itself within ProofTimeout, and has    *)
(* not just sent a weak signal for LockWindow, is not locked: no failure   *)
(* from before the proof counts against it, whatever the mode              *)
(* (ShouldAutoLock, RecordProof).                                          *)
(***************************************************************************)
ProofProtects ==
  lastProof # Never /\ ~Passed(lastProof, settings.proofTimeout) /\ lowSince = Never
    => ~ShouldAutoLock

(***************************************************************************)
(* A manual hold ends by an advertisement only when the phone has given    *)
(* no near sample for ManualHoldAway before it, whether it was silent or   *)
(* far, and whatever thresholds changed meanwhile (ObserveRSSI).           *)
(***************************************************************************)
HoldNeedsAbsence ==
  [][manualHold /\ ~manualHold' /\ (\E level \in Levels : ObserveRSSI(level))
       => lastNear = Never \/ Passed(lastNear, settings.manualHoldAway)]_vars

(***************************************************************************)
(* A lock that is due stays due until something speaks for the phone or    *)
(* about the desktop: a proof, a signal above the lock threshold, a first  *)
(* failed attempt of a fast mode, a lock or unlock, new settings.  A phone *)
(* that only grows weaker, or time, never takes it back.                   *)
(***************************************************************************)
DueStaysDue ==
  [][ShouldAutoLock /\ ~ShouldAutoLock'
       => \/ lastProof' = 0 \/ lastProof' = Never
          \/ lastSeen' = 0 /\ lowSince' = Never
          \/ authFailureSince = Never /\ authFailureSince' = 0
          \/ locked' \/ unlockedAt' = 0
          \/ settings' # settings \/ samples' = <<>>]_vars

(***************************************************************************)
(* A cooldown is earned by FailureLimit security failures that no proof    *)
(* and no reset came between: what failed before is forgotten for good     *)
(* (RecordFailure, RecordProof, UpdateSettings, ResetDeviceEvidence).      *)
(***************************************************************************)
CooldownIsEarned == cooldownLeft > 0 => strikes = FailureLimit

=============================================================================
