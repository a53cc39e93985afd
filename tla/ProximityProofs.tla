-------------------------- MODULE ProximityProofs --------------------------
(***************************************************************************)
(* Proofs about Proximity, for any settings and limits: a fresh proof      *)
(* protects the desktop, a manual hold needs an absence, a due lock stays  *)
(* due, a cooldown is earned, and every variable keeps its type.           *)
(*                                                                         *)
(* None of them is inductive.  What the first three rest on is the order   *)
(* in which the evidence was gathered (InOrder): a failure window never    *)
(* opened before the last proof, and no near sample came after the phone   *)
(* was last heard or since it is away.  The other two rest on what becomes *)
(* of the failures kept (Cooling): they are in order, no more than were    *)
(* made, and out of the window before a cooldown is over.                  *)
(***************************************************************************)
EXTENDS Proximity, FiniteSetTheorems, SequenceTheorems, TLAPS

TimesOK ==
  /\ settings \in SettingsType
  /\ awaySince \in Times /\ lastSeen \in Times /\ lowSince \in Times
  /\ lastProof \in Times /\ authFailureSince \in Times /\ unlockedAt \in Times
  /\ lastNear \in Times

(* x happened no earlier than y, where both did. *)
NoEarlier(x, y) == x = Never \/ y = Never \/ x <= y

InOrder ==
  /\ NoEarlier(authFailureSince, lastProof)
  /\ NoEarlier(lastSeen, lastNear)
  /\ NoEarlier(awaySince, lastNear)

Ordered == TimesOK /\ InOrder

(* Time passing keeps the order, and takes no event back. *)
LEMMA OlderInOrder ==
  \A x, y \in Times :
    /\ Older(x) \in Times
    /\ NoEarlier(x, y) => NoEarlier(Older(x), Older(y))
    /\ Older(x) = Never <=> x = Never
    /\ x <= Older(x)
  BY SizesAreNats DEF Older, Times, NoEarlier, Never

LEMMA OrderedInit == Init => Ordered
  BY SizesAreNats, ProfilesAreSettings DEF Init, Ordered, TimesOK, InOrder, NoEarlier, Times, Never

LEMMA OrderedStep == Ordered /\ [Next]_vars => Ordered'
<1> SUFFICES ASSUME Ordered, [Next]_vars PROVE Ordered'
  OBVIOUS
<1>0. 0 \in Times /\ Never \in Times /\ TimeCap \in Nat
  BY SizesAreNats DEF Times, Never
<1>1. ASSUME NEW level \in Levels, ObserveRSSI(level) PROVE Ordered'
  <2>1. AwayAfter(level) \in Times /\ LowAfter(level) \in Times
    BY <1>0 DEF Ordered, TimesOK, AwayAfter, LowAfter, Start
  <2> QED
    BY <1>0, <1>1, <2>1
    DEF ObserveRSSI, Ordered, TimesOK, InOrder, NoEarlier, AwayAfter, Start, proofs,
        Times, Never
<1>2. ASSUME RecordProof PROVE Ordered'
  BY <1>0, <1>2 DEF RecordProof, Ordered, TimesOK, InOrder, NoEarlier, timers
<1>3. ASSUME RecordAttemptFailure PROVE Ordered'
  BY <1>0, <1>3
  DEF RecordAttemptFailure, Ordered, TimesOK, InOrder, NoEarlier, Start, timers, ghosts,
      Times, Never
<1>4. ASSUME RecordFailure PROVE Ordered'
  BY <1>4 DEF RecordFailure, Ordered, TimesOK, InOrder, NoEarlier, timers, proofs
<1>5. ASSUME OnLock PROVE Ordered'
  BY <1>5 DEF OnLock, Ordered, TimesOK, InOrder, NoEarlier, timers, proofs
<1>6. ASSUME OnUnlock PROVE Ordered'
  BY <1>0, <1>6 DEF OnUnlock, Ordered, TimesOK, InOrder, NoEarlier, ghosts
<1>7. ASSUME OnResume PROVE Ordered'
  BY <1>7 DEF OnResume, Ordered, TimesOK, InOrder, NoEarlier, timers, proofs, ghosts
<1>8. ASSUME NEW new \in Profiles, UpdateSettings(new) PROVE Ordered'
  BY <1>0, <1>8, ProfilesAreSettings DEF UpdateSettings, Ordered, TimesOK, InOrder, NoEarlier
<1>9. ASSUME BeginProofGrace PROVE Ordered'
  BY <1>0, <1>9 DEF BeginProofGrace, Ordered, TimesOK, InOrder, NoEarlier, timers, ghosts
<1>10. ASSUME NEW on \in BOOLEAN, SetImmediateUnlock(on) PROVE Ordered'
  <2>1. settings' \in SettingsType
    BY <1>10 DEF SetImmediateUnlock, Ordered, TimesOK, SettingsType
  <2> QED
    BY <1>10, <2>1
    DEF SetImmediateUnlock, Ordered, TimesOK, InOrder, NoEarlier, timers, proofs, ghosts
<1>11. ASSUME ResetDeviceEvidence PROVE Ordered'
  BY <1>0, <1>11 DEF ResetDeviceEvidence, Ordered, TimesOK, InOrder, NoEarlier
<1>12. ASSUME Tick PROVE Ordered'
  BY <1>12, OlderInOrder DEF Tick, Ordered, TimesOK, InOrder
<1>13. CASE UNCHANGED vars
  BY <1>13 DEF vars, timers, proofs, ghosts, Ordered, TimesOK, InOrder, NoEarlier
<1> QED
  BY <1>1, <1>2, <1>3, <1>4, <1>5, <1>6, <1>7, <1>8, <1>9, <1>10, <1>11, <1>12, <1>13
  DEF Next

LEMMA AlwaysOrdered == Spec => []Ordered
  BY OrderedInit, OrderedStep, PTL DEF Spec

(***************************************************************************)
(* A desktop whose phone proved itself within ProofTimeout, and has not    *)
(* just sent a weak signal, is not locked (ShouldAutoLock): an open        *)
(* failure window is younger than the proof.                               *)
(***************************************************************************)
THEOREM ProofProtectsAlways == Spec => []ProofProtects
<1>1. Ordered => ProofProtects
  <2> SUFFICES ASSUME Ordered PROVE ProofProtects
    OBVIOUS
  <2>1. settings.proofTimeout \in Nat
    BY DEF Ordered, TimesOK, SettingsType
  <2> QED
    BY <2>1
    DEF Ordered, TimesOK, InOrder, NoEarlier, ProofProtects, ShouldAutoLock, ProofMissing,
        Passed, Times, Never
<1> QED
  BY <1>1, AlwaysOrdered, PTL

(***************************************************************************)
(* An advertisement releases a manual hold only after ManualHoldAway       *)
(* without a near sample (ObserveRSSI).                                    *)
(***************************************************************************)
THEOREM HoldNeedsAbsenceAlways == Spec => HoldNeedsAbsence
<1> DEFINE Absent ==
      manualHold /\ ~manualHold' /\ (\E level \in Levels : ObserveRSSI(level))
        => lastNear = Never \/ Passed(lastNear, settings.manualHoldAway)
<1>1. Ordered /\ [Next]_vars => [Absent]_vars
  <2> SUFFICES ASSUME Ordered, manualHold, ~manualHold',
                      NEW level \in Levels, ObserveRSSI(level)
               PROVE  lastNear = Never \/ Passed(lastNear, settings.manualHoldAway)
    OBVIOUS
  <2>1. settings.manualHoldAway \in Nat
    BY DEF Ordered, TimesOK, SettingsType
  <2>2. \/ Passed(lastSeen, settings.manualHoldAway)
        \/ Passed(AwayAfter(level), settings.manualHoldAway)
    BY DEF ObserveRSSI
  <2> QED
    BY <2>1, <2>2
    DEF Ordered, TimesOK, InOrder, NoEarlier, AwayAfter, Start, Passed, Times, Never
<1> QED
  BY <1>1, AlwaysOrdered, PTL DEF Spec, HoldNeedsAbsence

(* What ShouldAutoLock looks at. *)
evidence == <<settings, locked, lowSince, lastProof, authFailureSince, unlockedAt>>

LEMMA SameEvidence == UNCHANGED evidence => ShouldAutoLock' = ShouldAutoLock
  BY DEF evidence, ShouldAutoLock, ProofMissing, FastRelock, Passed

(* What has lasted long enough has still lasted long enough a tick later. *)
LEMMA OlderStaysPassed ==
  ASSUME NEW x \in Times, NEW time \in Nat, Passed(x, time)
  PROVE  Passed(Older(x), time)
  BY SizesAreNats DEF Passed, Older, Times, Never

(***************************************************************************)
(* A lock that is due is only taken back by a proof, a signal above the    *)
(* lock threshold, a first failed attempt, a lock or unlock, or new        *)
(* settings (ShouldAutoLock).                                              *)
(***************************************************************************)
THEOREM DueStaysDueAlways == Spec => DueStaysDue
<1> DEFINE Excused ==
      \/ lastProof' = 0 \/ lastProof' = Never
      \/ lastSeen' = 0 /\ lowSince' = Never
      \/ authFailureSince = Never /\ authFailureSince' = 0
      \/ locked' \/ unlockedAt' = 0
      \/ settings' # settings \/ samples' = <<>>
<1>1. Ordered /\ [Next]_vars => [ShouldAutoLock /\ ~ShouldAutoLock' => Excused]_vars
  <2> SUFFICES ASSUME Ordered, Next, ShouldAutoLock, ~ShouldAutoLock' PROVE Excused
    OBVIOUS
  <2>1. ~ UNCHANGED evidence
    BY SameEvidence
  <2>2. /\ settings.proofTimeout \in Nat /\ settings.lockWindow \in Nat
        /\ lowSince \in Times /\ lastProof \in Times
        /\ authFailureSince \in Times /\ unlockedAt \in Times
    BY DEF Ordered, TimesOK, SettingsType
  <2>3. ASSUME NEW level \in Levels, ObserveRSSI(level) PROVE Excused
    <3>1. CASE level = "low"
      <4>1. lowSince = Never
        BY <2>1, <2>3, <3>1 DEF ObserveRSSI, LowAfter, Start, evidence, proofs
      <4>2. ~Passed(lowSince, settings.lockWindow)
        BY <4>1 DEF Passed
      <4>3. ProofMissing /\ ~locked
        BY <4>2 DEF ShouldAutoLock
      <4>4. UNCHANGED <<settings, locked, lastProof, authFailureSince, unlockedAt>>
        BY <2>3 DEF ObserveRSSI, proofs
      <4>5. ShouldAutoLock'
        BY <4>3, <4>4 DEF ShouldAutoLock, ProofMissing, FastRelock, Passed
      <4> QED
        BY <4>5
    <3>2. CASE level # "low"
      BY <2>3, <3>2 DEF ObserveRSSI, LowAfter
    <3> QED
      BY <3>1, <3>2
  <2>4. CASE RecordProof
    BY <2>4 DEF RecordProof
  <2>5. CASE RecordAttemptFailure
    BY <2>1, <2>5 DEF RecordAttemptFailure, Start, evidence, timers, lock
  <2>6. CASE RecordFailure
    BY <2>1, <2>6 DEF RecordFailure, evidence, timers, proofs, lock
  <2>7. CASE OnLock
    BY <2>7 DEF OnLock
  <2>8. CASE OnUnlock
    BY <2>8 DEF OnUnlock
  <2>9. CASE OnResume
    BY <2>1, <2>9 DEF OnResume, evidence, timers, proofs
  <2>10. ASSUME NEW new \in Profiles, UpdateSettings(new) PROVE Excused
    BY <2>10 DEF UpdateSettings
  <2>11. CASE BeginProofGrace
    BY <2>1, <2>11 DEF BeginProofGrace, evidence, timers, lock
  <2>12. ASSUME NEW on \in BOOLEAN, SetImmediateUnlock(on) PROVE Excused
    BY <2>1, <2>12 DEF SetImmediateUnlock, evidence, timers, proofs
  <2>13. CASE ResetDeviceEvidence
    BY <2>13 DEF ResetDeviceEvidence
  <2>14. CASE Tick
    <3>1. /\ UNCHANGED <<settings, locked>>
          /\ lowSince' = Older(lowSince) /\ lastProof' = Older(lastProof)
          /\ authFailureSince' = Older(authFailureSince)
          /\ unlockedAt' = Older(unlockedAt)
      BY <2>14 DEF Tick, lock
    <3>2. Passed(lowSince, settings.lockWindow) => Passed(lowSince', settings'.lockWindow)
      BY <2>2, <3>1, OlderStaysPassed
    <3>3. /\ Passed(lastProof, settings.proofTimeout)
                => Passed(lastProof', settings'.proofTimeout)
          /\ Passed(unlockedAt, settings.proofTimeout)
                => Passed(unlockedAt', settings'.proofTimeout)
          /\ Passed(authFailureSince, settings.proofTimeout)
                => Passed(authFailureSince', settings'.proofTimeout)
      BY <2>2, <3>1, OlderStaysPassed
    <3>4. /\ lastProof = Never <=> lastProof' = Never
          /\ unlockedAt = Never <=> unlockedAt' = Never
          /\ authFailureSince = Never <=> authFailureSince' = Never
      BY <2>2, <3>1, OlderInOrder
    <3>5. FastRelock' = FastRelock
      BY <3>1 DEF FastRelock
    <3>6. ProofMissing => ProofMissing'
      BY <3>3, <3>4, <3>5 DEF ProofMissing
    <3>7. ShouldAutoLock'
      BY <3>1, <3>2, <3>6 DEF ShouldAutoLock
    <3> QED
      BY <3>7
  <2> QED
    BY <2>3, <2>4, <2>5, <2>6, <2>7, <2>8, <2>9, <2>10, <2>11, <2>12, <2>13, <2>14 DEF Next
<1> QED
  BY <1>1, AlwaysOrdered, PTL DEF Spec, DueStaysDue

-----------------------------------------------------------------------------
(* Failures and the cooldown                                               *)

(* The failures are in the order they were made. *)
Sorted(ages) == \A i, j \in DOMAIN ages : i <= j => ages[j] <= ages[i]

(* Once there are as many failures as the limit, all of them stay until    *)
(* the cooldown is over, and by then have left the window.                 *)
Spent(ages, left) ==
  Len(ages) = FailureLimit
    => \A i \in DOMAIN ages :
         ages[i] >= FailureWindow \/ ages[i] + left >= FailureCooldown

Cooling ==
  /\ failures \in Seq(0 .. TimeCap) /\ Len(failures) <= strikes
  /\ cooldownLeft \in 0 .. FailureCooldown /\ strikes \in 0 .. FailureLimit
  /\ cooldownLeft > 0 => strikes = FailureLimit
  /\ ~settings.failureCooldownOn => failures = <<>>
  /\ Sorted(failures) /\ Spent(failures, cooldownLeft)

LEMMA Limits ==
  /\ MaxSamples \in Nat /\ 1 <= MaxSamples /\ FailureLimit \in Nat /\ 1 <= FailureLimit
  /\ FailureWindow \in Nat /\ 1 <= FailureWindow /\ FailureCooldown \in Nat
  /\ FailureWindow <= FailureCooldown /\ FailureWindow <= TimeCap
  /\ ResumeUnlockWindow \in Nat /\ TimeCap \in Nat
  BY SizesAreNats

LEMMA AgesAreNats ==
  ASSUME NEW ages \in Seq(0 .. TimeCap)
  PROVE  /\ Len(ages) \in Nat /\ DOMAIN ages = 1 .. Len(ages)
         /\ \A i \in DOMAIN ages : ages[i] \in Nat /\ ages[i] <= TimeCap
<1>1. Len(ages) \in Nat /\ DOMAIN ages = 1 .. Len(ages)
  OBVIOUS
<1>2. ASSUME NEW i \in 1 .. Len(ages) PROVE ages[i] \in 0 .. TimeCap
  BY ElementOfSeq
<1>3. \A x \in 0 .. TimeCap : x \in Nat /\ x <= TimeCap
  BY Limits
<1> QED
  BY <1>1, <1>2, <1>3

LEMMA OutdatedBounds ==
  ASSUME NEW ages \in Seq(0 .. TimeCap)
  PROVE  /\ Outdated(ages) \in 0 .. Len(ages)
         /\ (\A i \in DOMAIN ages : ages[i] >= FailureWindow) => Outdated(ages) = Len(ages)
<1> DEFINE Out == {i \in DOMAIN ages : ages[i] >= FailureWindow}
<1>1. Len(ages) \in Nat /\ DOMAIN ages = 1 .. Len(ages)
  OBVIOUS
<1>2. IsFiniteSet(1 .. Len(ages)) /\ Cardinality(1 .. Len(ages)) = Len(ages)
  BY <1>1, FS_Interval
<1>3. Out \in SUBSET (1 .. Len(ages))
  BY <1>1
<1>4. IsFiniteSet(Out) /\ Cardinality(Out) <= Len(ages)
  BY <1>2, <1>3, FS_Subset
<1>5. Cardinality(Out) \in Nat
  BY <1>4, FS_CardinalityType
<1>6. (\A i \in DOMAIN ages : ages[i] >= FailureWindow) => Out = 1 .. Len(ages)
  BY <1>1
<1>7. Outdated(ages) = Cardinality(Out)
  BY DEF Outdated
<1> HIDE DEF Out
<1> QED
  BY <1>1, <1>2, <1>4, <1>5, <1>6, <1>7

(* Recent is the loop's filter: what it leaves out are the failures that   *)
(* are not after the cutoff.                                               *)
LEMMA OutdatedComeFirst ==
  ASSUME NEW ages \in Seq(0 .. TimeCap), Sorted(ages), NEW i \in DOMAIN ages
  PROVE  i <= Outdated(ages) <=> ages[i] >= FailureWindow
<1> DEFINE Out == {k \in DOMAIN ages : ages[k] >= FailureWindow}
<1>1. /\ Len(ages) \in Nat /\ DOMAIN ages = 1 .. Len(ages) /\ i \in Nat /\ 1 <= i
      /\ \A k \in DOMAIN ages : ages[k] \in Nat
  <2>1. /\ Len(ages) \in Nat /\ DOMAIN ages = 1 .. Len(ages)
        /\ \A k \in DOMAIN ages : ages[k] \in Nat
    BY AgesAreNats
  <2> QED
    BY <2>1
<1>2. ASSUME NEW n \in Nat PROVE IsFiniteSet(1 .. n) /\ Cardinality(1 .. n) = n
  <2>1. 1 \in Int /\ n \in Int
    BY <1>2
  <2>2. /\ IsFiniteSet(1 .. n)
        /\ Cardinality(1 .. n) = IF 1 > n THEN 0 ELSE n - 1 + 1
    BY <2>1, FS_Interval
  <2> QED
    BY <1>2, <2>2
<1>3. IsFiniteSet(Out)
  BY <1>1, <1>2, FS_Subset
<1>4. Cardinality(Out) \in Nat /\ Outdated(ages) = Cardinality(Out)
  BY <1>3, FS_CardinalityType DEF Outdated
<1>5. CASE ages[i] >= FailureWindow
  <2>1. 1 .. i \in SUBSET Out
    <3> SUFFICES ASSUME NEW k \in 1 .. i PROVE k \in Out
      OBVIOUS
    <3>1. k \in DOMAIN ages /\ ages[i] <= ages[k]
      BY <1>1 DEF Sorted
    <3> QED
      BY <1>1, <1>5, <3>1, Limits
  <2>2. Cardinality(1 .. i) <= Cardinality(Out)
    BY <1>3, <2>1, FS_Subset
  <2> QED
    BY <1>1, <1>2, <1>4, <1>5, <2>2
<1>6. CASE ~(ages[i] >= FailureWindow)
  <2>1. Out \in SUBSET (1 .. i - 1)
    <3> SUFFICES ASSUME NEW k \in Out PROVE k \in 1 .. i - 1
      OBVIOUS
    <3>1. i <= k => ages[k] <= ages[i]
      BY DEF Sorted
    <3> QED
      BY <1>1, <1>6, <3>1, Limits
  <2>2. i - 1 \in Nat
    BY <1>1
  <2>3. Cardinality(Out) <= i - 1
    BY <1>2, <2>1, <2>2, FS_Subset
  <2> QED
    BY <1>1, <1>4, <1>6, <2>3
<1> QED
  BY <1>5, <1>6

LEMMA RecentKeeps ==
  ASSUME NEW ages \in Seq(0 .. TimeCap), Sorted(ages)
  PROVE  /\ Recent(ages) \in Seq(0 .. TimeCap) /\ Sorted(Recent(ages))
         /\ Len(Recent(ages)) <= Len(ages)
         /\ (\A i \in DOMAIN ages : ages[i] >= FailureWindow) => Recent(ages) = <<>>
<1> DEFINE n == Outdated(ages)
<1>1. n \in 0 .. Len(ages) /\ Len(ages) \in Nat
  BY OutdatedBounds
<1> HIDE DEF n
<1>2. \A i \in n + 1 .. Len(ages) : ages[i] \in 0 .. TimeCap
  <2>1. \A i \in 1 .. Len(ages) : ages[i] \in 0 .. TimeCap
    BY ElementOfSeq
  <2>2. \A i \in n + 1 .. Len(ages) : i \in 1 .. Len(ages)
    BY <1>1
  <2> QED
    BY <2>1, <2>2
<1>3. /\ SubSeq(ages, n + 1, Len(ages)) \in Seq(0 .. TimeCap)
      /\ Len(SubSeq(ages, n + 1, Len(ages))) = Len(ages) - n
      /\ \A i \in 1 .. Len(ages) - n : SubSeq(ages, n + 1, Len(ages))[i] = ages[n + i]
  BY <1>1, <1>2, SubSeqProperties
<1>4. Recent(ages) = SubSeq(ages, n + 1, Len(ages))
  BY DEF Recent, n
<1>5. Sorted(Recent(ages))
  <2> SUFFICES ASSUME NEW i \in 1 .. Len(ages) - n, NEW j \in 1 .. Len(ages) - n, i <= j
               PROVE  ages[n + j] <= ages[n + i]
    BY <1>1, <1>3, <1>4 DEF Sorted
  <2>1. n + i \in DOMAIN ages /\ n + j \in DOMAIN ages /\ n + i <= n + j
    BY <1>1
  <2> QED
    BY <2>1 DEF Sorted
<1>6. (\A i \in DOMAIN ages : ages[i] >= FailureWindow) => n = Len(ages)
  BY OutdatedBounds DEF n
<1>7. n = Len(ages) => Recent(ages) = <<>>
  BY <1>1, <1>3, <1>4
<1> QED
  BY <1>1, <1>3, <1>4, <1>5, <1>6, <1>7

LEMMA AppendNow ==
  ASSUME NEW ages \in Seq(0 .. TimeCap), Sorted(ages)
  PROVE  /\ Append(ages, 0) \in Seq(0 .. TimeCap) /\ Sorted(Append(ages, 0))
         /\ Len(Append(ages, 0)) = Len(ages) + 1
<1>1. /\ Append(ages, 0) \in Seq(0 .. TimeCap) /\ Len(Append(ages, 0)) = Len(ages) + 1
      /\ Len(ages) \in Nat
  BY Limits
<1>2. \A i \in 1 .. Len(ages) : Append(ages, 0)[i] = ages[i] /\ ages[i] \in Nat
  BY AgesAreNats
<1>3. Append(ages, 0)[Len(ages) + 1] = 0
  OBVIOUS
<1>4. Sorted(Append(ages, 0))
  BY <1>1, <1>2, <1>3, Limits DEF Sorted
<1> QED
  BY <1>1, <1>4

LEMMA FailureCools ==
  ASSUME Cooling, CanAuthenticate, RecordFailure
  PROVE  Cooling'
<1> DEFINE recent == Append(Recent(failures), 0)
<1>1. settings' = settings
  BY DEF RecordFailure
<1>2. CASE ~settings.failureCooldownOn
  BY <1>1, <1>2, Limits DEF RecordFailure, Cooling, Sorted, Spent
<1>3. CASE settings.failureCooldownOn
  <2>1. /\ cooldownLeft = 0 /\ failures \in Seq(0 .. TimeCap) /\ Sorted(failures)
        /\ Len(failures) \in Nat /\ Len(failures) <= strikes /\ strikes \in 0 .. FailureLimit
        /\ \A i \in DOMAIN failures : failures[i] \in Nat
    BY <1>3, AgesAreNats DEF CanAuthenticate, Cooling
  <2>2. /\ Recent(failures) \in Seq(0 .. TimeCap) /\ Sorted(Recent(failures))
        /\ Len(Recent(failures)) <= Len(failures)
        /\ Len(failures) = FailureLimit => Recent(failures) = <<>>
    <3>1. Len(failures) = FailureLimit => \A i \in DOMAIN failures : failures[i] >= FailureWindow
      BY <2>1, Limits DEF Cooling, Spent
    <3> QED
      BY <2>1, <3>1, RecentKeeps
  <2>3. /\ recent \in Seq(0 .. TimeCap) /\ Sorted(recent) /\ Len(recent) \in Nat
        /\ Len(recent) <= FailureLimit /\ Len(recent) <= strikes + 1
    <3>1. recent \in Seq(0 .. TimeCap) /\ Sorted(recent) /\ Len(recent) = Len(Recent(failures)) + 1
      BY <2>2, AppendNow
    <3>2. Len(Recent(failures)) \in Nat /\ Len(Recent(failures)) < FailureLimit
      <4>1. Recent(failures) = <<>> => Len(Recent(failures)) = 0
        BY <2>2
      <4> QED
        BY <2>1, <2>2, <4>1, Limits
    <3> QED
      BY <2>1, <2>2, <3>1, <3>2, Limits
  <2> HIDE DEF recent
  <2>4. /\ failures' = recent
        /\ cooldownLeft' = IF EarnsCooldown(recent) THEN FailureCooldown ELSE cooldownLeft
        /\ strikes' = IF strikes < FailureLimit THEN strikes + 1 ELSE strikes
    BY <1>3 DEF RecordFailure, recent
  <2>5. Len(failures') <= strikes' /\ strikes' \in 0 .. FailureLimit
    BY <2>1, <2>3, <2>4, Limits
  <2>6. cooldownLeft' \in 0 .. FailureCooldown
    BY <2>1, <2>4, Limits
  <2>7. cooldownLeft' > 0 => strikes' = FailureLimit
    BY <2>1, <2>3, <2>4, <2>5, Limits DEF EarnsCooldown
  <2>8. Spent(failures', cooldownLeft')
    <3> SUFFICES ASSUME Len(failures') = FailureLimit, NEW i \in DOMAIN failures'
                 PROVE  failures'[i] + cooldownLeft' >= FailureCooldown
      BY DEF Spent
    <3>1. cooldownLeft' = FailureCooldown
      BY <2>3, <2>4, Limits DEF EarnsCooldown
    <3>2. failures'[i] \in Nat
      BY <2>3, <2>4, AgesAreNats
    <3> QED
      BY <3>1, <3>2, Limits
  <2> QED
    BY <1>1, <1>3, <2>3, <2>4, <2>5, <2>6, <2>7, <2>8 DEF Cooling
<1> QED
  BY <1>2, <1>3

LEMMA TickCools ==
  ASSUME Cooling, Tick
  PROVE  Cooling'
<1>1. /\ failures \in Seq(0 .. TimeCap) /\ Len(failures) \in Nat
      /\ DOMAIN failures = 1 .. Len(failures)
      /\ \A i \in 1 .. Len(failures) : failures[i] \in 0 .. TimeCap
      /\ cooldownLeft \in 0 .. FailureCooldown
  BY ElementOfSeq, AgesAreNats DEF Cooling
<1>2. /\ failures' = [i \in 1 .. Len(failures) |-> Older(failures[i])]
      /\ cooldownLeft' = Sooner(cooldownLeft)
      /\ settings' = settings /\ strikes' = strikes
  BY <1>1 DEF Tick
<1>3. ASSUME NEW x \in 0 .. TimeCap
      PROVE  /\ Older(x) \in 0 .. TimeCap
             /\ x < TimeCap => Older(x) = x + 1
             /\ x = TimeCap => Older(x) = x
  BY Limits DEF Older, Never
<1>4. cooldownLeft' = (IF cooldownLeft = 0 THEN 0 ELSE cooldownLeft - 1)
  BY <1>2 DEF Sooner
<1>5. /\ failures' \in Seq(0 .. TimeCap) /\ Len(failures') = Len(failures)
      /\ DOMAIN failures' = 1 .. Len(failures)
      /\ \A i \in 1 .. Len(failures) : failures'[i] = Older(failures[i])
  BY <1>1, <1>2, <1>3, IsASeq
<1>6. Sorted(failures')
  <2> SUFFICES ASSUME NEW i \in 1 .. Len(failures), NEW j \in 1 .. Len(failures), i <= j
               PROVE  Older(failures[j]) <= Older(failures[i])
    BY <1>5 DEF Sorted
  <2>1. failures[j] <= failures[i]
    BY <1>1 DEF Cooling, Sorted
  <2>2. ASSUME NEW x \in 0 .. TimeCap, NEW y \in 0 .. TimeCap, x <= y
        PROVE  Older(x) <= Older(y)
    BY <2>2, Limits DEF Older, Never
  <2> QED
    BY <1>1, <2>1, <2>2
<1>7. Spent(failures', cooldownLeft')
  <2> SUFFICES ASSUME Len(failures) = FailureLimit, NEW i \in 1 .. Len(failures)
               PROVE  \/ Older(failures[i]) >= FailureWindow
                      \/ Older(failures[i]) + cooldownLeft' >= FailureCooldown
    BY <1>5 DEF Spent
  <2>1. failures[i] >= FailureWindow \/ failures[i] + cooldownLeft >= FailureCooldown
    BY <1>1 DEF Cooling, Spent
  <2>2. ASSUME NEW x \in 0 .. TimeCap, x >= FailureWindow \/ x + cooldownLeft >= FailureCooldown
        PROVE  Older(x) >= FailureWindow \/ Older(x) + cooldownLeft' >= FailureCooldown
    BY <1>1, <1>4, <2>2, Limits DEF Older, Never
  <2> QED
    BY <1>1, <2>1, <2>2
<1>8. cooldownLeft' \in 0 .. FailureCooldown /\ (cooldownLeft' > 0 => cooldownLeft > 0)
  BY <1>1, <1>4, Limits
<1>9. ~settings.failureCooldownOn => failures' = <<>>
  <2>1. ~settings.failureCooldownOn => Len(failures) = 0
    BY DEF Cooling
  <2> QED
    BY <1>5, <2>1
<1> QED
  BY <1>2, <1>5, <1>6, <1>7, <1>8, <1>9 DEF Cooling

LEMMA CoolingStep == Ordered /\ Cooling /\ [Next]_vars => Cooling'
<1> SUFFICES ASSUME Ordered, Cooling, [Next]_vars PROVE Cooling'
  OBVIOUS
<1> USE DEF cooling, ghosts
<1>1. ASSUME failures' = <<>>, cooldownLeft' = 0, strikes' = 0 PROVE Cooling'
  BY <1>1, Limits DEF Cooling, Sorted, Spent
<1>2. CASE /\ UNCHANGED <<failures, cooldownLeft, strikes>>
           /\ settings'.failureCooldownOn <=> settings.failureCooldownOn
  BY <1>2 DEF Cooling
<1>3. CASE RecordProof
  BY <1>1, <1>3 DEF RecordProof
<1>4. ASSUME NEW new \in Profiles, UpdateSettings(new) PROVE Cooling'
  <2>1. CASE new.failureCooldownOn
    BY <1>4, <2>1 DEF UpdateSettings, Cooling
  <2>2. CASE ~new.failureCooldownOn
    BY <1>1, <1>4, <2>2 DEF UpdateSettings
  <2> QED
    BY <2>1, <2>2
<1>5. ASSUME NEW on \in BOOLEAN, SetImmediateUnlock(on) PROVE Cooling'
  <2>1. settings'.failureCooldownOn = settings.failureCooldownOn
    BY <1>5 DEF SetImmediateUnlock, Ordered, TimesOK, SettingsType
  <2> QED
    BY <1>2, <1>5, <2>1 DEF SetImmediateUnlock
<1>6. CASE ResetDeviceEvidence
  BY <1>1, <1>6 DEF ResetDeviceEvidence
<1>7. ASSUME NEW level \in Levels, ObserveRSSI(level) PROVE Cooling'
  BY <1>2, <1>7 DEF ObserveRSSI
<1> QED
  BY <1>2, <1>3, <1>4, <1>5, <1>6, <1>7, FailureCools, TickCools
  DEF Next, vars, RecordAttemptFailure, OnLock, OnUnlock, OnResume, BeginProofGrace

LEMMA AlwaysCooling == Spec => []Cooling
<1>1. Init => Cooling
  BY Limits DEF Init, Cooling, Sorted, Spent
<1> QED
  BY <1>1, CoolingStep, AlwaysOrdered, PTL DEF Spec

(***************************************************************************)
(* A cooldown is earned by FailureLimit security failures without a proof  *)
(* or reset in between, for any limits: there are never more failures kept *)
(* than were made since (RecordFailure).                                   *)
(***************************************************************************)
THEOREM CooldownIsEarnedAlways == Spec => []CooldownIsEarned
<1>1. Cooling => CooldownIsEarned
  BY DEF Cooling, CooldownIsEarned
<1> QED
  BY <1>1, AlwaysCooling, PTL

(***************************************************************************)
(* What RecordFailure leaves out of the list are exactly the failures that *)
(* the loop of the code drops, those not after the cutoff: by the order of *)
(* the list they are its first ones.                                       *)
(***************************************************************************)
THEOREM RecentIsInWindow ==
  Spec => [](\A i \in DOMAIN failures :
               i <= Outdated(failures) <=> failures[i] >= FailureWindow)
<1>1. Cooling => \A i \in DOMAIN failures :
                   i <= Outdated(failures) <=> failures[i] >= FailureWindow
  BY OutdatedComeFirst DEF Cooling
<1> QED
  BY <1>1, AlwaysCooling, PTL

-----------------------------------------------------------------------------
(* Types                                                                   *)

Sampled ==
  /\ samples \in Seq(Samples) /\ Len(samples) <= MaxSamples
  /\ resumeLeft \in 0 .. ResumeUnlockWindow
Flagged == locked \in BOOLEAN /\ manualHold \in BOOLEAN

LEMMA FlaggedStep == Flagged /\ [Next]_vars => Flagged'
  BY DEF Flagged, Next, vars, lock, ObserveRSSI, RecordProof, RecordAttemptFailure, RecordFailure,
         OnLock, OnUnlock, OnResume, UpdateSettings, BeginProofGrace, SetImmediateUnlock,
         ResetDeviceEvidence, Tick

LEMMA SampledStep == Sampled /\ [Next]_vars => Sampled'
<1> SUFFICES ASSUME Sampled, [Next]_vars PROVE Sampled'
  OBVIOUS
<1>1. ASSUME NEW level \in Levels, ObserveRSSI(level) PROVE Sampled'
  <2>1. samples \in Seq(Samples) /\ Len(samples) \in Nat /\ Len(samples) <= MaxSamples
    BY DEF Sampled
  <2>2. [level |-> level, age |-> 0] \in Samples
    BY Limits DEF Samples
  <2>3. /\ (IF Len(samples) < MaxSamples THEN samples ELSE Tail(samples)) \in Seq(Samples)
        /\ Len(IF Len(samples) < MaxSamples THEN samples ELSE Tail(samples)) < MaxSamples
    BY <2>1, Limits
  <2>4. samples' \in Seq(Samples) /\ Len(samples') <= MaxSamples
    BY <1>1, <2>2, <2>3, Limits DEF ObserveRSSI
  <2> QED
    BY <1>1, <2>4 DEF ObserveRSSI, Sampled
<1>2. CASE OnUnlock
  BY <1>2, Limits DEF OnUnlock, Sampled
<1>3. CASE OnResume
  BY <1>3, Limits DEF OnResume, Sampled
<1>4. ASSUME NEW new \in Profiles, UpdateSettings(new) PROVE Sampled'
  BY <1>4, Limits DEF UpdateSettings, Sampled
<1>5. CASE ResetDeviceEvidence
  BY <1>5, Limits DEF ResetDeviceEvidence, Sampled
<1>6. CASE Tick
  <2>1. /\ samples \in Seq(Samples) /\ Len(samples) \in Nat
        /\ DOMAIN samples = 1 .. Len(samples) /\ resumeLeft \in 0 .. ResumeUnlockWindow
    BY DEF Sampled
  <2>2. ASSUME NEW s \in Samples PROVE [s EXCEPT !.age = Older(s.age)] \in Samples
    BY Limits DEF Samples, Older, Never
  <2>3. \A i \in 1 .. Len(samples) : [samples[i] EXCEPT !.age = Older(samples[i].age)] \in Samples
    BY <2>1, <2>2
  <2>4. samples' = [i \in 1 .. Len(samples) |-> [samples[i] EXCEPT !.age = Older(samples[i].age)]]
    BY <1>6, <2>1 DEF Tick
  <2>5. samples' \in Seq(Samples) /\ Len(samples') = Len(samples)
    BY <2>1, <2>3, <2>4, IsASeq
  <2>6. resumeLeft' \in 0 .. ResumeUnlockWindow
    BY <1>6, <2>1, Limits DEF Tick, Sooner
  <2> QED
    BY <1>6, <2>5, <2>6 DEF Tick, Sampled
<1>7. CASE UNCHANGED <<samples, resumeLeft>>
  BY <1>7 DEF Sampled
<1> QED
  BY <1>1, <1>2, <1>3, <1>4, <1>5, <1>6, <1>7
  DEF Next, vars, RecordProof, RecordAttemptFailure, RecordFailure, OnLock, BeginProofGrace,
      SetImmediateUnlock

(***************************************************************************)
(* Every variable keeps its type, for any settings and limits: the samples *)
(* stay within MaxSamples, and the failures within FailureLimit although   *)
(* only a proof or a reset clears them, because a cooldown outlasts the    *)
(* window (RecordFailure, CanAuthenticate).                                *)
(***************************************************************************)
THEOREM TypeCorrect == Spec => []TypeOK
<1>1. Init => Sampled /\ Flagged
  <2>1. Init => Flagged
    BY DEF Init, Flagged
  <2>2. Init => Sampled
    BY Limits DEF Init, Sampled
  <2> QED
    BY <2>1, <2>2
<1>2. Ordered /\ Cooling /\ Sampled /\ Flagged => TypeOK
  BY Limits DEF Ordered, TimesOK, Cooling, Sampled, Flagged, TypeOK
<1> QED
  BY <1>1, <1>2, SampledStep, FlaggedStep, AlwaysOrdered, AlwaysCooling, PTL DEF Spec

=============================================================================
