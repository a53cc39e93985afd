------------------------- MODULE CoordinatorProofs -------------------------
(***************************************************************************)
(* Proofs about Coordinator, for any sessions, proofs and lifetimes:       *)
(* type correctness, that one proof of the phone releases the password at  *)
(* most once (OneUse), that a refused password stays back, that the relock *)
(* guard ends for a cause, and that the two lock flags agree.              *)
(*                                                                         *)
(* OneUse is not inductive: it does not exclude a proof that was used and  *)
(* waits in the manager to be used again.  InOnePlace does, so the two are *)
(* carried through the steps together.  A step is looked at in two parts:  *)
(* what it does to att, grant and cp (Kept), and what the history makes of *)
(* that (KeptSuffices).                                                    *)
(***************************************************************************)
EXTENDS Coordinator, TLAPS

-----------------------------------------------------------------------------
(* Type correctness                                                        *)

(* An age stays one when a tick makes it older. *)
LEMMA OlderIsAge == \A age \in Ages : Older(age) \in Ages
  BY LivesAreNats DEF Ages, Older, Manager!Ages, Manager!Older

(* The history variables are well typed. *)
GhostsTyped ==
  /\ history \in [Proofs -> Histories]
  /\ refused \in {"no", "yes", "kept", "slipped"}
  /\ overtaken \in BOOLEAN /\ crossed \in BOOLEAN

(* What a step records is well typed, whatever the step. *)
LEMMA HistoryType ==
  ASSUME TypeOK, NEW ticked \in BOOLEAN, History(ticked)
  PROVE  GhostsTyped'
<1>1. ASSUME NEW p \in Proofs PROVE NextHistory(p, ticked) \in Histories
  <2>1. history[p] \in Histories
    BY DEF TypeOK
  <2> QED
    BY <2>1, OlderIsAge DEF TypeOK, NextHistory, Histories, Attempts
<1>2. Unused \in Histories
  BY LivesAreNats DEF Unused, Histories, Ages, Manager!Ages
<1>3. history' \in [Proofs -> Histories]
  BY <1>1, <1>2 DEF History
<1>4. refused' \in {"no", "yes", "kept", "slipped"}
  BY DEF TypeOK, History, RefusedAfter
<1>5. overtaken' \in BOOLEAN /\ crossed' \in BOOLEAN
  BY DEF TypeOK, History, BothKinds
<1> QED
  BY <1>3, <1>4, <1>5 DEF GhostsTyped

(* A clock that is set to zero holds an age. *)
LEMMA ZeroIsAge == 0 \in Ages
  BY LivesAreNats DEF Ages, Manager!Ages

(* The cleared grant is a grant record. *)
LEMMA NoGrantTyped == Manager!NoGrant \in Manager!GrantType
  BY LivesAreNats DEF Manager!NoGrant, Manager!GrantType, Manager!Ages

(* A record of a session, a proof and an age is a grant record. *)
LEMMA GrantTyped ==
  \A s \in Sessions \cup {None}, p \in Proofs \cup {None}, age \in Ages :
    [session |-> s, proof |-> p, age |-> age] \in Manager!GrantType
  BY DEF Ages, Manager!GrantType

(* The fields of a grant record are a session, a proof and an age. *)
LEMMA GrantFields ==
  \A g \in Manager!GrantType :
    g.session \in Sessions \cup {None} /\ g.proof \in Proofs \cup {None} /\ g.age \in Ages
  BY DEF Ages, Manager!GrantType

(* The service starts in a well-typed state. *)
LEMMA TypeInit == Init => TypeOK
<1> SUFFICES ASSUME Init PROVE TypeOK
  OBVIOUS
<1>1. grant \in Manager!GrantType /\ notices \in Seq(Notices)
  BY NoGrantTyped DEF Init
<1>2. att \in Attempts /\ cp \in Calls
  BY ZeroIsAge DEF Init, NoAttempt, Attempts, AttemptPcs, NoCall, Calls, CallPcs
<1>3. history \in [Proofs -> Histories]
  BY ZeroIsAge DEF Init, Unused, Histories
<1>4. /\ winLocked \in BOOLEAN /\ readyEvent \in BOOLEAN /\ password \in BOOLEAN
      /\ savedValid \in BOOLEAN /\ locked \in BOOLEAN /\ unlockPending \in BOOLEAN
      /\ guardActive \in BOOLEAN /\ paired \in BOOLEAN /\ presence \in BOOLEAN
      /\ paused \in BOOLEAN /\ doppler \in BOOLEAN /\ credentialValid \in BOOLEAN
      /\ proximityLocked \in BOOLEAN /\ manualHold \in BOOLEAN /\ disabled \in BOOLEAN
      /\ overtaken \in BOOLEAN /\ crossed \in BOOLEAN /\ refused = "no"
  BY StartDopplerIsBool DEF Init
<1>5. /\ console \in Sessions \cup {None} /\ activeSession \in Sessions \cup {None}
      /\ pendingAge \in Ages /\ ctl = "idle"
      /\ mark \in [Threads -> {"idle", "onLock", "onUnlock", "cancel"}]
  BY ZeroIsAge DEF Init
<1> QED
  BY <1>1, <1>2, <1>3, <1>4, <1>5 DEF TypeOK, Manager!TypeOK

(* Every step of every actor keeps the state well typed: one step of the   *)
(* proof per action, one below it per variable the action changes.         *)
LEMMA TypeStep == TypeOK /\ [Next]_vars => TypeOK'
<1> SUFFICES ASSUME TypeOK, [Next]_vars PROVE TypeOK'
  OBVIOUS
<1>0. /\ Recorded => GhostsTyped'
      /\ History(TRUE) => GhostsTyped'
  BY HistoryType DEF Recorded
<1> USE DEF GhostsTyped, ghosts, TypeOK, windows, stored, session, prediction, config, proximity, manager,
            Manager!TypeOK
<1>1. CASE WindowsStep
  <2>1. CASE WindowsLocks
    BY <1>0, <2>1 DEF WindowsLocks, Notify, Notices
  <2>2. CASE UserUnlocks
    <3>1. winLocked' \in BOOLEAN /\ readyEvent' \in BOOLEAN
      BY <2>2 DEF UserUnlocks
    <3>2. cp' \in Calls
      BY <2>2 DEF UserUnlocks, Calls, CallPcs, NoCall
    <3>3. notices' \in Seq(Notices)
      BY <2>2 DEF UserUnlocks, Notify, Notices
    <3> QED
      BY <1>0, <2>2, <3>1, <3>2, <3>3 DEF UserUnlocks
  <2>3. CASE UserLogsOff
    BY <1>0, <2>3 DEF UserLogsOff, Notify, Notices
  <2>4. ASSUME NEW s \in Sessions, UserLogsOn(s) PROVE TypeOK'
    BY <1>0, <2>4 DEF UserLogsOn, Notify, Notices
  <2> QED
    BY <1>1, <2>1, <2>2, <2>3, <2>4 DEF WindowsStep
<1>2. CASE ServiceStep
  <2>1. CASE ServiceTakes
    <3>1. activeSession' \in Sessions \cup {None} /\ locked' \in BOOLEAN
      BY <2>1 DEF ServiceTakes, MarkSessionActive, MarkLocked, MarkLoggedOff, Notices
    <3>2. unlockPending' \in BOOLEAN /\ guardActive' \in BOOLEAN /\ pendingAge' \in Ages
      BY <2>1, ZeroIsAge DEF ServiceTakes, MarkSessionActive, MarkLocked, MarkLoggedOff
    <3>3. mark' \in [Threads -> {"idle", "onLock", "onUnlock", "cancel"}]
      BY <2>1 DEF ServiceTakes, MarkSessionActive, MarkLocked, MarkLoggedOff, Threads
    <3>4. notices' \in Seq(Notices)
      BY <2>1 DEF ServiceTakes
    <3> QED
      BY <1>0, <2>1, <3>1, <3>2, <3>3, <3>4 DEF ServiceTakes
  <2>2. CASE MarkResume
    <3>1. manualHold' \in BOOLEAN
      BY <2>2 DEF MarkResume
    <3> QED
      BY <1>0, <2>2, <3>1 DEF MarkResume
  <2>3. CASE OnLock
    BY <1>0, <2>3 DEF OnLock, Threads
  <2>4. ASSUME NEW t \in Threads, OnUnlock(t) PROVE TypeOK'
    <3>1. proximityLocked' \in BOOLEAN /\ manualHold' \in BOOLEAN
      BY <2>4 DEF OnUnlock
    <3>2. mark' \in [Threads -> {"idle", "onLock", "onUnlock", "cancel"}]
      BY <2>4 DEF OnUnlock
    <3> QED
      BY <1>0, <2>4, <3>1, <3>2 DEF OnUnlock
  <2>5. ASSUME NEW t \in Threads, CancelGrant(t) PROVE TypeOK'
    BY <1>0, <2>5, NoGrantTyped DEF CancelGrant, Manager!Cancel, Threads
  <2> QED
    BY <1>2, <2>1, <2>2, <2>3, <2>4, <2>5 DEF ServiceStep
<1>3. CASE AttemptStep
  <2>1. ASSUME NEW predicted \in BOOLEAN, StartAttempt(predicted) PROVE TypeOK'
    <3>1. att' \in Attempts
      BY <2>1 DEF StartAttempt, Attempts, AttemptPcs
    <3> QED
      BY <1>0, <2>1, <3>1 DEF StartAttempt
  <2>2. ASSUME NEW p \in Proofs, PhoneAnswers(p) PROVE TypeOK'
    <3>1. att' \in Attempts
      BY <2>2 DEF PhoneAnswers, Attempts, AttemptPcs
    <3> QED
      BY <1>0, <2>2, <3>1 DEF PhoneAnswers
  <2>3. CASE ExchangeFails
    BY <1>0, <2>3 DEF ExchangeFails, Attempts, AttemptPcs
  <2>4. CASE RecordProof
    BY <1>0, <2>4 DEF RecordProof, Attempts, AttemptPcs
  <2>5. CASE CreateGrant
    <3>1. att' \in Attempts
      BY <2>5 DEF CreateGrant, TypeOK, Attempts, AttemptPcs
    <3>2. grant' \in Manager!GrantType
      <4>1. /\ att.session \in Sessions \cup {None} /\ att.proof \in Proofs \cup {None}
            /\ att.age \in Ages /\ grant \in Manager!GrantType
        BY DEF TypeOK, Attempts, Manager!TypeOK
      <4>2. \/ grant' = grant
            \/ grant' = [session |-> att.session, proof |-> att.proof, age |-> att.age]
        BY <2>5 DEF CreateGrant, Manager!Grant
      <4> QED
        BY <4>1, <4>2, GrantTyped
    <3>3. disabled' = disabled
      BY <2>5 DEF CreateGrant, Manager!Grant
    <3> QED
      BY <1>0, <2>5, <3>1, <3>2, <3>3 DEF CreateGrant
  <2>6. CASE SignalProvider
    BY <1>0, <2>6 DEF SignalProvider, Attempts, AttemptPcs
  <2>7. CASE NotePrediction
    BY <1>0, <2>7, ZeroIsAge DEF NotePrediction, Attempts, AttemptPcs
  <2>8. CASE ConfirmGuard
    <3>1. guardActive' \in BOOLEAN
      BY <2>8 DEF ConfirmGuard
    <3>2. att' \in Attempts
      BY <2>8 DEF ConfirmGuard, Attempts, AttemptPcs
    <3> QED
      BY <1>0, <2>8, <3>1, <3>2 DEF ConfirmGuard
  <2>9. CASE FinishAttempt
    BY <1>0, <2>9, ZeroIsAge DEF FinishAttempt, Attempts, AttemptPcs, NoAttempt
  <2> QED
    BY <1>3, <2>1, <2>2, <2>3, <2>4, <2>5, <2>6, <2>7, <2>8, <2>9 DEF AttemptStep
<1>4. CASE ProviderStep
  <2>1. CASE LogonAsks
    <3>1. grant' \in Manager!GrantType
      BY <2>1, NoGrantTyped DEF LogonAsks, PeekCall, Manager!Peek
    <3>2. cp' \in Calls
      BY <2>1, GrantFields DEF LogonAsks, PeekCall, Manager!Live, Calls, CallPcs, NoCall
    <3> QED
      BY <1>0, <2>1, <3>1, <3>2 DEF LogonAsks, PeekCall, Manager!Peek
  <2>2. CASE WatcherWakes
    <3>1. readyEvent' \in BOOLEAN
      BY <2>2 DEF WatcherWakes
    <3>2. grant' \in Manager!GrantType
      BY <2>2, NoGrantTyped DEF WatcherWakes, PeekCall, Manager!Peek
    <3>3. cp' \in Calls
      BY <2>2, GrantFields DEF WatcherWakes, PeekCall, Manager!Live, Calls, CallPcs, NoCall
    <3> QED
      BY <1>0, <2>2, <3>1, <3>2, <3>3 DEF WatcherWakes, PeekCall, Manager!Peek
  <2>3. CASE PeekCheck
    BY <1>0, <2>3 DEF PeekCheck, Calls, CallPcs, NoCall
  <2>4. CASE PeekDrops
    BY <1>0, <2>4, NoGrantTyped DEF PeekDrops, Manager!Cancel, Calls, CallPcs, NoCall
  <2>5. CASE ConsumeCall
    BY <1>0, <2>5, NoGrantTyped, GrantFields DEF ConsumeCall, Manager!Consume, Manager!Live,
      Calls, CallPcs, NoCall
  <2>6. CASE ConsumeCheck
    BY <1>0, <2>6 DEF ConsumeCheck, Calls, CallPcs, NoCall
  <2>7. CASE ConsumeAnswer
    BY <1>0, <2>7 DEF ConsumeAnswer, Calls, CallPcs, NoCall
  <2>8. CASE WindowsAccepts
    <3>1. winLocked' \in BOOLEAN
      BY <2>8 DEF WindowsAccepts
    <3>2. cp' \in Calls
      BY <2>8 DEF WindowsAccepts, Calls, CallPcs, NoCall
    <3>3. notices' \in Seq(Notices)
      BY <2>8 DEF WindowsAccepts, Notify, Notices
    <3> QED
      BY <1>0, <2>8, <3>1, <3>2, <3>3 DEF WindowsAccepts
  <2>9. CASE WindowsRejects
    BY <1>0, <2>9 DEF WindowsRejects, Calls, CallPcs, NoCall
  <2>10. CASE CallLost
    BY <1>0, <2>10 DEF CallLost, Calls, CallPcs, NoCall
  <2>11. CASE ReportSuccess
    BY <1>0, <2>11, NoGrantTyped DEF ReportSuccess, Manager!Cancel, Calls, CallPcs, NoCall
  <2>12. CASE InvalidateDisable
    BY <1>0, <2>12, NoGrantTyped DEF InvalidateDisable, Manager!Disable, Calls, CallPcs, NoCall
  <2>13. CASE InvalidateConfig
    <3>1. credentialValid' \in BOOLEAN
      BY <2>13 DEF InvalidateConfig
    <3>2. cp' \in Calls
      BY <2>13 DEF InvalidateConfig, Calls, CallPcs, NoCall
    <3> QED
      BY <1>0, <2>13, <3>1, <3>2 DEF InvalidateConfig
  <2>14. CASE InvalidateSecret
    <3>1. password' \in BOOLEAN
      BY <2>14 DEF InvalidateSecret
    <3>2. cp' \in Calls
      BY <2>14 DEF InvalidateSecret, Calls, CallPcs, NoCall
    <3> QED
      BY <1>0, <2>14, <3>1, <3>2 DEF InvalidateSecret
  <2>15. CASE InvalidateSave
    <3>1. savedValid' \in BOOLEAN
      BY <2>15 DEF InvalidateSave
    <3>2. cp' \in Calls
      BY <2>15 DEF InvalidateSave, Calls, CallPcs, NoCall
    <3> QED
      BY <1>0, <2>15, <3>1, <3>2 DEF InvalidateSave
  <2> QED
    BY <1>4, <2>1, <2>2, <2>3, <2>4, <2>5, <2>6, <2>7, <2>8, <2>9, <2>10, <2>11, <2>12,
      <2>13, <2>14, <2>15 DEF ProviderStep
<1>5. CASE ControlStep
  <2>1. CASE Announce
    <3>1. activeSession' \in Sessions \cup {None} /\ locked' \in BOOLEAN
      BY <2>1 DEF Announce, MarkSessionActive
    <3>2. unlockPending' \in BOOLEAN /\ guardActive' \in BOOLEAN /\ pendingAge' \in Ages
      BY <2>1, ZeroIsAge DEF Announce, MarkSessionActive
    <3>3. mark' \in [Threads -> {"idle", "onLock", "onUnlock", "cancel"}]
      BY <2>1 DEF Announce, MarkSessionActive, Threads
    <3> QED
      BY <1>0, <2>1, <3>1, <3>2, <3>3 DEF Announce
  <2>2. CASE SetPause
    BY <1>0, <2>2 DEF SetPause
  <2>3. CASE Restart
    <3>1. activeSession' \in Sessions \cup {None} /\ locked' \in BOOLEAN
      BY <2>3 DEF Restart
    <3>2. unlockPending' \in BOOLEAN /\ guardActive' \in BOOLEAN /\ pendingAge' \in Ages
      BY <2>3, ZeroIsAge DEF Restart
    <3>3. credentialValid' \in BOOLEAN /\ proximityLocked' \in BOOLEAN /\ manualHold' \in BOOLEAN /\ disabled' \in BOOLEAN
      BY <2>3 DEF Restart
    <3>4. grant' \in Manager!GrantType
      BY <2>3, NoGrantTyped DEF Restart
    <3>5. mark' \in [Threads -> {"idle", "onLock", "onUnlock", "cancel"}]
      BY <2>3 DEF Restart, Threads
    <3>6. att' \in Attempts
      BY <2>3, ZeroIsAge DEF Restart, Attempts, AttemptPcs, NoAttempt
    <3>7. cp' \in Calls
      BY <2>3 DEF Restart, Calls, CallPcs, NoCall
    <3>8. notices' \in Seq(Notices)
      BY <2>3 DEF Restart
    <3> QED
      BY <1>0, <2>3, <3>1, <3>2, <3>3, <3>4, <3>5, <3>6, <3>7, <3>8 DEF Restart
  <2>4. CASE RevokeSecret
    <3>1. presence' \in BOOLEAN
      BY <2>4 DEF RevokeSecret
    <3> QED
      BY <1>0, <2>4, <3>1 DEF RevokeSecret
  <2>5. CASE RevokeCancel
    BY <1>0, <2>5, NoGrantTyped DEF RevokeCancel, Manager!Cancel
  <2>6. CASE RevokeConfig
    <3>1. paired' \in BOOLEAN
      BY <2>6 DEF RevokeConfig
    <3> QED
      BY <1>0, <2>6, <3>1 DEF RevokeConfig
  <2>7. CASE RevokeForget
    <3>1. manualHold' \in BOOLEAN
      BY <2>7 DEF RevokeForget
    <3> QED
      BY <1>0, <2>7, <3>1 DEF RevokeForget
  <2>8. CASE SetDoppler
    BY <1>0, <2>8 DEF SetDoppler
  <2>9. CASE DropPrediction
    <3>1. unlockPending' \in BOOLEAN /\ guardActive' \in BOOLEAN /\ pendingAge' \in Ages
      BY <2>9, ZeroIsAge DEF DropPrediction
    <3> QED
      BY <1>0, <2>9, <3>1 DEF DropPrediction
  <2>10. CASE NewPassword
    BY <1>0, <2>10 DEF NewPassword
  <2>13. CASE SavePassword
    BY <1>0, <2>13 DEF SavePassword
  <2>11. CASE Reload
    BY <1>0, <2>11 DEF Reload
  <2>12. CASE ReloadManager
    <3>1. disabled' \in BOOLEAN
      BY <2>12 DEF ReloadManager, Manager!Enable, Manager!Disable
    <3>2. grant' \in Manager!GrantType
      BY <2>12, NoGrantTyped DEF ReloadManager, Manager!Enable, Manager!Disable
    <3> QED
      BY <1>0, <2>12, <3>1, <3>2 DEF ReloadManager
  <2> QED
    BY <1>5, <2>1, <2>2, <2>3, <2>4, <2>5, <2>6, <2>7, <2>8, <2>9, <2>10, <2>11, <2>12, <2>13
    DEF ControlStep
<1>6. ASSUME NEW challenge \in BOOLEAN, HandleCandidate(challenge) PROVE TypeOK'
  <2>1. manualHold' \in BOOLEAN
    BY <1>6 DEF HandleCandidate
  <2>2. att' \in Attempts
    BY <1>6, ZeroIsAge DEF HandleCandidate, Attempts, AttemptPcs, NoAttempt
  <2> QED
    BY <1>0, <1>6, <2>1, <2>2 DEF HandleCandidate
<1>7. CASE Tick
  <2>1. grant' \in Manager!GrantType
    BY <1>7, OlderIsAge DEF Tick, Manager!Age, Manager!GrantType, Ages, Older
  <2>2. att' \in Attempts
    BY <1>7, OlderIsAge DEF Tick, AttemptProved, Attempts
  <2> QED
    BY <1>0, <1>7, <2>1, <2>2, OlderIsAge DEF Tick, Manager!Age
<1>8. CASE UNCHANGED vars
  BY <1>8 DEF vars
<1> QED
  BY <1>1, <1>2, <1>3, <1>4, <1>5, <1>6, <1>7, <1>8 DEF Next

(* The state is well typed in every reachable state. *)
THEOREM TypeCorrect == Spec => []TypeOK
  BY TypeInit, TypeStep, PTL DEF Spec

-----------------------------------------------------------------------------
(* One use of a proof                                                      *)

(* The count of uses moves only when the password is released for the proof,*)
(* and starts afresh once nothing refers to the proof.                     *)
LEMMA UsesGrow ==
  ASSUME TypeOK, NEW ticked \in BOOLEAN, History(ticked), NEW p \in Proofs
  PROVE  history'[p].uses = IF Held(p)'
                              THEN IF Released /\ cp.proof = p THEN history[p].uses + 1
                                                              ELSE history[p].uses
                              ELSE 0
<1>1. history[p] \in Histories
  BY DEF TypeOK
<1> QED
  BY <1>1 DEF History, NextHistory, Unused, Histories

(* Every step records the history. *)
LEMMA NextRecords == Next => \E ticked \in BOOLEAN : History(ticked)
<1>1. WindowsStep => Recorded
  BY DEF WindowsStep, WindowsLocks, UserUnlocks, UserLogsOff, UserLogsOn
<1>2. ServiceStep => Recorded
  BY DEF ServiceStep, ServiceTakes, MarkResume, OnLock, OnUnlock, CancelGrant
<1>3. AttemptStep => Recorded
  BY DEF AttemptStep, StartAttempt, PhoneAnswers, ExchangeFails, RecordProof, CreateGrant,
    SignalProvider, NotePrediction, ConfirmGuard, FinishAttempt
<1>4. ProviderStep => Recorded
  BY DEF ProviderStep, LogonAsks, WatcherWakes, PeekCheck, PeekDrops, ConsumeCall,
    ConsumeCheck, ConsumeAnswer, WindowsAccepts, WindowsRejects, CallLost, ReportSuccess,
    InvalidateDisable, InvalidateConfig, InvalidateSecret, InvalidateSave, PeekCall
<1>5. ControlStep => Recorded
  BY DEF ControlStep, Announce, SetPause, Restart, RevokeSecret, RevokeCancel, RevokeConfig,
    RevokeForget, SetDoppler, DropPrediction, NewPassword, SavePassword,
      Reload, ReloadManager
<1>6. ASSUME NEW challenge \in BOOLEAN, HandleCandidate(challenge) PROVE Recorded
  BY <1>6 DEF HandleCandidate
<1>7. Tick => History(TRUE)
  BY DEF Tick
<1> QED
  BY <1>1, <1>2, <1>3, <1>4, <1>5, <1>6, <1>7 DEF Next, Recorded

(***************************************************************************)
(* What a step may do to the three places a proof can be in: they stay     *)
(* apart, no proof is put on its way that was not on it, unless nothing    *)
(* referred to it, and a released one is off it for good.                  *)
(***************************************************************************)
Kept ==
  /\ Apart'
  /\ \A p \in Proofs : OnItsWay(p)' => OnItsWay(p) \/ ~Held(p)
  /\ \A p \in Proofs : Released /\ p = cp.proof => ~OnItsWay(p)'

(* A step of that kind keeps every proof to one use. *)
LEMMA KeptSuffices ==
  ASSUME TypeOK, OneUse, InOnePlace, Kept, NEW ticked \in BOOLEAN, History(ticked)
  PROVE  OneUse' /\ InOnePlace'
<1> SUFFICES ASSUME NEW p \in Proofs
             PROVE  /\ history'[p].uses <= 1
                    /\ OnItsWay(p)' \/ ~Held(p)' => history'[p].uses = 0
  BY DEF OneUse, InOnePlace, Unspent, Kept
<1>1. history[p].uses \in Nat /\ history[p].uses <= 1
  BY DEF TypeOK, Histories, OneUse
<1>2. OnItsWay(p) \/ ~Held(p) => history[p].uses = 0
  BY DEF InOnePlace, Unspent
<1>3. Released /\ cp.proof = p => history[p].uses = 0 /\ ~OnItsWay(p)'
  BY <1>2 DEF Released, OnItsWay, Kept
<1> QED
  BY <1>1, <1>2, <1>3, UsesGrow DEF Kept

(* Every step of every actor is of that kind: PEEK, CONSUME, a newer grant,*)
(* a cancellation, a restart.                                              *)
LEMMA StepKeeps ==
  ASSUME TypeOK, InOnePlace, Next
  PROVE  Kept
<1>0. UNCHANGED <<grant, att, cp>> => Kept
  BY DEF InOnePlace, Apart, Kept, OnItsWay, Released
<1>9. att \in Attempts
  BY DEF TypeOK
<1> USE NoneIsNothing
    DEF InOnePlace, Apart, Kept, OnItsWay, Held, Released, manager
<1>1. CASE WindowsStep
  <2>1. CASE WindowsLocks
    BY <2>1, <1>0 DEF WindowsLocks
  <2>2. CASE UserUnlocks
    BY <2>2 DEF UserUnlocks, NoCall
  <2>3. CASE UserLogsOff
    BY <2>3, <1>0 DEF UserLogsOff
  <2>4. ASSUME NEW s \in Sessions, UserLogsOn(s) PROVE Kept
    BY <2>4, <1>0 DEF UserLogsOn
  <2> QED
    BY <1>1, <2>1, <2>2, <2>3, <2>4 DEF WindowsStep
<1>2. CASE ServiceStep
  <2>1. CASE ServiceTakes
    BY <2>1, <1>0 DEF ServiceTakes
  <2>2. CASE MarkResume
    BY <2>2, <1>0 DEF MarkResume
  <2>3. CASE OnLock
    BY <2>3, <1>0 DEF OnLock
  <2>4. ASSUME NEW t \in Threads, OnUnlock(t) PROVE Kept
    BY <2>4, <1>0 DEF OnUnlock
  <2>5. ASSUME NEW t \in Threads, CancelGrant(t) PROVE Kept
    BY <2>5 DEF CancelGrant, Manager!Cancel, Manager!NoGrant
  <2> QED
    BY <1>2, <2>1, <2>2, <2>3, <2>4, <2>5 DEF ServiceStep
<1>3. CASE AttemptStep
  <2>1. ASSUME NEW predicted \in BOOLEAN, StartAttempt(predicted) PROVE Kept
    BY <2>1 DEF StartAttempt
  <2>2. ASSUME NEW p \in Proofs, PhoneAnswers(p) PROVE Kept
    BY <2>2 DEF PhoneAnswers
  <2>3. CASE ExchangeFails
    BY <2>3 DEF ExchangeFails
  <2>4. CASE RecordProof
    BY <2>4 DEF RecordProof
  <2>5. CASE CreateGrant
    <3>1. CASE disabled
      <4>1. att.pc = "grant" /\ att' = [att EXCEPT !.pc = "done"] /\ UNCHANGED <<grant, cp>>
        BY <2>5, <3>1 DEF CreateGrant
      <4>2. att'.pc = "done" /\ att'.proof = att.proof
        BY <1>9, <4>1 DEF Attempts
      <4> QED
        BY <4>1, <4>2
    <3>2. CASE ~disabled
      <4>1. /\ att.pc = "grant" /\ att' = [att EXCEPT !.pc = "signal"] /\ cp' = cp
            /\ grant' = [session |-> att.session, proof |-> att.proof, age |-> att.age]
        BY <2>5, <3>2 DEF CreateGrant, Manager!Grant
      <4>2. att'.pc = "signal" /\ att'.proof = att.proof /\ grant'.proof = att.proof
        BY <1>9, <4>1 DEF Attempts
      <4> QED
        BY <4>1, <4>2
    <3> QED
      BY <3>1, <3>2
  <2>6. CASE SignalProvider
    <3>1. att.pc = "signal" /\ UNCHANGED <<grant, cp>>
      BY <2>6 DEF SignalProvider
    <3>2. att'.pc \in {"pending", "done"} /\ att'.proof = att.proof
      BY <1>9, <2>6 DEF SignalProvider, Attempts
    <3> QED
      BY <3>1, <3>2
  <2>7. CASE NotePrediction
    BY <2>7 DEF NotePrediction
  <2>8. CASE ConfirmGuard
    BY <2>8 DEF ConfirmGuard
  <2>9. CASE FinishAttempt
    BY <2>9 DEF FinishAttempt, NoAttempt
  <2> QED
    BY <1>3, <2>1, <2>2, <2>3, <2>4, <2>5, <2>6, <2>7, <2>8, <2>9 DEF AttemptStep
<1>4. CASE ProviderStep
  <2>1. CASE LogonAsks
    BY <2>1 DEF LogonAsks, PeekCall, Manager!Peek, Manager!Live, NoCall, Manager!NoGrant
  <2>2. CASE WatcherWakes
    BY <2>2 DEF WatcherWakes, PeekCall, Manager!Peek, Manager!Live, NoCall, Manager!NoGrant
  <2>3. CASE PeekCheck
    BY <2>3 DEF PeekCheck, NoCall
  <2>4. CASE PeekDrops
    BY <2>4 DEF PeekDrops, Manager!Cancel, NoCall, Manager!NoGrant
  <2>5. CASE ConsumeCall
    BY <2>5 DEF ConsumeCall, Manager!Consume, Manager!Live, NoCall, Manager!NoGrant
  <2>6. CASE ConsumeCheck
    BY <2>6 DEF ConsumeCheck, NoCall
  <2>7. CASE ConsumeAnswer
    BY <2>7 DEF ConsumeAnswer, NoCall
  <2>8. CASE WindowsAccepts
    BY <2>8 DEF WindowsAccepts, NoCall
  <2>9. CASE WindowsRejects
    BY <2>9 DEF WindowsRejects, NoCall
  <2>10. CASE CallLost
    BY <2>10 DEF CallLost, NoCall
  <2>11. CASE ReportSuccess
    BY <2>11 DEF ReportSuccess, Manager!Cancel, NoCall, Manager!NoGrant
  <2>12. CASE InvalidateDisable
    BY <2>12 DEF InvalidateDisable, Manager!Disable, Manager!NoGrant
  <2>13. CASE InvalidateConfig
    BY <2>13 DEF InvalidateConfig
  <2>14. CASE InvalidateSecret
    <3>1. cp.pc = "delete" /\ UNCHANGED <<grant, att>>
      BY <2>14 DEF InvalidateSecret
    <3>2. cp'.pc \in {"save", "kept"} /\ cp'.proof = cp.proof
      BY <2>14 DEF InvalidateSecret, TypeOK, Calls
    <3> QED
      BY <3>1, <3>2
  <2>15. CASE InvalidateSave
    BY <2>15 DEF InvalidateSave, NoCall
  <2> QED
    BY <1>4, <2>1, <2>2, <2>3, <2>4, <2>5, <2>6, <2>7, <2>8, <2>9, <2>10, <2>11, <2>12,
      <2>13, <2>14, <2>15 DEF ProviderStep
<1>5. CASE ControlStep
  <2>1. CASE Announce
    BY <2>1, <1>0 DEF Announce
  <2>2. CASE SetPause
    BY <2>2, <1>0 DEF SetPause
  <2>3. CASE Restart
    BY <2>3 DEF Restart, NoCall, NoAttempt, Manager!NoGrant
  <2>4. CASE RevokeSecret
    BY <2>4, <1>0 DEF RevokeSecret
  <2>5. CASE RevokeCancel
    BY <2>5 DEF RevokeCancel, Manager!Cancel, Manager!NoGrant
  <2>6. CASE RevokeConfig
    BY <2>6, <1>0 DEF RevokeConfig
  <2>7. CASE RevokeForget
    BY <2>7, <1>0 DEF RevokeForget
  <2>8. CASE SetDoppler
    BY <2>8, <1>0 DEF SetDoppler
  <2>9. CASE DropPrediction
    BY <2>9, <1>0 DEF DropPrediction
  <2>10. CASE NewPassword
    BY <2>10, <1>0 DEF NewPassword
  <2>13. CASE SavePassword
    BY <2>13, <1>0 DEF SavePassword
  <2>11. CASE Reload
    BY <2>11, <1>0 DEF Reload
  <2>12. CASE ReloadManager
    BY <2>12 DEF ReloadManager, Manager!Enable, Manager!Disable, Manager!NoGrant
  <2> QED
    BY <1>5, <2>1, <2>2, <2>3, <2>4, <2>5, <2>6, <2>7, <2>8, <2>9, <2>10, <2>11, <2>12, <2>13
    DEF ControlStep
<1>6. ASSUME NEW challenge \in BOOLEAN, HandleCandidate(challenge) PROVE Kept
  BY <1>6 DEF HandleCandidate, NoAttempt
<1>7. CASE Tick
  BY <1>7 DEF Tick, Manager!Age
<1> QED
  BY <1>1, <1>2, <1>3, <1>4, <1>5, <1>6, <1>7 DEF Next

(* At the start no proof is anywhere. *)
LEMMA OneUseInit == Init => OneUse /\ InOnePlace
  BY NoneIsNothing DEF Init, OneUse, InOnePlace, Unspent, Apart, OnItsWay, Unused, NoAttempt,
     NoCall, Manager!NoGrant

(* OneUse with its strengthening is inductive. *)
LEMMA OneUseStep == TypeOK /\ OneUse /\ InOnePlace /\ [Next]_vars => (OneUse /\ InOnePlace)'
<1> SUFFICES ASSUME TypeOK, OneUse, InOnePlace, [Next]_vars
             PROVE  (OneUse /\ InOnePlace)'
  OBVIOUS
<1>1. CASE Next
  <2>1. Kept
    BY <1>1, StepKeeps
  <2>2. \E ticked \in BOOLEAN : History(ticked)
    BY <1>1, NextRecords
  <2> QED
    BY <2>1, <2>2, KeptSuffices
<1>2. CASE UNCHANGED vars
  BY <1>2 DEF vars, manager, ghosts, OneUse, InOnePlace, Unspent, Apart, OnItsWay, Held
<1> QED
  BY <1>1, <1>2

(* One accepted response of the phone releases the Windows password at most*)
(* once, however the goroutines of the service and the credential provider *)
(* interleave (Manager.Grant, Peek, Consume, Cancel, and HandleAuth).      *)
THEOREM OneUseCorrect == Spec => [](OneUse /\ InOnePlace)
  BY OneUseInit, OneUseStep, TypeCorrect, PTL DEF Spec

(* A proof on its way to the password is in one place at a time and unused *)
(* (the strengthening OneUse needs, a property of a run as well).          *)
THEOREM InOnePlaceAlways == Spec => []InOnePlace
  BY OneUseCorrect, PTL

-----------------------------------------------------------------------------
(* A refused password                                                      *)

(***************************************************************************)
(* A refused password is being dealt with, or out of the store; one whose  *)
(* deletion failed is shut away in the config, in memory and, once it has  *)
(* been written, in the file.                                              *)
(***************************************************************************)
ShutAway ==
  /\ refused = "yes" => cp.pc \in {"disable", "invalid", "delete"} \/ ~password
  /\ refused = "kept" => /\ ~credentialValid /\ cp.pc # "get"
                         /\ ctl \notin {"save", "reload", "enable"}
                         /\ cp.pc = "kept" \/ ~savedValid

(* What ShutAway is about, step by step: which steps touch the password,   *)
(* its two marks, and the calls about it.                                  *)
PasswordStep ==
  \/ UNCHANGED <<password, savedValid, credentialValid, ctl, cp>>
  \/ ctl = "idle" /\ ctl' = "save" /\ cp' = cp
  \/ /\ UNCHANGED <<password, savedValid, credentialValid, cp>>
     /\ ctl' \notin {"save", "reload", "enable"}
  \/ /\ ctl \in {"save", "reload"} /\ cp' = cp /\ password' = password
  \/ /\ UNCHANGED <<password, savedValid, ctl>>
     /\ cp.pc \notin {"disable", "invalid", "delete", "kept"}
     /\ cp'.pc # "kept" /\ credentialValid' = credentialValid
     /\ cp'.pc = "get" => credentialValid
     /\ cp'.pc = "submit" => cp.pc = "get" /\ password
     /\ cp'.pc = "disable" => cp.pc = "submit"
  \/ /\ cp.pc = "disable" /\ cp'.pc \in {"idle", "invalid"}
     /\ UNCHANGED <<password, savedValid, credentialValid, ctl>>
  \/ /\ cp.pc = "invalid" /\ cp'.pc = "delete" /\ ~credentialValid'
     /\ UNCHANGED <<password, savedValid, ctl>>
  \/ /\ cp.pc = "delete" /\ UNCHANGED <<savedValid, credentialValid, ctl>>
     /\ \/ ~password' /\ cp'.pc = "save"
        \/ password' = password /\ cp'.pc = "kept"
  \/ /\ cp.pc \in {"save", "kept"} /\ cp'.pc = "idle" /\ savedValid' \in {FALSE, savedValid}
     /\ UNCHANGED <<password, credentialValid, ctl>>
  \/ /\ UNCHANGED <<password, savedValid>> /\ credentialValid' = savedValid
     /\ ctl' = "idle"
     /\ \/ cp' = cp /\ cp.pc \in {"tile", "submit", "success", "disable"}
        \/ cp'.pc = "idle"

(* Every step is one of these. *)
LEMMA PasswordChanges ==
  ASSUME TypeOK, Next
  PROVE  PasswordStep
<1>0. UNCHANGED <<password, savedValid, credentialValid, ctl, cp>> => PasswordStep
  BY DEF PasswordStep
<1>9. cp \in Calls
  BY DEF TypeOK
<1> USE DEF stored, config
<1>1. CASE WindowsStep
  <2>1. CASE UserUnlocks
    BY <2>1 DEF UserUnlocks, NoCall, PasswordStep
  <2>2. CASE ~UserUnlocks
    BY <1>0, <1>1, <2>2 DEF WindowsStep, WindowsLocks, UserLogsOff, UserLogsOn
  <2> QED
    BY <2>1, <2>2
<1>2. CASE ServiceStep
  BY <1>0, <1>2 DEF ServiceStep, ServiceTakes, MarkResume, OnLock, OnUnlock, CancelGrant
<1>3. CASE AttemptStep
  BY <1>0, <1>3 DEF AttemptStep, StartAttempt, PhoneAnswers, ExchangeFails, RecordProof,
    CreateGrant, SignalProvider, NotePrediction, ConfirmGuard, FinishAttempt
<1>4. CASE ProviderStep
  <2>0. ASSUME UNCHANGED <<password, savedValid, credentialValid, ctl>>,
               cp.pc \in {"idle", "tile", "peek", "drop", "submit", "success"},
               cp'.pc \in {"idle", "peek", "drop", "tile", "check", "success"}
        PROVE  PasswordStep
    BY <2>0 DEF PasswordStep
  <2>1. CASE LogonAsks \/ WatcherWakes
    <3>1. PeekCall
      BY <2>1 DEF LogonAsks, WatcherWakes
    <3>2. cp'.pc \in {"idle", "peek"}
      BY <3>1 DEF PeekCall, NoCall
    <3> QED
      BY <2>0, <3>1, <3>2 DEF PeekCall
  <2>2. CASE PeekCheck \/ PeekDrops \/ ConsumeCall
    BY <2>0, <2>2 DEF PeekCheck, PeekDrops, ConsumeCall, NoCall
  <2>3. CASE ConsumeCheck
    BY <1>9, <2>3 DEF ConsumeCheck, NoCall, Calls, PasswordStep
  <2>4. CASE ConsumeAnswer
    BY <1>9, <2>4 DEF ConsumeAnswer, NoCall, Calls, PasswordStep
  <2>5. CASE WindowsAccepts \/ ReportSuccess
    BY <2>0, <2>5 DEF WindowsAccepts, ReportSuccess, NoCall
  <2>11. CASE WindowsRejects
    BY <2>11 DEF WindowsRejects, NoCall, PasswordStep
  <2>6. CASE CallLost
    BY <2>6 DEF CallLost, NoCall, PasswordStep
  <2>7. CASE InvalidateDisable
    BY <1>9, <2>7 DEF InvalidateDisable, Calls, PasswordStep
  <2>8. CASE InvalidateConfig
    BY <1>9, <2>8 DEF InvalidateConfig, Calls, PasswordStep
  <2>9. CASE InvalidateSecret
    BY <1>9, <2>9 DEF InvalidateSecret, Calls, PasswordStep
  <2>10. CASE InvalidateSave
    BY <2>10 DEF InvalidateSave, NoCall, PasswordStep
  <2> QED
    BY <1>4, <2>1, <2>2, <2>3, <2>4, <2>5, <2>6, <2>7, <2>8, <2>9, <2>10, <2>11
    DEF ProviderStep
<1>5. CASE ControlStep
  <2>1. CASE NewPassword \/ SavePassword \/ Reload \/ ReloadManager
    BY <2>1 DEF NewPassword, SavePassword, Reload, ReloadManager, PasswordStep
  <2>2. CASE Restart
    BY <2>2 DEF Restart, NoCall, PasswordStep
  <2>3. CASE RevokeSecret \/ RevokeCancel \/ RevokeConfig \/ RevokeForget
    BY <2>3 DEF RevokeSecret, RevokeCancel, RevokeConfig, RevokeForget, PasswordStep
  <2>4. CASE SetDoppler \/ DropPrediction
    BY <2>4 DEF SetDoppler, DropPrediction, PasswordStep
  <2>5. CASE Announce \/ SetPause
    BY <1>0, <2>5 DEF Announce, SetPause
  <2> QED
    BY <1>5, <2>1, <2>2, <2>3, <2>4, <2>5 DEF ControlStep
<1>6. CASE Tick \/ \E challenge \in BOOLEAN : HandleCandidate(challenge)
  BY <1>0, <1>6 DEF Tick, HandleCandidate
<1> QED
  BY <1>1, <1>2, <1>3, <1>4, <1>5, <1>6 DEF Next

(* What the history makes of a refusal depends on those variables only. *)
LEMMA RefusedRecorded == Next => refused' = RefusedAfter
  BY NextRecords DEF History

(* No step lets a refused password out, or leaves it where it could go.    *)
LEMMA ShutAwayStep ==
  ASSUME TypeOK, ShutAway, Next
  PROVE  ShutAway' /\ (Released => refused \notin {"yes", "kept"})
<1>1. refused' = RefusedAfter
  BY RefusedRecorded
<1>2. refused \in {"no", "yes", "kept", "slipped"} /\ savedValid \in BOOLEAN /\ password \in BOOLEAN
  BY DEF TypeOK
<1>3. refused' = "kept"
        => \/ refused = "kept" /\ ~Slips
           \/ cp.pc = "delete" /\ cp'.pc = "kept" /\ ~Slips
  BY <1>1, <1>2 DEF RefusedAfter
<1>4. refused' = "yes"
        => \/ cp.pc = "submit" /\ cp'.pc = "disable"
           \/ refused = "yes" /\ ~Slips /\ ~(ctl = "idle" /\ ctl' = "save")
                /\ ~(cp.pc = "delete" /\ cp'.pc = "kept")
  BY <1>1, <1>2 DEF RefusedAfter
<1>5. ctl = "idle" /\ ctl' = "save" => refused' \in {"no", "yes"}
  BY <1>1 DEF RefusedAfter
<1>6. refused' = "yes" => cp'.pc \in {"disable", "invalid", "delete"} \/ ~password'
  BY <1>2, <1>4, PasswordChanges DEF ShutAway, PasswordStep, Slips
<1>7. refused' = "kept"
        => /\ ~credentialValid' /\ cp'.pc # "get"
           /\ ctl' \notin {"save", "reload", "enable"}
           /\ cp'.pc = "kept" \/ ~savedValid'
  BY <1>2, <1>3, <1>5, PasswordChanges DEF ShutAway, PasswordStep, Slips
<1>8. Released => refused \notin {"yes", "kept"}
  BY PasswordChanges DEF ShutAway, PasswordStep, Released
<1> QED
  BY <1>6, <1>7, <1>8 DEF ShutAway

(***************************************************************************)
(* A refused password does not leave the service again before a new one is *)
(* set, over restarts and whichever of the two writes of                   *)
(* invalidateCredential fails: it is deleted, or the config keeps it back, *)
(* in memory and over a restart.  What is not withstood is in Slips.       *)
(***************************************************************************)
THEOREM RefusedStaysBackAlways == Spec => RefusedStaysBack
<1>1. Init => ShutAway
  BY DEF Init, ShutAway
<1>2. TypeOK /\ ShutAway /\ [Next]_vars => ShutAway'
  <2>1. UNCHANGED vars /\ ShutAway => ShutAway'
    BY DEF vars, stored, config, ghosts, ShutAway
  <2> QED
    BY <2>1, ShutAwayStep
<1>3. TypeOK /\ ShutAway /\ [Next]_vars => [Released => refused \notin {"yes", "kept"}]_vars
  BY ShutAwayStep
<1> QED
  BY <1>1, <1>2, <1>3, TypeCorrect, PTL DEF Spec, RefusedStaysBack

-----------------------------------------------------------------------------
(* The relock guard                                                        *)

(* The guard stands on the open desktop of an active session, and an       *)
(* attempt that comes to confirm it began on an open desktop.              *)
Guarding ==
  /\ guardActive => ~locked /\ activeSession # None
  /\ att.pc = "confirm" => ~att.locked

(* What may end the guard, as GuardEndsForCause has it. *)
Cause ==
  \/ att.pc = "confirm" /\ ~att.locked
  \/ locked'
  \/ activeSession' # activeSession
  \/ ctl = "guard"

(* Every step keeps the guard where it belongs, and ends it for a cause. *)
LEMMA GuardStep ==
  ASSUME TypeOK, Guarding, Next
  PROVE  Guarding' /\ (guardActive /\ ~guardActive' => Cause)
<1> DEFINE Goal == Guarding' /\ (guardActive /\ ~guardActive' => Cause)
<1> SUFFICES Goal
  OBVIOUS
<1>0. ASSUME UNCHANGED <<guardActive, session, att>> PROVE Goal
  BY <1>0 DEF Guarding, session
<1>9. att \in Attempts
  BY DEF TypeOK
<1> USE NoneIsNothing DEF Guarding, Cause, session, prediction
<1> HIDE DEF Goal
<1>1. CASE WindowsStep
  BY <1>0, <1>1 DEF WindowsStep, WindowsLocks, UserUnlocks, UserLogsOff, UserLogsOn
<1>2. CASE ServiceStep
  <2>1. CASE ServiceTakes
    <3>1. notices \in Seq(Notices) /\ notices # <<>>
      BY <2>1 DEF ServiceTakes, TypeOK
    <3>2. Head(notices) \in Notices
      BY <3>1
    <3>3. Head(notices).session \in Sessions
      BY <3>2 DEF Notices
    <3> QED
      BY <2>1, <3>3 DEF ServiceTakes, MarkSessionActive, MarkLocked, MarkLoggedOff, Goal
  <2>2. CASE MarkResume \/ OnLock
    BY <1>0, <2>2 DEF MarkResume, OnLock
  <2>3. ASSUME NEW t \in Threads, OnUnlock(t) \/ CancelGrant(t) PROVE Goal
    BY <1>0, <2>3 DEF OnUnlock, CancelGrant
  <2> QED
    BY <1>2, <2>1, <2>2, <2>3 DEF ServiceStep
<1>3. CASE AttemptStep
  <2>1. ASSUME NEW predicted \in BOOLEAN, StartAttempt(predicted) PROVE Goal
    BY <1>9, <2>1 DEF StartAttempt, Attempts, Goal
  <2>2. ASSUME NEW p \in Proofs, PhoneAnswers(p) PROVE Goal
    BY <1>9, <2>2 DEF PhoneAnswers, Attempts, Goal
  <2>3. CASE ExchangeFails \/ RecordProof \/ SignalProvider
    BY <1>9, <2>3 DEF ExchangeFails, RecordProof, SignalProvider, Attempts, Goal
  <2>4. CASE CreateGrant
    BY <1>9, <2>4 DEF CreateGrant, Attempts, Goal
  <2>5. CASE NotePrediction \/ ConfirmGuard
    BY <1>9, <2>5 DEF NotePrediction, ConfirmGuard, Attempts, Goal
  <2>6. CASE FinishAttempt
    BY <2>6 DEF FinishAttempt, NoAttempt, Goal
  <2> QED
    BY <1>3, <2>1, <2>2, <2>3, <2>4, <2>5, <2>6 DEF AttemptStep
<1>4. CASE ProviderStep
  BY <1>0, <1>4 DEF ProviderStep, LogonAsks, WatcherWakes, PeekCheck, PeekDrops, ConsumeCall,
    ConsumeCheck, ConsumeAnswer, WindowsAccepts, WindowsRejects, CallLost, ReportSuccess,
    InvalidateDisable, InvalidateConfig, InvalidateSecret, InvalidateSave, PeekCall
<1>5. CASE ControlStep
  <2>1. CASE Announce
    BY <2>1 DEF Announce, MarkSessionActive, Goal
  <2>2. CASE Restart
    BY <2>2 DEF Restart, NoAttempt, Goal
  <2>3. CASE DropPrediction
    BY <2>3 DEF DropPrediction, Goal
  <2>4. CASE ~Announce /\ ~Restart /\ ~DropPrediction
    BY <1>0, <1>5, <2>4 DEF ControlStep, SetPause, RevokeSecret, RevokeCancel, RevokeConfig,
      RevokeForget, SetDoppler, NewPassword, SavePassword, Reload, ReloadManager
  <2> QED
    BY <2>1, <2>2, <2>3, <2>4
<1>6. ASSUME NEW challenge \in BOOLEAN, HandleCandidate(challenge) PROVE Goal
  BY <1>6 DEF HandleCandidate, NoAttempt, Goal
<1>7. CASE Tick
  BY <1>9, <1>7 DEF Tick, Attempts, Goal
<1> QED
  BY <1>1, <1>2, <1>3, <1>4, <1>5, <1>6, <1>7 DEF Next

(* The relock guard of a predicted unlock ends with a proof made on the    *)
(* open desktop, a lock, the end of the session, a change of the setting   *)
(* or a restart, however often and whenever the agent announces the        *)
(* session (changed in MarkSessionActive).                                 *)
THEOREM GuardEndsForCauseAlways == Spec => GuardEndsForCause
<1>1. Init => Guarding
  BY DEF Init, Guarding, NoAttempt
<1>2. TypeOK /\ Guarding /\ [Next]_vars => Guarding'
  <2>1. UNCHANGED vars /\ Guarding => Guarding'
    BY DEF vars, session, prediction, Guarding
  <2> QED
    BY <2>1, GuardStep
<1>3. TypeOK /\ Guarding /\ [Next]_vars
        => [guardActive /\ ~guardActive'
              => \/ att.pc = "confirm" /\ ~att.locked
                 \/ locked'
                 \/ activeSession' # activeSession
                 \/ ctl = "guard"]_vars
  BY GuardStep DEF Cause
<1> QED
  BY <1>1, <1>2, <1>3, TypeCorrect, PTL DEF Spec, GuardEndsForCause

-----------------------------------------------------------------------------
(* The two lock flags                                                      *)

(***************************************************************************)
(* As long as no lock and unlock were handled at the same time, the        *)
(* handlers still to come to the proximity state are of the kind the       *)
(* coordinator's flag has, and with none to come the flags agree.          *)
(***************************************************************************)
FlagsFollow ==
  /\ mark["ctl"] # "onLock"
  /\ ~crossed =>
       /\ \A t \in Threads : /\ mark[t] = "onLock" => locked
                             /\ mark[t] = "onUnlock" => ~locked
       /\ activeSession # None /\ (\A t \in Threads : mark[t] \notin {"onLock", "onUnlock"})
            => locked = proximityLocked

(* A session handler's first step: the new kind is that of the flag.       *)
HandlerBegins(t) ==
  /\ mark[t] = "idle"
  /\ \/ mark' = [mark EXCEPT ![t] = "onUnlock"] /\ ~locked'
     \/ mark' = [mark EXCEPT ![t] = "onLock"] /\ locked'

(* It leaves the flags together or is one that crosses another. *)
LEMMA BeginFollows ==
  ASSUME TypeOK, NEW t \in Threads, HandlerBegins(t), mark'["ctl"] # "onLock",
         crossed' = IF Begins THEN BothKinds' ELSE crossed
  PROVE  FlagsFollow'
<1>1. mark \in [Threads -> {"idle", "onLock", "onUnlock", "cancel"}]
  BY DEF TypeOK
<1>2. mark'[t] \in {"onLock", "onUnlock"} /\ \A u \in Threads \ {t} : mark'[u] = mark[u]
  BY <1>1 DEF HandlerBegins
<1>3. Begins
  BY <1>2 DEF HandlerBegins, Begins
<1>4. CASE crossed'
  BY <1>4 DEF FlagsFollow
<1>5. ~crossed' => ~BothKinds'
  BY <1>3
<1>6. ~crossed' => \A u \in Threads : mark'[u] \in {"onLock", "onUnlock"} => mark'[u] = mark'[t]
  BY <1>2, <1>5 DEF BothKinds
<1>7. mark'[t] = "onLock" => locked'
  BY <1>1 DEF HandlerBegins
<1>8. mark'[t] = "onUnlock" => ~locked'
  BY <1>1 DEF HandlerBegins
<1> QED
  BY <1>2, <1>4, <1>6, <1>7, <1>8 DEF FlagsFollow

(* A step that begins no handler leaves crossed as it was. *)
LEMMA CrossedStays ==
  ASSUME Next, ~Begins
  PROVE  crossed' = crossed
  BY NextRecords DEF History

(* Every step keeps the flags together. *)
LEMMA FlagsFollowStep ==
  ASSUME TypeOK, FlagsFollow, [Next]_vars
  PROVE  FlagsFollow'
<1>0. ASSUME Next, UNCHANGED <<mark, session, proximityLocked>> PROVE FlagsFollow'
  <2>1. crossed' = crossed
    BY <1>0, CrossedStays DEF Begins
  <2> QED
    BY <1>0, <2>1 DEF FlagsFollow, session
<1>9. mark \in [Threads -> {"idle", "onLock", "onUnlock", "cancel"}]
  BY DEF TypeOK
<1>10. Next => crossed' = IF Begins THEN BothKinds' ELSE crossed
  BY NextRecords DEF History
<1>1. CASE WindowsStep
  BY <1>0, <1>1 DEF Next, WindowsStep, WindowsLocks, UserUnlocks, UserLogsOff, UserLogsOn, proximity
<1>2. CASE ServiceStep
  <2>0. Next
    BY <1>2 DEF Next
  <2>1. CASE ServiceTakes
    <3>1. mark["svc"] = "idle" /\ proximityLocked' = proximityLocked
      BY <2>1 DEF ServiceTakes, proximity
    <3>2. \/ mark' = [mark EXCEPT !["svc"] = "onUnlock"] /\ ~locked'
          \/ mark' = [mark EXCEPT !["svc"] = "onLock"] /\ locked'
          \/ /\ mark' = [mark EXCEPT !["svc"] = "cancel"]
             /\ (activeSession' = None /\ ~locked') \/ UNCHANGED session
          \/ UNCHANGED <<mark, session>>
      BY <2>1 DEF ServiceTakes, MarkSessionActive, MarkLocked, MarkLoggedOff
    <3>3. CASE \/ mark' = [mark EXCEPT !["svc"] = "onUnlock"] /\ ~locked'
               \/ mark' = [mark EXCEPT !["svc"] = "onLock"] /\ locked'
      <4>1. mark'["ctl"] # "onLock"
        BY <1>9, <3>3 DEF FlagsFollow, Threads
      <4> QED
        BY <1>10, <2>0, <3>1, <3>3, <4>1, BeginFollows DEF HandlerBegins, Threads
    <3>4. CASE UNCHANGED <<mark, session>>
      BY <1>0, <2>0, <3>1, <3>4 DEF session
    <3>5. CASE /\ mark' = [mark EXCEPT !["svc"] = "cancel"]
               /\ (activeSession' = None /\ ~locked') \/ UNCHANGED session
      <4>1. \A t \in Threads : mark'[t] = mark[t] \/ mark'[t] = "cancel"
        BY <1>9, <3>5
      <4>2. crossed' = crossed /\ mark'["ctl"] # "onLock"
        BY <2>0, <4>1, CrossedStays DEF Begins, FlagsFollow, Threads
      <4>3. mark["ctl"] = mark'["ctl"] /\ mark'["svc"] = "cancel"
        BY <1>9, <3>5 DEF Threads
      <4>4. CASE UNCHANGED session
        BY <3>1, <4>2, <4>3, <4>4 DEF FlagsFollow, Threads, session
      <4>5. CASE activeSession' = None /\ ~locked'
        BY <3>1, <4>2, <4>3, <4>5 DEF FlagsFollow, Threads
      <4> QED
        BY <3>5, <4>4, <4>5
    <3> QED
      BY <3>2, <3>3, <3>4, <3>5
  <2>2. CASE MarkResume
    BY <1>0, <2>0, <2>2 DEF MarkResume
  <2>3. CASE OnLock
    <3>1. /\ mark["svc"] = "onLock" /\ proximityLocked' /\ UNCHANGED session
          /\ mark' = [mark EXCEPT !["svc"] = "idle"]
      BY <2>3 DEF OnLock
    <3>2. \A t \in Threads : mark'[t] = mark[t] \/ mark'[t] = "idle"
      BY <1>9, <3>1
    <3>3. crossed' = crossed
      BY <2>0, <3>2, CrossedStays DEF Begins
    <3>4. proximityLocked' = TRUE
      BY <2>3 DEF OnLock
    <3>5. locked \in BOOLEAN
      BY DEF TypeOK
    <3> QED
      BY <3>1, <3>2, <3>3, <3>4, <3>5 DEF FlagsFollow, Threads, session
  <2>4. ASSUME NEW t \in Threads, OnUnlock(t) PROVE FlagsFollow'
    <3>1. /\ mark[t] = "onUnlock" /\ proximityLocked' = FALSE /\ UNCHANGED session
          /\ mark' = [mark EXCEPT ![t] = "cancel"]
      BY <2>4 DEF OnUnlock
    <3>2. \A u \in Threads : mark'[u] = mark[u] \/ mark'[u] = "cancel"
      BY <1>9, <3>1
    <3>3. crossed' = crossed
      BY <2>0, <3>2, CrossedStays DEF Begins
    <3>4. ~crossed => locked = FALSE
      BY <3>1 DEF TypeOK, FlagsFollow
    <3>5. mark'["ctl"] # "onLock"
      BY <3>2 DEF FlagsFollow, Threads
    <3> QED
      BY <3>1, <3>2, <3>3, <3>4, <3>5 DEF FlagsFollow, session
  <2>5. ASSUME NEW t \in Threads, CancelGrant(t) PROVE FlagsFollow'
    <3>1. /\ mark[t] = "cancel" /\ UNCHANGED <<session, proximityLocked>>
          /\ mark' = [mark EXCEPT ![t] = "idle"]
      BY <2>5 DEF CancelGrant, proximity
    <3>2. \A u \in Threads : \/ mark'[u] = mark[u]
                             \/ mark[u] = "cancel" /\ mark'[u] = "idle"
      BY <1>9, <3>1
    <3>3. crossed' = crossed
      BY <2>0, <3>2, CrossedStays DEF Begins
    <3> QED
      BY <3>1, <3>2, <3>3 DEF FlagsFollow, session
  <2> QED
    BY <1>2, <2>1, <2>2, <2>3, <2>4, <2>5 DEF ServiceStep
<1>3. CASE AttemptStep
  BY <1>0, <1>3 DEF Next, AttemptStep, StartAttempt, PhoneAnswers, ExchangeFails, RecordProof,
    CreateGrant, SignalProvider, NotePrediction, ConfirmGuard, FinishAttempt, proximity
<1>4. CASE ProviderStep
  BY <1>0, <1>4 DEF Next, ProviderStep, LogonAsks, WatcherWakes, PeekCheck, PeekDrops, ConsumeCall,
    ConsumeCheck, ConsumeAnswer, WindowsAccepts, WindowsRejects, CallLost, ReportSuccess,
    InvalidateDisable, InvalidateConfig, InvalidateSecret, InvalidateSave, PeekCall, proximity
<1>5. CASE ControlStep
  <2>0. Next
    BY <1>5 DEF Next
  <2>1. CASE Announce
    <3>1. HandlerBegins("ctl") /\ mark'["ctl"] # "onLock"
      BY <1>9, <2>1 DEF Announce, MarkSessionActive, HandlerBegins, Threads
    <3> QED
      BY <1>10, <2>0, <3>1, BeginFollows DEF Threads
  <2>2. CASE Restart
    BY <2>2 DEF Restart, FlagsFollow, Threads
  <2>3. CASE ~Announce /\ ~Restart
    BY <1>0, <1>5, <2>0, <2>3 DEF ControlStep, SetPause, RevokeSecret, RevokeCancel, RevokeConfig,
      RevokeForget, SetDoppler, DropPrediction, NewPassword, SavePassword, Reload,
      ReloadManager, proximity
  <2> QED
    BY <2>1, <2>2, <2>3
<1>6. CASE Tick \/ \E challenge \in BOOLEAN : HandleCandidate(challenge)
  BY <1>0, <1>6 DEF Next, Tick, HandleCandidate, proximity
<1>7. CASE UNCHANGED vars
  BY <1>7 DEF vars, proximity, session, ghosts, FlagsFollow
<1> QED
  BY <1>1, <1>2, <1>3, <1>4, <1>5, <1>6, <1>7 DEF Next

(***************************************************************************)
(* Whenever no session handler is half-way, coordinator and proximity      *)
(* state agree on the lock, however session_active requests and session    *)
(* notifications follow on one another, unless a lock and an unlock were   *)
(* handled at the same time and no handler has begun since.                *)
(***************************************************************************)
THEOREM ViewsAgreeAlways == Spec => []ViewsAgree
<1>1. Init => FlagsFollow
  BY DEF Init, FlagsFollow, Threads
<1>2. TypeOK /\ FlagsFollow /\ [Next]_vars => FlagsFollow'
  BY FlagsFollowStep
<1>3. FlagsFollow => ViewsAgree
  BY DEF FlagsFollow, ViewsAgree
<1> QED
  BY <1>1, <1>2, <1>3, TypeCorrect, PTL DEF Spec

=============================================================================
