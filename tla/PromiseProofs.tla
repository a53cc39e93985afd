--------------------------- MODULE PromiseProofs ---------------------------
(***************************************************************************)
(* More proofs about Coordinator, for any sessions, proofs and lifetimes:  *)
(* it implements UnlockPromise, and what a grant carries is what the phone *)
(* signed, how old its proof is and whether the desktop was open since.    *)
(*                                                                         *)
(* All of them look at where a proof is, and of the many steps few move    *)
(* one.  So the steps are sorted once (Moves): the phone answers, a grant  *)
(* is issued, taken, cleared, its password handed over, time passes, and   *)
(* everything else, which at most takes something away (Fades).  After     *)
(* that a proof has one step per kind of move and not one per action.      *)
(***************************************************************************)
EXTENDS CoordinatorProofs

-----------------------------------------------------------------------------
(* The moves of a proof                                                    *)

(* The phone's answer gives the challenge goroutine a proof. *)
Answers ==
  \E p \in Proofs :
    /\ att.pc = "exchange" /\ ~Held(p)
    /\ att'.pc = "accept" /\ att'.proof = p
    /\ att'.session = att.session /\ att'.age = att.age
    /\ UNCHANGED <<grant, cp, session>> /\ Recorded

(* The goroutine's proof becomes the grant. *)
Issues ==
  /\ att.pc = "grant" /\ att'.pc = "signal"
  /\ att'.proof = att.proof /\ att'.session = att.session /\ att'.age = att.age
  /\ grant' = [session |-> att.session, proof |-> att.proof, age |-> att.age]
  /\ UNCHANGED <<cp, session>> /\ Recorded

(* The provider's call takes the grant from the manager. *)
Takes ==
  /\ cp.pc \in {"idle", "tile"} /\ grant.proof # None /\ grant.age <= GrantLife
  /\ cp' = [pc |-> "check", session |-> grant.session, proof |-> grant.proof]
  /\ grant' = Manager!NoGrant
  /\ UNCHANGED <<att, session>> /\ Recorded

(* The grant is found to be for the session that is locked. *)
Clears ==
  /\ cp.pc = "check" /\ SessionStillLocked
  /\ cp'.pc = "get" /\ cp'.proof = cp.proof /\ cp'.session = cp.session
  /\ UNCHANGED <<att, grant, session>> /\ Recorded

(* The provider gets the password. *)
Hands ==
  /\ cp.pc = "get" /\ password
  /\ cp'.pc = "submit" /\ cp'.proof = cp.proof /\ cp'.session = cp.session
  /\ UNCHANGED <<att, grant, session>> /\ Recorded

(* Time passes: what is pending grows older. *)
Grows ==
  /\ cp' = cp
  /\ att'.pc = att.pc /\ att'.proof = att.proof /\ att'.session = att.session
  /\ att'.age = IF AttemptProved THEN Older(att.age) ELSE att.age
  /\ grant'.proof = grant.proof /\ grant'.session = grant.session
  /\ grant.proof # None => grant'.age = Older(grant.age)
  /\ UNCHANGED session /\ History(TRUE)

(* Nothing comes nearer to the password: each place keeps what it has or   *)
(* gives it up, and the goroutine may go on with its proof or without one. *)
Fades ==
  /\ cp'.proof # None => cp' = cp
  /\ grant'.proof # None => grant' = grant
  /\ att'.proof # None =>
       /\ att'.proof = att.proof /\ att'.session = att.session /\ att'.age = att.age
       /\ att'.pc = "accept" => att.pc = "accept"
       /\ att'.pc = "grant" => att.pc \in {"accept", "grant"}
  /\ Recorded

Moves == Answers \/ Issues \/ Takes \/ Clears \/ Hands \/ Grows \/ Fades

(***************************************************************************)
(* Which places have a proof: the goroutine from the answer to the end of  *)
(* its attempt, the call from CONSUME to Windows' verdict.  Before the     *)
(* answer the goroutine's clock stands at zero.                            *)
(***************************************************************************)
Attempting ==
  /\ att.pc \in {"idle", "start", "exchange"} => att.proof = None
  /\ att.pc \in {"accept", "grant", "signal", "pending", "confirm"} => att.proof # None
  /\ att.pc \in {"idle", "start", "exchange", "accept"} => att.age = 0

Calling == cp.pc \in {"check", "get", "submit"} => cp.proof # None

(* Every step makes one of the moves, and the places stay as they should. *)
LEMMA StepMoves ==
  ASSUME TypeOK, InOnePlace, Attempting, Calling, Next
  PROVE  Moves /\ Attempting' /\ Calling'
<1> DEFINE Goal == Moves /\ Attempting' /\ Calling'
<1>9. att \in Attempts /\ cp \in Calls /\ grant \in Manager!GrantType
  BY DEF TypeOK, Manager!TypeOK
<1>0. ASSUME UNCHANGED <<grant, att, cp>>, Recorded PROVE Goal
  BY <1>0 DEF Moves, Fades, Attempting, Calling
<1> SUFFICES Goal
  OBVIOUS
<1> USE <1>9, NoneIsNothing DEF Moves, Attempting, Calling, manager
<1> HIDE DEF Goal
<1>1. CASE WindowsStep
  <2>1. CASE WindowsLocks
    BY <2>1, <1>0 DEF WindowsLocks
  <2>2. CASE UserUnlocks
    BY <2>2 DEF Goal, UserUnlocks, NoCall, Fades
  <2>3. CASE UserLogsOff
    BY <2>3, <1>0 DEF UserLogsOff
  <2>4. ASSUME NEW s \in Sessions, UserLogsOn(s) PROVE Goal
    BY <2>4, <1>0 DEF UserLogsOn
  <2> QED
    BY <1>1, <2>1, <2>2, <2>3, <2>4 DEF WindowsStep
<1>2. CASE ServiceStep
  <2>1. CASE ServiceTakes
    BY <2>1, <1>0 DEF ServiceTakes
  <2>2. CASE MarkResume
    BY <2>2, <1>0 DEF MarkResume
  <2>3. CASE OnLock
    BY <2>3, <1>0 DEF OnLock
  <2>4. ASSUME NEW t \in Threads, OnUnlock(t) PROVE Goal
    BY <2>4, <1>0 DEF OnUnlock
  <2>5. ASSUME NEW t \in Threads, CancelGrant(t) PROVE Goal
    BY <2>5 DEF Goal, CancelGrant, Manager!Cancel, Manager!NoGrant, Fades
  <2> QED
    BY <1>2, <2>1, <2>2, <2>3, <2>4, <2>5 DEF ServiceStep
<1>3. CASE AttemptStep
  <2>1. ASSUME NEW predicted \in BOOLEAN, StartAttempt(predicted) PROVE Goal
    BY <2>1 DEF Goal, StartAttempt, Attempts, Fades
  <2>2. ASSUME NEW p \in Proofs, PhoneAnswers(p) PROVE Goal
    BY <2>2 DEF Goal, PhoneAnswers, Attempts, Answers
  <2>3. CASE ExchangeFails
    BY <2>3 DEF Goal, ExchangeFails, Attempts, Fades
  <2>4. CASE RecordProof
    BY <2>4 DEF Goal, RecordProof, Attempts, Fades
  <2>5. CASE CreateGrant
    <3>1. CASE disabled
      BY <2>5, <3>1 DEF Goal, CreateGrant, Attempts, Fades
    <3>2. CASE ~disabled
      BY <2>5, <3>2 DEF Goal, CreateGrant, Manager!Grant, Attempts, Issues
    <3> QED
      BY <3>1, <3>2
  <2>6. CASE SignalProvider
    BY <2>6 DEF Goal, SignalProvider, Attempts, Fades
  <2>7. CASE NotePrediction
    BY <2>7 DEF Goal, NotePrediction, Attempts, Fades
  <2>8. CASE ConfirmGuard
    BY <2>8 DEF Goal, ConfirmGuard, Attempts, Fades
  <2>9. CASE FinishAttempt
    BY <2>9 DEF Goal, FinishAttempt, NoAttempt, Fades
  <2> QED
    BY <1>3, <2>1, <2>2, <2>3, <2>4, <2>5, <2>6, <2>7, <2>8, <2>9 DEF AttemptStep
<1>4. CASE ProviderStep
  <2>1. ASSUME PeekCall, Recorded PROVE Goal
    BY <2>1 DEF Goal, PeekCall, Manager!Peek, NoCall, Manager!NoGrant, Fades
  <2>2. CASE LogonAsks \/ WatcherWakes
    BY <2>1, <2>2 DEF LogonAsks, WatcherWakes
  <2>3. CASE PeekCheck
    BY <2>3 DEF Goal, PeekCheck, NoCall, Fades
  <2>4. CASE PeekDrops
    BY <2>4 DEF Goal, PeekDrops, Manager!Cancel, NoCall, Manager!NoGrant, Fades
  <2>5. CASE ConsumeCall
    <3>1. CASE Manager!Live
      <4>1. Takes
        BY <2>5, <3>1 DEF ConsumeCall, Manager!Consume, Manager!Live, Takes
      <4> QED
        BY <4>1 DEF Goal, Takes
    <3>2. CASE ~Manager!Live
      BY <2>5, <3>2 DEF Goal, ConsumeCall, Manager!Consume, Manager!NoGrant, NoCall, Fades
    <3> QED
      BY <3>1, <3>2
  <2>6. CASE ConsumeCheck
    <3>1. CASE SessionStillLocked /\ credentialValid
      BY <2>6, <3>1 DEF Goal, ConsumeCheck, Calls, Clears
    <3>2. CASE ~(SessionStillLocked /\ credentialValid)
      BY <2>6, <3>2 DEF Goal, ConsumeCheck, NoCall, Fades
    <3> QED
      BY <3>1, <3>2
  <2>7. CASE ConsumeAnswer
    <3>1. CASE password
      BY <2>7, <3>1 DEF Goal, ConsumeAnswer, Calls, Hands
    <3>2. CASE ~password
      BY <2>7, <3>2 DEF Goal, ConsumeAnswer, NoCall, Fades
    <3> QED
      BY <3>1, <3>2
  <2>8. CASE WindowsAccepts
    BY <2>8 DEF Goal, WindowsAccepts, NoCall, Fades
  <2>9. CASE WindowsRejects \/ CallLost
    BY <2>9 DEF Goal, WindowsRejects, CallLost, NoCall, Fades
  <2>10. CASE ReportSuccess
    BY <2>10 DEF Goal, ReportSuccess, Manager!Cancel, NoCall, Manager!NoGrant, Fades
  <2>11. CASE InvalidateDisable
    BY <2>11 DEF Goal, InvalidateDisable, Manager!Disable, Manager!NoGrant, Calls, Fades,
      InOnePlace, Apart
  <2>12. CASE InvalidateConfig \/ InvalidateSecret
    BY <2>12 DEF Goal, InvalidateConfig, InvalidateSecret, Calls, Fades, InOnePlace, Apart
  <2>13. CASE InvalidateSave
    BY <2>13 DEF Goal, InvalidateSave, NoCall, Fades
  <2> QED
    BY <1>4, <2>2, <2>3, <2>4, <2>5, <2>6, <2>7, <2>8, <2>9, <2>10, <2>11, <2>12, <2>13
    DEF ProviderStep
<1>5. CASE ControlStep
  <2>1. CASE Announce \/ SetPause
    BY <2>1, <1>0 DEF Announce, SetPause
  <2>2. CASE Restart
    BY <2>2 DEF Goal, Restart, NoCall, NoAttempt, Manager!NoGrant, Fades
  <2>3. CASE RevokeSecret \/ RevokeConfig \/ RevokeForget
    BY <2>3, <1>0 DEF RevokeSecret, RevokeConfig, RevokeForget
  <2>4. CASE RevokeCancel
    BY <2>4 DEF Goal, RevokeCancel, Manager!Cancel, Manager!NoGrant, Fades
  <2>5. CASE SetDoppler \/ DropPrediction
    BY <2>5, <1>0 DEF SetDoppler, DropPrediction
  <2>6. CASE NewPassword \/ SavePassword \/ Reload
    BY <2>6, <1>0 DEF NewPassword, SavePassword, Reload
  <2>7. CASE ReloadManager
    BY <2>7 DEF Goal, ReloadManager, Manager!Enable, Manager!Disable, Manager!NoGrant, Fades
  <2> QED
    BY <1>5, <2>1, <2>2, <2>3, <2>4, <2>5, <2>6, <2>7 DEF ControlStep
<1>6. ASSUME NEW challenge \in BOOLEAN, HandleCandidate(challenge) PROVE Goal
  BY <1>6 DEF Goal, HandleCandidate, NoAttempt, Fades
<1>7. CASE Tick
  <2>1. Grows
    BY <1>7 DEF Tick, Manager!Age, Attempts, Manager!GrantType, Grows, Older
  <2> QED
    BY <1>7, <2>1 DEF Goal, Grows, Tick, AttemptProved
<1> QED
  BY <1>1, <1>2, <1>3, <1>4, <1>5, <1>6, <1>7 DEF Next

(* What is locked is the active session: MarkLocked is told which, and    *)
(* whatever ends the session or the service ends the lock with it.         *)
LockedIsActive == locked => activeSession # None

LEMMA LockedIsActiveStep == TypeOK /\ LockedIsActive /\ [Next]_vars => LockedIsActive'
<1> SUFFICES ASSUME TypeOK, LockedIsActive, [Next]_vars PROVE LockedIsActive'
  OBVIOUS
<1> USE NoneIsNothing DEF LockedIsActive, session
<1>1. CASE WindowsStep
  BY <1>1 DEF WindowsStep, WindowsLocks, UserUnlocks, UserLogsOff, UserLogsOn
<1>2. CASE ServiceStep
  <2>1. CASE ServiceTakes
    <3>1. Head(notices).session \in Sessions
      <4>1. notices \in Seq(Notices) /\ notices # <<>>
        BY <2>1 DEF ServiceTakes, TypeOK
      <4>2. Head(notices) \in Notices
        BY <4>1
      <4> QED
        BY <4>2 DEF Notices
    <3> QED
      BY <2>1, <3>1 DEF ServiceTakes, MarkSessionActive, MarkLocked, MarkLoggedOff
  <2>2. CASE MarkResume \/ OnLock
    BY <2>2 DEF MarkResume, OnLock
  <2>3. ASSUME NEW t \in Threads, OnUnlock(t) \/ CancelGrant(t) PROVE LockedIsActive'
    BY <2>3 DEF OnUnlock, CancelGrant
  <2> QED
    BY <1>2, <2>1, <2>2, <2>3 DEF ServiceStep
<1>3. CASE AttemptStep
  BY <1>3 DEF AttemptStep, StartAttempt, PhoneAnswers, ExchangeFails, RecordProof, CreateGrant,
    SignalProvider, NotePrediction, ConfirmGuard, FinishAttempt
<1>4. CASE ProviderStep
  BY <1>4 DEF ProviderStep, LogonAsks, WatcherWakes, PeekCheck, PeekDrops, ConsumeCall,
    ConsumeCheck, ConsumeAnswer, WindowsAccepts, WindowsRejects, CallLost, ReportSuccess,
    InvalidateDisable, InvalidateConfig, InvalidateSecret, InvalidateSave, PeekCall
<1>5. CASE ControlStep
  BY <1>5 DEF ControlStep, Announce, MarkSessionActive, SetPause, Restart, RevokeSecret,
    RevokeCancel, RevokeConfig, RevokeForget, SetDoppler, DropPrediction, NewPassword,
    SavePassword, Reload, ReloadManager
<1>6. CASE Tick \/ \E challenge \in BOOLEAN : HandleCandidate(challenge)
  BY <1>6 DEF Tick, HandleCandidate
<1>7. CASE UNCHANGED vars
  BY <1>7 DEF vars
<1> QED
  BY <1>1, <1>2, <1>3, <1>4, <1>5, <1>6, <1>7 DEF Next

-----------------------------------------------------------------------------
(* The refinement of UnlockPromise                                         *)

(* What the refinement rests on, beside one use of a proof. *)
Placed == Attempting /\ Calling /\ LockedIsActive

(* At the start no proof is about and nothing is locked. *)
LEMMA PlacedInit == Init => Placed
  BY DEF Init, Placed, Attempting, Calling, LockedIsActive, NoAttempt, NoCall

(* Every step keeps the places and the session. *)
LEMMA PlacedStep == TypeOK /\ InOnePlace /\ Placed /\ [Next]_vars => Placed'
<1> SUFFICES ASSUME TypeOK, InOnePlace, Placed, [Next]_vars PROVE Placed'
  OBVIOUS
<1>1. LockedIsActive'
  BY LockedIsActiveStep DEF Placed
<1>2. CASE Next
  BY <1>1, <1>2, StepMoves DEF Placed
<1>3. CASE UNCHANGED vars
  BY <1>1, <1>3 DEF vars, Placed, Attempting, Calling
<1> QED
  BY <1>2, <1>3

(* In every reachable state the proofs are in their places. *)
LEMMA AlwaysPlaced == Spec => [](TypeOK /\ OneUse /\ InOnePlace /\ Placed)
<1>1. TypeOK /\ InOnePlace /\ Placed /\ [Next]_vars => Placed'
  BY PlacedStep
<1> QED
  BY TypeCorrect, OneUseCorrect, PlacedInit, <1>1, PTL DEF Spec

(* The locked session of the promise. *)
LockedSession == IF locked THEN activeSession ELSE None

(* How far a proof has come, by the place it is in. *)
LEMMA Claims ==
  ASSUME Apart, NEW p \in Proofs
  PROVE  /\ cp.proof = p => ClaimOf(p).session = cp.session
         /\ cp.proof = p /\ cp.pc = "check" => ClaimOf(p).stage = "taken"
         /\ cp.proof = p /\ cp.pc = "get" => ClaimOf(p).stage = "cleared"
         /\ cp.proof = p /\ cp.pc = "submit" => ClaimOf(p).stage = "released"
         /\ grant.proof = p => ClaimOf(p) = [stage |-> "granted", session |-> grant.session]
         /\ att.proof = p /\ att.pc \in {"accept", "grant"}
              => ClaimOf(p) = [stage |-> "proved", session |-> att.session]
         /\ ~OnItsWay(p) /\ cp.proof # p => ClaimOf(p) = Promise!NoClaim
  BY NoneIsNothing DEF Apart, ClaimOf, OnItsWay, Promise!NoClaim

(* A move that lets no proof come nearer is a GiveUp of the promise. *)
LEMMA FadesGivesUp ==
  ASSUME TypeOK, Apart, Fades, Apart', TypeOK', Calling', Attempting'
  PROVE  Promise!GiveUp
<1>1. ASSUME NEW p \in Proofs
      PROVE  ClaimOf(p)' \in {ClaimOf(p), Promise!NoClaim}
  <2>1. CASE cp'.proof = p
    BY <2>1, NoneIsNothing DEF Fades, ClaimOf
  <2>2. CASE cp'.proof # p /\ grant'.proof = p
    <3>1. grant' = grant /\ cp.proof # p
      BY <2>2, NoneIsNothing DEF Fades, Apart
    <3> QED
      BY <2>2, <3>1 DEF ClaimOf
  <2>3. CASE cp'.proof # p /\ grant'.proof # p /\ att'.proof = p /\ att'.pc \in {"accept", "grant"}
    <3>1. att.proof = p /\ att.pc \in {"accept", "grant"} /\ att'.session = att.session
      BY <2>3, NoneIsNothing DEF Fades
    <3>2. cp.proof # p /\ grant.proof # p
      BY <3>1, NoneIsNothing DEF Apart
    <3> QED
      BY <2>3, <3>1, <3>2 DEF ClaimOf
  <2>4. CASE cp'.proof # p /\ grant'.proof # p /\ ~(att'.proof = p /\ att'.pc \in {"accept", "grant"})
    BY <2>4 DEF ClaimOf, Promise!NoClaim
  <2> QED
    BY <2>1, <2>2, <2>3, <2>4
<1> DEFINE lost == {p \in Proofs : ClaimOf(p)' # ClaimOf(p)}
<1>2. [p \in Proofs |-> ClaimOf(p)]' = [p \in Proofs |-> IF p \in lost THEN Promise!NoClaim
                                                       ELSE [q \in Proofs |-> ClaimOf(q)][p]]
  BY <1>1
<1>3. LockedSession' \in Sessions \cup {None}
  BY DEF LockedSession, TypeOK
<1>4. lost \in SUBSET Proofs
  OBVIOUS
<1> QED
  BY <1>2, <1>3, <1>4 DEF Promise!GiveUp, LockedSession

(* Each move of a proof is the step of the promise that it is named after. *)
LEMMA MovesKeepPromise ==
  ASSUME TypeOK, Apart, Placed, Moves, TypeOK', Apart', Placed'
  PROVE  [Promise!Next]_Promise!vars
<1> DEFINE claim == [p \in Proofs |-> ClaimOf(p)]
<1>0. ASSUME UNCHANGED session PROVE LockedSession' = LockedSession
  BY <1>0 DEF session, LockedSession
<1>1. CASE Answers
  <2>1. PICK p \in Proofs :
          /\ ~Held(p) /\ att'.pc = "accept" /\ att'.proof = p /\ att'.session = att.session
          /\ att.pc = "exchange" /\ UNCHANGED <<grant, cp, session>>
    BY <1>1 DEF Answers
  <2>2. claim[p] = Promise!NoClaim
    BY <2>1 DEF ClaimOf, Held, Promise!NoClaim
  <2>3. claim' = [claim EXCEPT ![p] = [stage |-> "proved", session |-> att.session]]
    BY <2>1, NoneIsNothing DEF ClaimOf, Held
  <2>4. att.session \in Sessions \cup {None}
    BY DEF TypeOK, Attempts
  <2>5. LockedSession' = LockedSession
    BY <2>1, <1>0
  <2>6. Promise!Prove(p, att.session)
    BY <2>2, <2>3, <2>5 DEF Promise!Prove, LockedSession
  <2> QED
    BY <2>4, <2>6 DEF Promise!Next
<1>2. CASE Issues
  <2>1. att.proof \in Proofs
    BY <1>2 DEF Issues, Placed, Attempting, TypeOK, Attempts
  <2>2. claim[att.proof] = [stage |-> "proved", session |-> att.session]
    BY <1>2, <2>1, Claims DEF Issues
  <2>3. claim' = [q \in Proofs |->
                   IF q = att.proof THEN [claim[att.proof] EXCEPT !.stage = "granted"]
                   ELSE IF claim[q].stage = "granted" THEN Promise!NoClaim
                   ELSE claim[q]]
    <3>1. ASSUME NEW q \in Proofs
          PROVE  ClaimOf(q)' = IF q = att.proof THEN [stage |-> "granted", session |-> att.session]
                               ELSE IF ClaimOf(q).stage = "granted" THEN Promise!NoClaim
                               ELSE ClaimOf(q)
      <4>1. cp' = cp /\ grant'.proof = att.proof /\ grant'.session = att.session
        BY <1>2 DEF Issues
      <4>2. CASE q = att.proof
        <5>1. cp.proof # q
          BY <1>2, <2>1, <4>2, NoneIsNothing DEF Issues, Apart
        <5> QED
          BY <4>1, <4>2, <5>1 DEF ClaimOf
      <4>3. CASE q # att.proof /\ cp.proof = q
        BY <4>1, <4>3 DEF ClaimOf
      <4>4. CASE q # att.proof /\ cp.proof # q
        <5>1. ClaimOf(q)' = Promise!NoClaim
          BY <1>2, <4>1, <4>4 DEF Issues, ClaimOf, Promise!NoClaim
        <5>2. ClaimOf(q).stage = "granted" \/ ClaimOf(q) = Promise!NoClaim
          BY <4>4 DEF ClaimOf, Promise!NoClaim
        <5> QED
          BY <4>4, <5>1, <5>2
      <4> QED
        BY <4>2, <4>3, <4>4
    <3>2. [claim[att.proof] EXCEPT !.stage = "granted"] = [stage |-> "granted", session |-> att.session]
      BY <2>2
    <3> QED
      BY <2>1, <3>1, <3>2
  <2>4. LockedSession' = LockedSession
    BY <1>0, <1>2 DEF Issues
  <2>5. claim[att.proof].stage = "proved"
    BY <2>2
  <2>6. Promise!Issue(att.proof)
    BY <2>3, <2>4, <2>5 DEF Promise!Issue, LockedSession
  <2> QED
    BY <2>1, <2>6 DEF Promise!Next
<1>3. CASE Takes
  <2>1. grant.proof \in Proofs
    BY <1>3 DEF Takes, TypeOK, Manager!TypeOK, Manager!GrantType
  <2>2. cp.proof = None
    BY <1>3 DEF Takes, Apart
  <2>3. \A q \in Proofs : claim[q].stage \notin {"taken", "cleared", "released"}
    BY <2>2, NoneIsNothing DEF ClaimOf
  <2>4. claim[grant.proof] = [stage |-> "granted", session |-> grant.session]
    BY <2>1, Claims
  <2>5. claim' = [claim EXCEPT ![grant.proof].stage = "taken"]
    <3>1. ASSUME NEW q \in Proofs
          PROVE  ClaimOf(q)' = IF q = grant.proof THEN [stage |-> "taken", session |-> grant.session]
                               ELSE ClaimOf(q)
      <4>1. /\ cp' = [pc |-> "check", session |-> grant.session, proof |-> grant.proof]
            /\ grant'.proof = None /\ att' = att
        BY <1>3 DEF Takes, Manager!NoGrant
      <4> QED
        BY <2>2, <4>1, NoneIsNothing DEF ClaimOf
    <3>2. [claim[grant.proof] EXCEPT !.stage = "taken"] = [stage |-> "taken", session |-> grant.session]
      BY <2>4
    <3> QED
      BY <2>1, <3>1, <3>2
  <2>6. LockedSession' = LockedSession
    BY <1>0, <1>3 DEF Takes
  <2>7. claim[grant.proof].stage = "granted"
    BY <2>4
  <2>8. Promise!Take(grant.proof)
    BY <2>3, <2>5, <2>6, <2>7 DEF Promise!Take, Promise!Advance, LockedSession
  <2> QED
    BY <2>1, <2>8 DEF Promise!Next
<1>4. ASSUME NEW from, NEW to,
             cp.proof \in Proofs, cp'.proof = cp.proof, cp'.session = cp.session,
             UNCHANGED <<att, grant, session>>,
             ClaimOf(cp.proof) = [stage |-> from, session |-> cp.session],
             ClaimOf(cp.proof)' = [stage |-> to, session |-> cp.session]
      PROVE  Promise!Advance(cp.proof, from, to)
  <2>1. claim' = [claim EXCEPT ![cp.proof].stage = to]
    <3>1. ASSUME NEW q \in Proofs
          PROVE  ClaimOf(q)' = IF q = cp.proof THEN [stage |-> to, session |-> cp.session]
                               ELSE ClaimOf(q)
      <4>1. CASE q = cp.proof
        BY <1>4, <4>1
      <4>2. CASE q # cp.proof
        BY <1>4, <4>2 DEF ClaimOf
      <4> QED
        BY <4>1, <4>2
    <3>2. [claim[cp.proof] EXCEPT !.stage = to] = [stage |-> to, session |-> cp.session]
      BY <1>4
    <3> QED
      BY <1>4, <3>1, <3>2
  <2>2. LockedSession' = LockedSession
    BY <1>0, <1>4
  <2>3. claim[cp.proof].stage = from
    BY <1>4
  <2> QED
    BY <2>1, <2>2, <2>3 DEF Promise!Advance, LockedSession
<1>5. cp.pc \in {"check", "get"} => cp.proof \in Proofs
  BY DEF Placed, Calling, TypeOK, Calls
<1>6. CASE Clears
  <2>1. cp.proof \in Proofs /\ cp'.proof = cp.proof /\ cp'.session = cp.session
    BY <1>5, <1>6 DEF Clears
  <2>2. ClaimOf(cp.proof) = [stage |-> "taken", session |-> cp.session]
    BY <1>6 DEF Clears, ClaimOf
  <2>3. ClaimOf(cp.proof)' = [stage |-> "cleared", session |-> cp.session]
    BY <1>6 DEF Clears, ClaimOf
  <2>4. Promise!Advance(cp.proof, "taken", "cleared")
    BY <1>4, <1>6, <2>1, <2>2, <2>3 DEF Clears
  <2>5. LockedSession # None /\ claim[cp.proof].session = LockedSession
    BY <1>6, <2>1, <2>2 DEF Clears, SessionStillLocked, LockedSession, Placed, LockedIsActive
  <2>6. Promise!Clear(cp.proof)
    BY <2>4, <2>5 DEF Promise!Clear, LockedSession
  <2> QED
    BY <2>1, <2>6 DEF Promise!Next
<1>7. CASE Hands
  <2>1. cp.proof \in Proofs /\ cp'.proof = cp.proof /\ cp'.session = cp.session
    BY <1>5, <1>7 DEF Hands
  <2>2. ClaimOf(cp.proof) = [stage |-> "cleared", session |-> cp.session]
    BY <1>7 DEF Hands, ClaimOf
  <2>3. ClaimOf(cp.proof)' = [stage |-> "released", session |-> cp.session]
    BY <1>7 DEF Hands, ClaimOf
  <2>4. Promise!Advance(cp.proof, "cleared", "released")
    BY <1>4, <1>7, <2>1, <2>2, <2>3 DEF Hands
  <2> QED
    BY <2>1, <2>4 DEF Promise!Next, Promise!Release
<1>8. CASE Grows
  <2>1. \A q \in Proofs : ClaimOf(q)' = ClaimOf(q)
    BY <1>8 DEF Grows, ClaimOf
  <2>2. claim' = claim /\ LockedSession' = LockedSession
    BY <1>0, <1>8, <2>1 DEF Grows
  <2> QED
    BY <2>2 DEF Promise!vars, LockedSession
<1>9. CASE Fades
  BY <1>9, FadesGivesUp DEF Placed, Promise!Next
<1> QED
  BY <1>1, <1>2, <1>3, <1>6, <1>7, <1>8, <1>9 DEF Moves

(* Every step of the coordinator is one of the promise, or a stutter. *)
LEMMA StepKeepsPromise ==
  ASSUME TypeOK, InOnePlace, Placed, [Next]_vars, TypeOK', InOnePlace', Placed'
  PROVE  [Promise!Next]_Promise!vars
<1>1. CASE Next
  BY <1>1, StepMoves, MovesKeepPromise DEF InOnePlace, Placed
<1>2. CASE UNCHANGED vars
  <2>1. UNCHANGED <<cp, grant, att, locked, activeSession>>
    BY <1>2 DEF vars, manager, session
  <2>2. \A q \in Proofs : ClaimOf(q)' = ClaimOf(q)
    BY <2>1 DEF ClaimOf
  <2> QED
    BY <2>1, <2>2 DEF Promise!vars
<1> QED
  BY <1>1, <1>2

(* The coordinator starts as the promise does. *)
LEMMA InitKeepsPromise == Init => Promise!Init
  BY NoneIsNothing DEF Init, Promise!Init, Promise!NoClaim, ClaimOf, NoAttempt, NoCall,
     Manager!NoGrant

(* The coordinator implements UnlockPromise, for any sessions, proofs and *)
(* lifetimes and whatever the rarer events: the password is released only *)
(* for a proof that was granted, then taken once from the manager and     *)
(* cleared against the locked session, in this order (authenticate,       *)
(* Manager, HandleAuth).                                                  *)
THEOREM Implementation == Spec => KeepsPromise
<1>1. TypeOK /\ InOnePlace /\ Placed /\ [Next]_vars /\ TypeOK' /\ InOnePlace' /\ Placed'
        => [Promise!Next]_Promise!vars
  BY StepKeepsPromise
<1> QED
  BY <1>1, InitKeepsPromise, AlwaysPlaced, PTL DEF Spec, KeepsPromise, Promise!Spec

-----------------------------------------------------------------------------
(* What a proof carries                                                    *)

(* A proof that is nowhere has no past. *)
Forgotten == \A p \in Proofs : ~Held(p) => history[p] = Unused

(* Wherever a proof is, the session kept with it is the one its challenge  *)
(* named: the goroutine's, the grant's, the call's. *)
SessionKept ==
  /\ att.proof # None /\ att.pc # "accept" => history[att.proof].session = att.session
  /\ grant.proof # None => history[grant.proof].session = grant.session
  /\ cp.proof # None => history[cp.proof].session = cp.session

(* Until the proof is taken, the time kept with it is its age.             *)
AgeKept ==
  /\ att.pc \in {"accept", "grant"} => history[att.proof].age = att.age
  /\ grant.proof # None => history[grant.proof].age = grant.age

Carried == Forgotten /\ SessionKept /\ AgeKept

(* A step records for a proof that is still held what became of it. *)
LEMMA Recording ==
  ASSUME TypeOK, NEW ticked \in BOOLEAN, History(ticked), NEW p \in Proofs
  PROVE  /\ Held(p)' => /\ history'[p].age = NextHistory(p, ticked).age
                        /\ history'[p].session = NextHistory(p, ticked).session
                        /\ history'[p].stale = NextHistory(p, ticked).stale
         /\ ~Held(p)' => history'[p] = Unused
  BY DEF History

(* Every step keeps what a proof carries. *)
LEMMA CarriedStep ==
  ASSUME TypeOK, InOnePlace, Placed, Carried, Next, TypeOK', InOnePlace', Placed'
  PROVE  Carried'
<1>1. PICK ticked \in BOOLEAN : History(ticked)
  BY NextRecords
<1>2. Moves
  BY StepMoves DEF Placed
<1>3. Forgotten'
  BY <1>1, Recording DEF Forgotten
<1>4. SessionKept'
  <2>1. ASSUME NEW p \in Proofs, Held(p)'
        PROVE  history'[p].session = IF att.proof = p THEN att.session ELSE history[p].session
    BY <1>1, <2>1, Recording DEF NextHistory
  <2>2. /\ att'.proof \in Proofs \cup {None} /\ grant'.proof \in Proofs \cup {None}
        /\ cp'.proof \in Proofs \cup {None}
    BY DEF TypeOK, Attempts, Calls, Manager!TypeOK, Manager!GrantType
  <2> USE NoneIsNothing, <2>1, <2>2
      DEF SessionKept, Carried, Held, InOnePlace, Apart, Placed, Attempting, Calling
  <2>3. CASE Answers
    BY <2>3 DEF Answers
  <2>4. CASE Issues
    BY <2>4 DEF Issues
  <2>5. CASE Takes
    BY <2>5 DEF Takes, Manager!NoGrant
  <2>6. CASE Clears
    BY <2>6 DEF Clears
  <2>7. CASE Hands
    BY <2>7 DEF Hands
  <2>8. CASE Grows
    BY <2>8 DEF Grows
  <2>9. CASE Fades
    BY <2>9 DEF Fades
  <2> QED
    BY <1>2, <2>3, <2>4, <2>5, <2>6, <2>7, <2>8, <2>9 DEF Moves
<1>5. AgeKept'
  <2>1. /\ att'.proof \in Proofs \cup {None} /\ grant'.proof \in Proofs \cup {None}
        /\ cp'.proof \in Proofs \cup {None}
    BY DEF TypeOK, Attempts, Calls, Manager!TypeOK, Manager!GrantType
  <2>2. ASSUME Recorded, NEW p \in Proofs, Held(p)' PROVE history'[p].age = history[p].age
    BY <2>2, Recording DEF Recorded, NextHistory
  <2> USE NoneIsNothing, <2>1
      DEF AgeKept, Carried, Held, InOnePlace, Apart, Placed, Attempting, Calling
  <2>3. CASE Answers
    BY <2>2, <2>3 DEF Answers, Forgotten, Unused
  <2>4. CASE Issues
    BY <2>2, <2>4 DEF Issues
  <2>5. CASE Takes
    BY <2>2, <2>5 DEF Takes, Manager!NoGrant
  <2>6. CASE Clears
    BY <2>2, <2>6 DEF Clears
  <2>7. CASE Hands
    BY <2>2, <2>7 DEF Hands
  <2>8. CASE Grows
    <3>1. ASSUME NEW p \in Proofs, Held(p)'
          PROVE  history'[p].age = IF cp.proof # p /\ ~(att.proof = p /\ att.pc = "accept")
                                     THEN Older(history[p].age) ELSE history[p].age
      BY <2>8, <3>1, Recording DEF Grows, NextHistory
    <3> QED
      BY <2>8, <3>1 DEF Grows, AttemptProved
  <2>9. CASE Fades
    BY <2>2, <2>9 DEF Fades
  <2> QED
    BY <1>2, <2>3, <2>4, <2>5, <2>6, <2>7, <2>8, <2>9 DEF Moves
<1> QED
  BY <1>3, <1>4, <1>5 DEF Carried

(* At the start no proof has a past. *)
LEMMA CarriedInit == Init => Carried
  BY NoneIsNothing DEF Init, Carried, Forgotten, SessionKept, AgeKept, NoAttempt, NoCall,
     Manager!NoGrant

(* In every reachable state a proof carries what it should. *)
LEMMA AlwaysCarried == Spec => []Carried
<1>1. TypeOK /\ InOnePlace /\ Placed /\ Carried /\ [Next]_vars /\ TypeOK' /\ InOnePlace' /\ Placed'
        => Carried'
  <2>1. UNCHANGED vars /\ Carried => Carried'
    BY DEF vars, manager, ghosts, Carried, Forgotten, SessionKept, AgeKept, Held
  <2> QED
    BY <2>1, CarriedStep
<1> QED
  BY <1>1, CarriedInit, AlwaysPlaced, PTL DEF Spec

(* The password goes out only for the session the phone signed for, and   *)
(* while that session is known as locked: the session is copied from the  *)
(* attempt to the grant and to the call, and asked for last               *)
(* (SessionStillLocked).                                                  *)
THEOREM BoundToSessionAlways == Spec => BoundToSession
<1>1. TypeOK /\ InOnePlace /\ Placed /\ Carried /\ [Next]_vars /\ Placed'
        => [cp.pc = "check" /\ cp'.pc = "get"
              => locked /\ activeSession = history[cp.proof].session]_vars
  <2> SUFFICES ASSUME TypeOK, InOnePlace, Placed, Carried, Next, Placed',
                      cp.pc = "check", cp'.pc = "get"
               PROVE  locked /\ activeSession = history[cp.proof].session
    OBVIOUS
  <2>1. Moves
    BY StepMoves DEF Placed
  <2>2. Clears
    BY <2>1 DEF Moves, Answers, Issues, Takes, Clears, Hands, Grows, Fades, Placed, Calling
  <2> QED
    BY <2>2 DEF Clears, SessionStillLocked, Placed, Calling, Carried, SessionKept
<1> QED
  BY <1>1, AlwaysPlaced, AlwaysCarried, PTL DEF Spec, BoundToSession

(* A grant is honoured only while the proof behind it is at most GrantLife *)
(* old, however long the goroutine took to grant it: the age is counted    *)
(* from the proof and copied with it (Manager.Grant, Manager.Consume).     *)
THEOREM FreshUseAlways == Spec => FreshUse
<1>1. TypeOK /\ InOnePlace /\ Placed /\ Carried /\ [Next]_vars /\ Placed'
        => [Consumed => history[cp'.proof].age <= GrantLife]_vars
  <2> SUFFICES ASSUME TypeOK, InOnePlace, Placed, Carried, Next, Placed', Consumed
               PROVE  history[cp'.proof].age <= GrantLife
    OBVIOUS
  <2>1. Moves
    BY StepMoves DEF Placed
  <2>2. Takes
    BY <2>1 DEF Moves, Consumed, Answers, Issues, Clears, Hands, Grows, Fades, Placed, Calling
  <2> QED
    BY <2>2 DEF Takes, Carried, AgeKept
<1> QED
  BY <1>1, AlwaysPlaced, AlwaysCarried, PTL DEF Spec, FreshUse

-----------------------------------------------------------------------------
(* A grant does not outlive an unlock                                      *)

(* A handler that has seen a session open or end has not cancelled yet. *)
Cancelling == \E t \in Threads : mark[t] \in {"onUnlock", "cancel"}

(* What was granted before an unlock is waiting to be cancelled, and what  *)
(* has not been granted yet is not stale.                                  *)
StaleCaught ==
  /\ att.pc \in {"accept", "grant"} => ~history[att.proof].stale
  /\ grant.proof # None /\ history[grant.proof].stale => Cancelling

(* While a grant stays, an unlock leaves a handler that will cancel, and   *)
(* such a handler stays until it has.                                      *)
Follows ==
  grant'.proof # None => /\ locked /\ ~locked' => Cancelling'
                         /\ Cancelling => Cancelling'

(* Every step of every actor is of that kind. *)
LEMMA StepFollows == ASSUME TypeOK, Next PROVE Follows
<1>0. ASSUME UNCHANGED <<mark, session>> PROVE Follows
  BY <1>0 DEF Follows, Cancelling, session
<1>9. mark \in [Threads -> {"idle", "onLock", "onUnlock", "cancel"}]
  BY DEF TypeOK
<1>1. CASE WindowsStep
  BY <1>0, <1>1 DEF WindowsStep, WindowsLocks, UserUnlocks, UserLogsOff, UserLogsOn
<1>2. CASE ServiceStep
  <2>1. CASE ServiceTakes
    <3>1. mark["svc"] = "idle"
      BY <2>1 DEF ServiceTakes
    <3>2. \/ mark' = [mark EXCEPT !["svc"] = "onUnlock"]
          \/ mark' = [mark EXCEPT !["svc"] = "onLock"] /\ locked'
          \/ mark' = [mark EXCEPT !["svc"] = "cancel"]
          \/ UNCHANGED <<mark, session>>
      BY <2>1 DEF ServiceTakes, MarkSessionActive, MarkLocked, MarkLoggedOff
    <3> QED
      BY <1>0, <1>9, <3>1, <3>2 DEF Follows, Cancelling, Threads
  <2>2. CASE MarkResume
    BY <1>0, <2>2 DEF MarkResume
  <2>3. CASE OnLock
    BY <1>9, <2>3 DEF OnLock, Follows, Cancelling, Threads, session
  <2>4. ASSUME NEW t \in Threads, OnUnlock(t) PROVE Follows
    BY <1>9, <2>4 DEF OnUnlock, Follows, Cancelling, session
  <2>5. ASSUME NEW t \in Threads, CancelGrant(t) PROVE Follows
    BY <2>5 DEF CancelGrant, Manager!Cancel, Manager!NoGrant, Follows
  <2> QED
    BY <1>2, <2>1, <2>2, <2>3, <2>4, <2>5 DEF ServiceStep
<1>3. CASE AttemptStep
  BY <1>0, <1>3 DEF AttemptStep, StartAttempt, PhoneAnswers, ExchangeFails, RecordProof,
    CreateGrant, SignalProvider, NotePrediction, ConfirmGuard, FinishAttempt
<1>4. CASE ProviderStep
  BY <1>0, <1>4 DEF ProviderStep, LogonAsks, WatcherWakes, PeekCheck, PeekDrops, ConsumeCall,
    ConsumeCheck, ConsumeAnswer, WindowsAccepts, WindowsRejects, CallLost, ReportSuccess,
    InvalidateDisable, InvalidateConfig, InvalidateSecret, InvalidateSave, PeekCall
<1>5. CASE ControlStep
  <2>1. CASE Announce
    BY <1>9, <2>1 DEF Announce, MarkSessionActive, Follows, Cancelling, Threads
  <2>2. CASE Restart
    BY <2>2 DEF Restart, Manager!NoGrant, Follows
  <2>3. CASE ControlStep /\ ~Announce /\ ~Restart
    BY <1>0, <2>3 DEF ControlStep, SetPause, RevokeSecret, RevokeCancel, RevokeConfig,
      RevokeForget, SetDoppler, DropPrediction, NewPassword, SavePassword, Reload, ReloadManager
  <2> QED
    BY <1>5, <2>1, <2>2, <2>3
<1>6. CASE Tick \/ \E challenge \in BOOLEAN : HandleCandidate(challenge)
  BY <1>0, <1>6 DEF Tick, HandleCandidate
<1> QED
  BY <1>1, <1>2, <1>3, <1>4, <1>5, <1>6 DEF Next

(* Every step catches the grants it makes stale. *)
LEMMA StaleCaughtStep ==
  ASSUME TypeOK, InOnePlace, Placed, Carried, StaleCaught, Next, TypeOK', Placed'
  PROVE  StaleCaught'
<1>1. PICK ticked \in BOOLEAN : History(ticked)
  BY NextRecords
<1>2. Moves /\ Follows
  BY StepMoves, StepFollows DEF Placed
<1>3. ASSUME NEW p \in Proofs, Held(p)'
      PROVE  history'[p].stale <=> history[p].stale \/ (grant.proof = p /\ locked /\ ~locked')
  BY <1>1, <1>3, Recording DEF NextHistory
<1>4. att'.proof \in Proofs \cup {None} /\ grant'.proof \in Proofs \cup {None}
  BY DEF TypeOK, Attempts, Manager!TypeOK, Manager!GrantType
<1> USE NoneIsNothing, <1>2, <1>3, <1>4
    DEF StaleCaught, Follows, Held, InOnePlace, Apart, Placed, Attempting
<1>5. CASE Answers
  <2>1. PICK p \in Proofs : ~Held(p) /\ att'.proof = p /\ UNCHANGED <<grant, cp, session>>
    BY <1>5 DEF Answers
  <2>2. ~history[p].stale
    BY <2>1 DEF Carried, Forgotten, Unused
  <2>3. grant.proof # p
    BY <2>1
  <2>4. ~history'[p].stale
    BY <2>1, <2>2, <2>3
  <2>5. grant'.proof # None => (history'[grant'.proof].stale <=> history[grant.proof].stale)
    BY <2>1 DEF session
  <2> QED
    BY <2>1, <2>4, <2>5
<1>6. CASE Issues
  BY <1>6 DEF Issues, session
<1>7. CASE Takes
  BY <1>7 DEF Takes, Manager!NoGrant
<1>8. CASE Clears \/ Hands
  BY <1>8 DEF Clears, Hands
<1>9. CASE Grows
  BY <1>9 DEF Grows
<1>10. CASE Fades
  BY <1>10 DEF Fades
<1> QED
  BY <1>5, <1>6, <1>7, <1>8, <1>9, <1>10 DEF Moves

(* A CONSUME that meets no handler half-way gets no grant from before an   *)
(* unlock or the end of the session: MarkSessionActive and MarkLoggedOff   *)
(* cancel it, and a goroutine can only grant what it has not granted yet.  *)
THEOREM GrantDiesWithUnlockAlways == Spec => GrantDiesWithUnlock
<1>1. Init => StaleCaught
  BY DEF Init, StaleCaught, NoAttempt, Manager!NoGrant
<1>2. TypeOK /\ InOnePlace /\ Placed /\ Carried /\ StaleCaught /\ [Next]_vars /\ TypeOK' /\ Placed'
        => StaleCaught'
  <2>1. UNCHANGED vars /\ StaleCaught => StaleCaught'
    BY DEF vars, manager, ghosts, StaleCaught, Cancelling
  <2> QED
    BY <2>1, StaleCaughtStep
<1>3. TypeOK /\ InOnePlace /\ Placed /\ StaleCaught /\ [Next]_vars /\ Placed'
        => [Consumed /\ (\A t \in Threads : mark[t] = "idle")
              => ~history[cp'.proof].stale]_vars
  <2> SUFFICES ASSUME TypeOK, InOnePlace, Placed, StaleCaught, Next, Placed', Consumed,
                      \A t \in Threads : mark[t] = "idle"
               PROVE  ~history[cp'.proof].stale
    OBVIOUS
  <2>1. Moves
    BY StepMoves DEF Placed
  <2>2. Takes
    BY <2>1 DEF Moves, Consumed, Answers, Issues, Clears, Hands, Grows, Fades, Placed, Calling
  <2> QED
    BY <2>2 DEF Takes, StaleCaught, Cancelling
<1> QED
  BY <1>1, <1>2, <1>3, AlwaysPlaced, AlwaysCarried, PTL DEF Spec, GrantDiesWithUnlock

=============================================================================
