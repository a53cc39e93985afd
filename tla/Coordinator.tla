---------------------------- MODULE Coordinator ----------------------------
(***************************************************************************)
(* How a locked Windows desktop is opened by the phone: the coordinator of *)
(* internal/coordinator/coordinator.go with the goroutines that enter it   *)
(* at the same time, the part of internal/proximity/state.go that says     *)
(* whether a lock was made on purpose, the authorization manager           *)
(* (Authorize), and around them Windows, the credential provider and the   *)
(* phone, modelled by what the code can see of them.                       *)
(*                                                                         *)
(* The concurrent actors, each with its own program counter:               *)
(*   svc      the service control loop, which gets Windows' session        *)
(*            notifications one by one, some time after the fact           *)
(*   ctl      a goroutine serving one control pipe request                 *)
(*   att      the one challenge goroutine handleCandidate may start        *)
(*   cp       the credential provider and the goroutine serving its call   *)
(* A step is what one of them does under one lock: the coordinator's, the  *)
(* proximity state's or the manager's mutex.  They are taken one after the *)
(* other and anything may happen in between; only the decision of          *)
(* handleCandidate asks the proximity state with the coordinator's lock    *)
(* held, and is one step.                                                  *)
(***************************************************************************)
EXTENDS Naturals, Sequences

CONSTANTS
  Sessions, Proofs, None, GrantLife, AgeCap,   \* see Authorize
  PendingLife,   \* ticks the unlock after a predicted grant may take: 6 s in MarkSessionActive
  MaxNotices,    \* bound on notifications Windows has sent and svc not yet taken
  StartDoppler,  \* the values DopplerPrediction may have at the start
  Controls       \* the rarer events of the instance, see AllControls

AllControls == {"logoff", "resume", "announce", "pause", "revoke", "doppler",
                "password", "reject", "restart"}

ASSUME NoneIsNothing == None \notin Sessions /\ None \notin Proofs
ASSUME LivesAreNats == GrantLife \in Nat /\ AgeCap \in Nat /\ GrantLife < AgeCap
ASSUME PendingLifeIsNat == PendingLife \in Nat /\ PendingLife < AgeCap
ASSUME MaxNoticesIsNat == MaxNotices \in Nat
ASSUME StartDopplerIsBool == StartDoppler \subseteq BOOLEAN
ASSUME ControlsAreKnown == Controls \subseteq AllControls

VARIABLES
  console,          \* Windows: the session on the console, or None
  winLocked,        \* Windows: the console session is locked
  notices,          \* session notifications on their way to svc
  readyEvent,       \* the auto-reset event the credential provider waits on
  password,         \* the LSA secret with the Windows password is present
  savedValid,       \* CredentialValid in config.json
  activeSession,    \* Coordinator.activeSession, None when ~sessionActive
  locked,           \* Coordinator.locked
  unlockPending,    \* Coordinator.predictionUnlockPending
  pendingAge,       \* time since predictionUnlockPendingAt
  guardActive,      \* Coordinator.predictionGuardActive
  paired,           \* the config names a phone
  presence,         \* the presence key of that phone is in the secret store
  paused,           \* config.PausedUntil is in the future
  doppler,          \* config.DopplerPrediction
  credentialValid,  \* config.CredentialValid
  proximityLocked,  \* proximity.State.locked
  manualHold,       \* proximity.State.manualHold
  grant, disabled,  \* authorize.Manager
  mark,             \* where svc and ctl are in the Mark handlers
  ctl,              \* where ctl is in an operation of several steps
  att,              \* the challenge goroutine
  cp,               \* the credential provider's call
  \* not in the code, read by properties only:
  history,          \* what became of each proof
  refused,          \* what became of a password Windows has refused
  overtaken,        \* an unlock was taken in since authenticate copied the lock state
  crossed           \* the last session handler began while one of the other kind was half-way

windows == <<console, winLocked, notices>>
stored == <<password, savedValid>>
session == <<activeSession, locked>>
prediction == <<unlockPending, pendingAge, guardActive>>
config == <<paired, presence, paused, doppler, credentialValid>>
proximity == <<proximityLocked, manualHold>>
manager == <<grant, disabled>>
ghosts == <<history, refused, overtaken, crossed>>
vars == <<windows, readyEvent, stored, session, prediction, config, proximity,
          manager, mark, ctl, att, cp, ghosts>>

Manager == INSTANCE Authorize
Ages == Manager!Ages
Older(age) == Manager!Older(age)

(* svc handles notifications, ctl the session_active request of the agent. *)
Threads == {"svc", "ctl"}

Notices == [kind : {"lock", "unlock", "logoff"}, session : Sessions]

(***************************************************************************)
(* What authenticate keeps in its frame: the session and lock state it     *)
(* read at the start, whether the approach was only predicted, the proof   *)
(* once the phone has answered and the time since proofAt.                 *)
(***************************************************************************)
NoAttempt == [pc |-> "idle", session |-> None, locked |-> FALSE,
              predicted |-> FALSE, proof |-> None, age |-> 0]
AttemptPcs == {"idle", "start", "exchange", "accept", "grant", "signal",
               "pending", "confirm", "done"}
Attempts == [pc : AttemptPcs, session : Sessions \cup {None}, locked : BOOLEAN,
             predicted : BOOLEAN, proof : Proofs \cup {None}, age : Ages]

(* What a PEEK or CONSUME has taken from the manager. *)
NoCall == [pc |-> "idle", session |-> None, proof |-> None]
CallPcs == {"idle", "peek", "drop", "tile", "check", "get", "submit",
            "success", "disable", "invalid", "delete", "save", "kept"}
Calls == [pc : CallPcs, session : Sessions \cup {None}, proof : Proofs \cup {None}]

(***************************************************************************)
(* The life of a proof, for the properties only: how often it released the *)
(* password, how old it is, the session its challenge named, whether the   *)
(* desktop was unlocked or left while its grant was pending, and whether   *)
(* it was unlocked between the start of the challenge and the grant.  It   *)
(* starts afresh when nothing refers to the proof any more.                *)
(***************************************************************************)
Unused == [uses |-> 0, age |-> 0, session |-> None, stale |-> FALSE, late |-> FALSE]
Histories == [uses : Nat, age : Ages, session : Sessions \cup {None},
              stale : BOOLEAN, late : BOOLEAN]

TypeOK ==
  /\ console \in Sessions \cup {None}
  /\ notices \in Seq(Notices)
  /\ winLocked \in BOOLEAN /\ readyEvent \in BOOLEAN
  /\ password \in BOOLEAN /\ savedValid \in BOOLEAN
  /\ locked \in BOOLEAN /\ unlockPending \in BOOLEAN /\ guardActive \in BOOLEAN
  /\ paired \in BOOLEAN /\ presence \in BOOLEAN /\ paused \in BOOLEAN
  /\ doppler \in BOOLEAN /\ credentialValid \in BOOLEAN
  /\ proximityLocked \in BOOLEAN /\ manualHold \in BOOLEAN
  /\ refused \in {"no", "yes", "kept", "slipped"}
  /\ overtaken \in BOOLEAN /\ crossed \in BOOLEAN
  /\ activeSession \in Sessions \cup {None}
  /\ pendingAge \in Ages
  /\ Manager!TypeOK
  /\ mark \in [Threads -> {"idle", "onLock", "onUnlock", "cancel"}]
  /\ ctl \in {"idle", "cancel", "config", "forget", "guard", "save", "reload",
             "enable", "disable"}
  /\ att \in Attempts
  /\ cp \in Calls
  /\ history \in [Proofs -> Histories]

(***************************************************************************)
(* The service runs beside a desktop in use, with the phone paired and the *)
(* password stored, before or just after the agent has announced the       *)
(* session.                                                                *)
(***************************************************************************)
Init ==
  /\ console \in Sessions /\ winLocked = FALSE /\ notices = <<>>
  /\ readyEvent = FALSE /\ password = TRUE /\ savedValid = TRUE
  /\ activeSession \in {None, console} /\ locked = FALSE
  /\ unlockPending = FALSE /\ pendingAge = 0 /\ guardActive = FALSE
  /\ paired = TRUE /\ presence = TRUE /\ paused = FALSE /\ doppler \in StartDoppler /\ credentialValid = TRUE
  /\ proximityLocked = FALSE /\ manualHold = FALSE
  /\ grant = Manager!NoGrant /\ disabled = FALSE
  /\ mark = [t \in Threads |-> "idle"] /\ ctl = "idle"
  /\ att = NoAttempt /\ cp = NoCall
  /\ history = [p \in Proofs |-> Unused] /\ refused = "no"
  /\ overtaken = FALSE /\ crossed = FALSE

-----------------------------------------------------------------------------
(* The history, recorded by every step                                     *)

Held(p) == p \in {att.proof, grant.proof, cp.proof}

(* The provider gets the password on this step. *)
Released == cp.pc = "get" /\ cp'.pc = "submit"

(* The manager's answer to CONSUME is yes on this step. *)
Consumed == cp.pc # "check" /\ cp'.pc = "check"

NextHistory(p, ticked) ==
  [uses      |-> history[p].uses + (IF Released /\ cp.proof = p THEN 1 ELSE 0),
   age       |-> IF ticked /\ cp.proof # p /\ ~(att.proof = p /\ att.pc = "accept")
                   THEN Older(history[p].age) ELSE history[p].age,
   session   |-> IF att.proof = p THEN att.session ELSE history[p].session,
   stale     |-> history[p].stale \/ (grant.proof = p /\ locked /\ ~locked'),
   late      |-> IF att.proof = p /\ att.pc \in {"accept", "grant"}
                   THEN overtaken ELSE history[p].late]

(***************************************************************************)
(* What invalidateCredential does not withstand: it never runs, or is      *)
(* stopped before it has deleted the secret; the secret stays and so does  *)
(* CredentialValid in the file; or the secret stays while a new password   *)
(* is being set.                                                           *)
(***************************************************************************)
Slips ==
  \/ cp.pc \in {"disable", "invalid", "delete"} /\ cp'.pc = "idle"
  \/ cp.pc = "kept" /\ cp'.pc = "idle" /\ savedValid'
  \/ cp'.pc = "kept" /\ (credentialValid \/ ctl \in {"save", "reload", "enable"})

RefusedAfter ==
  IF cp.pc = "submit" /\ cp'.pc = "disable" THEN "yes"
  ELSE IF ctl = "idle" /\ ctl' = "save" THEN "no"
  ELSE IF refused \in {"yes", "kept"} /\ Slips THEN "slipped"
  ELSE IF refused = "yes" /\ cp.pc = "delete" /\ cp'.pc = "kept" THEN "kept"
  ELSE refused

(* A session handler begins, and then handlers of both kinds are half-way. *)
Begins == \E t \in Threads : mark[t] = "idle" /\ mark'[t] \in {"onLock", "onUnlock"}
BothKinds == \A kind \in {"onLock", "onUnlock"} : \E t \in Threads : mark[t] = kind

History(ticked) ==
  /\ history' = [p \in Proofs |-> IF Held(p)' THEN NextHistory(p, ticked) ELSE Unused]
  /\ refused' = RefusedAfter
  /\ overtaken' = /\ att'.pc \notin {"idle", "start"}
                  /\ overtaken \/ (att.pc # "start" /\ locked /\ ~locked')
  /\ crossed' = IF Begins THEN BothKinds' ELSE crossed

Recorded == History(FALSE)

-----------------------------------------------------------------------------
(* Windows                                                                 *)

Notify(kind, s) ==
  /\ Len(notices) < MaxNotices
  /\ notices' = Append(notices, [kind |-> kind, session |-> s])

(* The user, the agent or the screen saver locks the desktop; the lock     *)
(* screen's credential provider starts with no event pending.              *)
WindowsLocks ==
  /\ console # None /\ ~winLocked
  /\ winLocked' = TRUE
  /\ Notify("lock", console)
  /\ UNCHANGED <<console, readyEvent, stored, session, prediction, config, proximity,
                 manager, mark, ctl, att, cp>>
  /\ Recorded

(* The user signs in with a PIN or password; the provider is unloaded. *)
UserUnlocks ==
  /\ console # None /\ winLocked
  /\ cp.pc \in {"idle", "tile"}
  /\ winLocked' = FALSE /\ readyEvent' = FALSE /\ cp' = NoCall
  /\ Notify("unlock", console)
  /\ UNCHANGED <<console, stored, session, prediction, config, proximity, manager,
                 mark, ctl, att>>
  /\ Recorded

UserLogsOff ==
  /\ "logoff" \in Controls
  /\ console # None /\ ~winLocked
  /\ console' = None
  /\ Notify("logoff", console)
  /\ UNCHANGED <<winLocked, readyEvent, stored, session, prediction, config,
                 proximity, manager, mark, ctl, att, cp>>
  /\ Recorded

UserLogsOn(s) ==
  /\ console = None
  /\ console' = s
  /\ Notify("unlock", s)
  /\ UNCHANGED <<winLocked, readyEvent, stored, session, prediction, config,
                 proximity, manager, mark, ctl, att, cp>>
  /\ Recorded

-----------------------------------------------------------------------------
(* The session handlers                                                    *)

(* A mutant of MarkSessionActive: the guard is computed again for a session *)
(* that was active and unlocked already.                                    *)
MarkSessionActiveAlways(t, s) ==
  /\ activeSession' = s /\ locked' = FALSE
  /\ guardActive' = (locked /\ unlockPending /\ pendingAge <= PendingLife)
  /\ unlockPending' = FALSE /\ pendingAge' = 0
  /\ mark' = [mark EXCEPT ![t] = "onUnlock"]

(***************************************************************************)
(* MarkSessionActive under the coordinator's lock.  The two calls that     *)
(* follow, OnUnlock on the proximity state and Cancel on the manager, are  *)
(* steps of their own.                                                     *)
(***************************************************************************)
MarkSessionActive(t, s) ==
  /\ activeSession' = s /\ locked' = FALSE
  /\ IF activeSession # s \/ locked
       THEN /\ guardActive' = (locked /\ unlockPending /\ pendingAge <= PendingLife)
            /\ unlockPending' = FALSE /\ pendingAge' = 0
       ELSE UNCHANGED prediction
  /\ mark' = [mark EXCEPT ![t] = "onUnlock"]

(* A mutant of OnUnlock: State.locked is left as it was. *)
OnUnlockStaysLocked(t) ==
  /\ mark[t] = "onUnlock"
  /\ manualHold' = FALSE
  /\ mark' = [mark EXCEPT ![t] = "cancel"]
  /\ UNCHANGED <<windows, readyEvent, stored, session, prediction, config, manager,
                 proximityLocked, ctl, att, cp>>
  /\ Recorded

OnUnlock(t) ==
  /\ mark[t] = "onUnlock"
  /\ proximityLocked' = FALSE /\ manualHold' = FALSE
  /\ mark' = [mark EXCEPT ![t] = "cancel"]
  /\ UNCHANGED <<windows, readyEvent, stored, session, prediction, config, manager,
                 ctl, att, cp>>
  /\ Recorded

(* A mutant of CancelGrant: the pending grant survives the unlock. *)
CancelGrantSkipped(t) ==
  /\ mark[t] = "cancel"
  /\ mark' = [mark EXCEPT ![t] = "idle"]
  /\ UNCHANGED <<windows, readyEvent, stored, session, prediction, config, proximity,
                 manager, ctl, att, cp>>
  /\ Recorded

CancelGrant(t) ==
  /\ mark[t] = "cancel"
  /\ Manager!Cancel
  /\ mark' = [mark EXCEPT ![t] = "idle"]
  /\ UNCHANGED <<windows, readyEvent, stored, session, prediction, config, proximity,
                 ctl, att, cp>>
  /\ Recorded

MarkLocked(s) ==
  IF activeSession = s
    THEN /\ locked' = TRUE
         /\ unlockPending' = FALSE /\ pendingAge' = 0 /\ guardActive' = FALSE
         /\ mark' = [mark EXCEPT !["svc"] = "onLock"]
         /\ UNCHANGED activeSession
    ELSE UNCHANGED <<session, prediction, mark>>

(* proximity.State.OnLock with ImmediateUnlock off: the lock is held when  *)
(* the last samples were near.  What the samples were is left open.        *)
OnLock ==
  /\ mark["svc"] = "onLock"
  /\ proximityLocked' = TRUE
  /\ manualHold' \in BOOLEAN
  /\ mark' = [mark EXCEPT !["svc"] = "idle"]
  /\ UNCHANGED <<windows, readyEvent, stored, session, prediction, config, manager,
                 ctl, att, cp>>
  /\ Recorded

MarkLoggedOff(s) ==
  /\ IF activeSession = s
       THEN /\ activeSession' = None /\ locked' = FALSE
            /\ unlockPending' = FALSE /\ pendingAge' = 0 /\ guardActive' = FALSE
       ELSE UNCHANGED <<session, prediction>>
  /\ mark' = [mark EXCEPT !["svc"] = "cancel"]

(***************************************************************************)
(* The loop of serviceHandler.Execute takes the next notification; lock    *)
(* and unlock count only if their session is on the console by now.        *)
(***************************************************************************)
ServiceTakes ==
  /\ mark["svc"] = "idle" /\ notices # <<>>
  /\ LET n == Head(notices) IN
       CASE n.kind = "unlock" /\ console = n.session -> MarkSessionActive("svc", n.session)
         [] n.kind = "lock" /\ console = n.session   -> MarkLocked(n.session)
         [] n.kind = "logoff"                        -> MarkLoggedOff(n.session)
         [] OTHER                                    -> UNCHANGED <<session, prediction, mark>>
  /\ notices' = Tail(notices)
  /\ UNCHANGED <<console, winLocked, readyEvent, stored, config, proximity, manager,
                 ctl, att, cp>>
  /\ Recorded

(* A power event: MarkResume, with State.OnResume.  The challenge window   *)
(* it opens only adds to the evidence, which is left open.  The two locks  *)
(* it takes are one step: OnUnlock, all that could come between, ends the  *)
(* hold as well.                                                           *)
MarkResume ==
  /\ "resume" \in Controls
  /\ mark["svc"] = "idle" /\ locked /\ activeSession # None
  /\ manualHold' = FALSE
  /\ UNCHANGED <<windows, readyEvent, stored, session, prediction, config,
                 proximityLocked, manager, mark, ctl, att, cp>>
  /\ Recorded

-----------------------------------------------------------------------------
(* The challenge goroutine                                                 *)

PhonePaired == paired /\ presence

(***************************************************************************)
(* handleCandidate on an advertisement of the paired phone.  ObserveRSSI   *)
(* may end a manual hold (the phone was away and is back); whether the     *)
(* samples, the cooldown and the retry interval allow a challenge is left  *)
(* open, the rest of shouldChallenge is not.                               *)
(***************************************************************************)
HandleCandidate(challenge) ==
  /\ PhonePaired
  /\ manualHold' \in {manualHold, FALSE}
  /\ IF challenge
       THEN /\ activeSession # None /\ ~paused /\ att.pc = "idle"
            /\ locked => proximityLocked /\ ~manualHold'
            /\ att' = [NoAttempt EXCEPT !.pc = "start"]
       ELSE UNCHANGED att
  /\ UNCHANGED <<windows, readyEvent, stored, session, prediction, config,
                 proximityLocked, manager, mark, ctl, cp>>
  /\ Recorded

(* authenticate copies session and lock state; without a phone in the      *)
(* config it fails at once.                                                *)
StartAttempt(predicted) ==
  /\ att.pc = "start"
  /\ predicted => doppler
  /\ att' = [att EXCEPT !.pc = IF paired THEN "exchange" ELSE "done",
                        !.session = activeSession, !.locked = locked,
                        !.predicted = predicted]
  /\ UNCHANGED <<windows, readyEvent, stored, session, prediction, config,
                 proximity, manager, mark, ctl, cp>>
  /\ Recorded

(* The phone answers and the answer passes every check of authenticate.    *)
PhoneAnswers(p) ==
  /\ att.pc = "exchange" /\ ~Held(p)
  /\ att' = [att EXCEPT !.pc = "accept", !.proof = p]
  /\ UNCHANGED <<windows, readyEvent, stored, session, prediction, config,
                 proximity, manager, mark, ctl, cp>>
  /\ Recorded

(* Out of range, too slow, refused by a locked phone, or not acceptable.   *)
ExchangeFails ==
  /\ att.pc = "exchange"
  /\ att' = [att EXCEPT !.pc = "done"]
  /\ UNCHANGED <<windows, readyEvent, stored, session, prediction, config,
                 proximity, manager, mark, ctl, cp>>
  /\ Recorded

(* proofAt and RecordProof; the lock state is the one read at the start.   *)
RecordProof ==
  /\ att.pc = "accept"
  /\ att' = [att EXCEPT !.pc = IF att.locked THEN "grant" ELSE "confirm"]
  /\ UNCHANGED <<windows, readyEvent, stored, session, prediction, config,
                 proximity, manager, mark, ctl, cp>>
  /\ Recorded

(* Mutants of CreateGrant: the grant's time runs from now and not from the  *)
(* proof; it goes to the session that is active by now; its time is one off. *)
CreateGrantWith(s, age) ==
  /\ att.pc = "grant"
  /\ IF disabled
       THEN att' = [att EXCEPT !.pc = "done"] /\ UNCHANGED manager
       ELSE /\ Manager!Grant(s, att.proof, age)
            /\ att' = [att EXCEPT !.pc = "signal"]
  /\ UNCHANGED <<windows, readyEvent, stored, session, prediction, config, proximity,
                 mark, ctl, cp>>
  /\ Recorded
CreateGrantNow == CreateGrantWith(att.session, 0)
CreateGrantActive == CreateGrantWith(activeSession, att.age)
CreateGrantLater == CreateGrantWith(att.session, att.age + 1)

CreateGrant ==
  /\ att.pc = "grant"
  /\ IF disabled
       THEN att' = [att EXCEPT !.pc = "done"] /\ UNCHANGED manager
       ELSE /\ Manager!Grant(att.session, att.proof, att.age)
            /\ att' = [att EXCEPT !.pc = "signal"]
  /\ UNCHANGED <<windows, readyEvent, stored, session, prediction, config,
                 proximity, mark, ctl, cp>>
  /\ Recorded

(***************************************************************************)
(* Manager.Grant after its unlock: SetEvent.  Without a provider waiting   *)
(* the event dies with its handle.  When signalling fails, authenticate    *)
(* returns an error and the grant stays.                                   *)
(***************************************************************************)
SignalProvider ==
  /\ att.pc = "signal"
  /\ \/ /\ readyEvent' \in {readyEvent, winLocked}
        /\ att' = [att EXCEPT !.pc = "pending"]
     \/ /\ att' = [att EXCEPT !.pc = "done"]
        /\ UNCHANGED readyEvent
  /\ UNCHANGED <<windows, stored, session, prediction, config,
                 proximity, manager, mark, ctl, cp>>
  /\ Recorded

NotePrediction ==
  /\ att.pc = "pending"
  /\ unlockPending' = att.predicted
  /\ pendingAge' = IF att.predicted THEN att.age ELSE 0
  /\ att' = [att EXCEPT !.pc = "done"]
  /\ UNCHANGED <<windows, readyEvent, stored, session, guardActive, config,
                 proximity, manager, mark, ctl, cp>>
  /\ Recorded

ConfirmGuard ==
  /\ att.pc = "confirm"
  /\ guardActive' = FALSE
  /\ att' = [att EXCEPT !.pc = "done"]
  /\ UNCHANGED <<windows, readyEvent, stored, session, unlockPending, pendingAge,
                 config, proximity, manager, mark, ctl, cp>>
  /\ Recorded

(* A mutant of FinishAttempt: challengeBusy is cleared after a success only. *)
FinishAttemptOnSuccess ==
  /\ att.pc = "done"
  /\ att' = IF att.proof = None THEN att ELSE NoAttempt
  /\ UNCHANGED <<windows, readyEvent, stored, session, prediction, config, proximity,
                 manager, mark, ctl, cp>>
  /\ Recorded

(* recordAuthenticationResult, then challengeBusy is cleared. *)
FinishAttempt ==
  /\ att.pc = "done"
  /\ att' = NoAttempt
  /\ UNCHANGED <<windows, readyEvent, stored, session, prediction, config,
                 proximity, manager, mark, ctl, cp>>
  /\ Recorded

-----------------------------------------------------------------------------
(* The credential provider and the auth pipe                               *)

(***************************************************************************)
(* LogonUI asks for the tiles, on its own (the lock screen appears, a tile *)
(* is selected) or because the watcher saw the ready event: PEEK.          *)
(***************************************************************************)
PeekCall ==
  /\ winLocked /\ cp.pc \in {"idle", "tile"}
  /\ Manager!Peek
  /\ cp' = IF Manager!Live THEN [NoCall EXCEPT !.pc = "peek", !.session = grant.session]
                           ELSE NoCall
  /\ UNCHANGED <<windows, stored, session, prediction, config, proximity, mark, ctl, att>>

LogonAsks == PeekCall /\ UNCHANGED readyEvent /\ Recorded

WatcherWakes == readyEvent /\ PeekCall /\ readyEvent' = FALSE /\ Recorded

(* A mutant of SessionStillLocked: any locked session will do. *)
AnySessionLocked == locked

SessionStillLocked == locked /\ activeSession = cp.session

PeekCheck ==
  /\ cp.pc = "peek"
  /\ cp' = [NoCall EXCEPT !.pc = IF SessionStillLocked THEN "tile" ELSE "drop"]
  /\ UNCHANGED <<windows, readyEvent, stored, session, prediction, config,
                 proximity, manager, mark, ctl, att>>
  /\ Recorded

(* A grant for another session is cancelled, whichever grant that is now.  *)
PeekDrops ==
  /\ cp.pc = "drop"
  /\ Manager!Cancel
  /\ cp' = NoCall
  /\ UNCHANGED <<windows, readyEvent, stored, session, prediction, config,
                 proximity, mark, ctl, att>>
  /\ Recorded

(* GetSerialization: CONSUME takes the grant. *)
ConsumeCall ==
  /\ winLocked /\ cp.pc \in {"idle", "tile"}
  /\ Manager!Consume
  /\ cp' = IF Manager!Live
             THEN [pc |-> "check", session |-> grant.session, proof |-> grant.proof]
             ELSE NoCall
  /\ UNCHANGED <<windows, readyEvent, stored, session, prediction, config,
                 proximity, mark, ctl, att>>
  /\ Recorded

ConsumeCheck ==
  /\ cp.pc = "check"
  /\ cp' = IF SessionStillLocked /\ credentialValid THEN [cp EXCEPT !.pc = "get"] ELSE NoCall
  /\ UNCHANGED <<windows, readyEvent, stored, session, prediction, config,
                 proximity, manager, mark, ctl, att>>
  /\ Recorded

(* The password is read and handed to the provider. *)
ConsumeAnswer ==
  /\ cp.pc = "get"
  /\ cp' = IF password THEN [cp EXCEPT !.pc = "submit"] ELSE NoCall
  /\ UNCHANGED <<windows, readyEvent, stored, session, prediction, config,
                 proximity, manager, mark, ctl, att>>
  /\ Recorded

(* ReportResult tells the service what Windows made of the password. *)
WindowsAccepts ==
  /\ cp.pc = "submit" /\ console # None /\ winLocked
  /\ winLocked' = FALSE
  /\ Notify("unlock", console)
  /\ cp' = [NoCall EXCEPT !.pc = "success"]
  /\ UNCHANGED <<console, readyEvent, stored, session, prediction, config,
                 proximity, manager, mark, ctl, att>>
  /\ Recorded

WindowsRejects ==
  /\ "reject" \in Controls
  /\ cp.pc = "submit" /\ winLocked
  /\ cp' = [NoCall EXCEPT !.pc = "disable"]
  /\ UNCHANGED <<windows, readyEvent, stored, session, prediction, config,
                 proximity, manager, mark, ctl, att>>
  /\ Recorded

ReportSuccess ==
  /\ cp.pc = "success"
  /\ Manager!Cancel
  /\ cp' = NoCall
  /\ UNCHANGED <<windows, readyEvent, stored, session, prediction, config,
                 proximity, mark, ctl, att>>
  /\ Recorded

(* The pipe call of the provider fails, or it cannot pack the *)
(* password for LSA: the answer, or the report, is lost.                   *)
CallLost ==
  /\ cp.pc \in {"submit", "success", "disable"}
  /\ cp' = NoCall
  /\ UNCHANGED <<windows, readyEvent, stored, session, prediction, config, proximity,
                 manager, mark, ctl, att>>
  /\ Recorded

(* invalidateCredential: Disable, the config in memory, the secret, which  *)
(* may stay ("kept": the error of Delete is ignored), and the config file, *)
(* whose write may fail.                                                   *)
InvalidateDisable ==
  /\ cp.pc = "disable"
  /\ Manager!Disable
  /\ cp' = [cp EXCEPT !.pc = "invalid"]
  /\ UNCHANGED <<windows, readyEvent, stored, session, prediction, config,
                 proximity, mark, ctl, att>>
  /\ Recorded

InvalidateConfig ==
  /\ cp.pc = "invalid"
  /\ credentialValid' = FALSE
  /\ cp' = [cp EXCEPT !.pc = "delete"]
  /\ UNCHANGED <<windows, readyEvent, stored, session, prediction, paired, presence,
                 paused, doppler, proximity, manager, mark, ctl, att>>
  /\ Recorded

(* A mutant of InvalidateSecret: the secret is not deleted at all. *)
InvalidateKeepsSecret ==
  /\ cp.pc = "delete"
  /\ cp' = [cp EXCEPT !.pc = "save"]
  /\ UNCHANGED <<windows, readyEvent, stored, session, prediction, config, proximity,
                 manager, mark, ctl, att>>
  /\ Recorded

InvalidateSecret ==
  /\ cp.pc = "delete"
  /\ \/ password' = FALSE /\ cp' = [cp EXCEPT !.pc = "save"]
     \/ cp' = [cp EXCEPT !.pc = "kept"] /\ UNCHANGED password
  /\ UNCHANGED <<windows, readyEvent, savedValid, session, prediction, config,
                 proximity, manager, mark, ctl, att>>
  /\ Recorded

InvalidateSave ==
  /\ cp.pc \in {"save", "kept"}
  /\ savedValid' \in {FALSE, savedValid}
  /\ cp' = NoCall
  /\ UNCHANGED <<windows, readyEvent, password, session, prediction, config,
                 proximity, manager, mark, ctl, att>>
  /\ Recorded

-----------------------------------------------------------------------------
(* Control requests, the service's restart, and time                       *)

(* session_active from the agent: at its start, and when the status says   *)
(* that no session is active.  The validator wants the console session.    *)
Announce ==
  /\ "announce" \in Controls
  /\ mark["ctl"] = "idle" /\ ctl = "idle"
  /\ console # None /\ (activeSession = None \/ ~winLocked)
  /\ MarkSessionActive("ctl", console)
  /\ UNCHANGED <<windows, readyEvent, stored, config, proximity, manager, ctl, att, cp>>
  /\ Recorded

(* pause, pause for zero seconds, and the end of a pause. *)
SetPause ==
  /\ "pause" \in Controls
  /\ ctl = "idle"
  /\ paused' = ~paused
  /\ UNCHANGED <<windows, readyEvent, stored, session, prediction, paired, presence,
                 doppler, credentialValid, proximity, manager, mark, ctl, att, cp>>
  /\ Recorded

(* revoke: the presence key, the grant (and the replay counter), the       *)
(* config, which may not be saved, then the evidence.                      *)
RevokeSecret ==
  /\ "revoke" \in Controls
  /\ ctl = "idle" /\ paired
  /\ presence' = FALSE
  /\ ctl' = "cancel"
  /\ UNCHANGED <<windows, readyEvent, stored, session, prediction, paired, paused,
                 doppler, credentialValid, proximity, manager, mark, att, cp>>
  /\ Recorded

RevokeCancel ==
  /\ ctl = "cancel"
  /\ Manager!Cancel
  /\ ctl' = "config"
  /\ UNCHANGED <<windows, readyEvent, stored, session, prediction, config,
                 proximity, mark, att, cp>>
  /\ Recorded

RevokeConfig ==
  /\ ctl = "config"
  /\ \/ paired' = FALSE /\ ctl' = "forget"
     \/ ctl' = "idle" /\ UNCHANGED paired
  /\ UNCHANGED <<windows, readyEvent, stored, session, prediction, presence, paused,
                 doppler, credentialValid, proximity, manager, mark, att, cp>>
  /\ Recorded

(* ResetDeviceEvidence *)
RevokeForget ==
  /\ ctl = "forget"
  /\ manualHold' = FALSE
  /\ ctl' = "idle"
  /\ UNCHANGED <<windows, readyEvent, stored, session, prediction, config,
                 proximityLocked, manager, mark, att, cp>>
  /\ Recorded

(* set_doppler_prediction: the config, then what was predicted under the   *)
(* old setting is dropped.                                                 *)
SetDoppler ==
  /\ "doppler" \in Controls
  /\ ctl = "idle"
  /\ doppler' = ~doppler
  /\ ctl' = "guard"
  /\ UNCHANGED <<windows, readyEvent, stored, session, prediction, paired, presence,
                 paused, credentialValid, proximity, manager, mark, att, cp>>
  /\ Recorded

DropPrediction ==
  /\ ctl = "guard"
  /\ unlockPending' = FALSE /\ pendingAge' = 0 /\ guardActive' = FALSE
  /\ ctl' = "idle"
  /\ UNCHANGED <<windows, readyEvent, stored, session, config, proximity, manager,
                 mark, att, cp>>
  /\ Recorded

(* updatePassword of setup.exe: the secret, then the config file, then the *)
(* request to reload, which may not get through.                           *)
NewPassword ==
  /\ "password" \in Controls
  /\ ctl = "idle"
  /\ password' = TRUE
  /\ ctl' = "save"
  /\ UNCHANGED <<windows, readyEvent, savedValid, session, prediction, config,
                 proximity, manager, mark, att, cp>>
  /\ Recorded

SavePassword ==
  /\ ctl = "save"
  /\ savedValid' = TRUE
  /\ ctl' \in {"reload", "idle"}
  /\ UNCHANGED <<windows, readyEvent, password, session, prediction, config,
                 proximity, manager, mark, att, cp>>
  /\ Recorded

Reload ==
  /\ ctl = "reload"
  /\ credentialValid' = savedValid
  /\ ctl' = IF savedValid THEN "enable" ELSE "disable"
  /\ UNCHANGED <<windows, readyEvent, stored, session, prediction, paired, presence,
                 paused, doppler, proximity, manager, mark, att, cp>>
  /\ Recorded

ReloadManager ==
  /\ \/ ctl = "enable" /\ Manager!Enable
     \/ ctl = "disable" /\ Manager!Disable
  /\ ctl' = "idle"
  /\ UNCHANGED <<windows, readyEvent, stored, session, prediction, config, proximity,
                 mark, att, cp>>
  /\ Recorded

(***************************************************************************)
(* The service dies and startRuntime builds a new one from the config      *)
(* file.  Windows keeps its own state and so does the provider, unless its *)
(* call was being served.                                                  *)
(***************************************************************************)
Restart ==
  /\ "restart" \in Controls
  /\ notices' = <<>>
  /\ activeSession' = None /\ locked' = FALSE
  /\ unlockPending' = FALSE /\ pendingAge' = 0 /\ guardActive' = FALSE
  /\ credentialValid' = savedValid
  /\ proximityLocked' = FALSE /\ manualHold' = FALSE
  /\ grant' = Manager!NoGrant /\ disabled' = ~savedValid
  /\ mark' = [t \in Threads |-> "idle"] /\ ctl' = "idle" /\ att' = NoAttempt
  /\ cp' = IF cp.pc \in {"tile", "submit", "success", "disable"} THEN cp ELSE NoCall
  /\ UNCHANGED <<console, winLocked, readyEvent, stored, paired, presence, paused, doppler>>
  /\ Recorded

AttemptProved == att.pc \in {"grant", "signal", "pending"}

Tick ==
  /\ Manager!Age
  /\ att' = IF AttemptProved THEN [att EXCEPT !.age = Older(@)] ELSE att
  /\ pendingAge' = IF unlockPending THEN Older(pendingAge) ELSE pendingAge
  /\ UNCHANGED <<windows, readyEvent, stored, session, unlockPending, guardActive,
                 config, proximity, mark, ctl, cp>>
  /\ History(TRUE)

-----------------------------------------------------------------------------
(* The specification                                                       *)

WindowsStep ==
  \/ WindowsLocks \/ UserUnlocks \/ UserLogsOff
  \/ \E s \in Sessions : UserLogsOn(s)

ServiceStep ==
  \/ ServiceTakes \/ MarkResume \/ OnLock
  \/ \E t \in Threads : OnUnlock(t) \/ CancelGrant(t)

AttemptStep ==
  \/ \E predicted \in BOOLEAN : StartAttempt(predicted)
  \/ \E p \in Proofs : PhoneAnswers(p)
  \/ ExchangeFails \/ RecordProof \/ CreateGrant \/ SignalProvider
  \/ NotePrediction \/ ConfirmGuard \/ FinishAttempt

ProviderStep ==
  \/ LogonAsks \/ WatcherWakes \/ PeekCheck \/ PeekDrops
  \/ ConsumeCall \/ ConsumeCheck \/ ConsumeAnswer
  \/ WindowsAccepts \/ WindowsRejects \/ CallLost \/ ReportSuccess
  \/ InvalidateDisable \/ InvalidateConfig \/ InvalidateSecret \/ InvalidateSave

ControlStep ==
  \/ Announce \/ SetPause \/ Restart
  \/ RevokeSecret \/ RevokeCancel \/ RevokeConfig \/ RevokeForget
  \/ SetDoppler \/ DropPrediction
  \/ NewPassword \/ SavePassword \/ Reload \/ ReloadManager

Next ==
  \/ WindowsStep \/ ServiceStep \/ AttemptStep \/ ProviderStep \/ ControlStep
  \/ \E challenge \in BOOLEAN : HandleCandidate(challenge)
  \/ Tick

Spec == Init /\ [][Next]_vars

(***************************************************************************)
(* Fairness.  The service's goroutines run on when they can: the Go        *)
(* scheduler, and mutexes held for a moment only.  Of the world outside,   *)
(* the phone comes by often enough and now and then answers, the event now *)
(* and then finds the provider waiting, and LogonUI now and then consumes  *)
(* a grant in time; none of these is the program's to guarantee, and each  *)
(* may fail any finite number of times.                                    *)
(***************************************************************************)
ServiceRuns ==
  /\ WF_vars(ServiceTakes) /\ WF_vars(OnLock)
  /\ \A t \in Threads : WF_vars(OnUnlock(t)) /\ WF_vars(CancelGrant(t))
  /\ WF_vars(\E predicted \in BOOLEAN : StartAttempt(predicted))
  /\ WF_vars(RecordProof) /\ WF_vars(CreateGrant) /\ WF_vars(SignalProvider)
  /\ WF_vars(NotePrediction) /\ WF_vars(ConfirmGuard) /\ WF_vars(FinishAttempt)
  /\ WF_vars(PeekCheck) /\ WF_vars(PeekDrops) /\ WF_vars(ConsumeCheck)
  /\ WF_vars(ConsumeAnswer) /\ WF_vars(ReportSuccess)

WorldHelps ==
  /\ SF_vars(HandleCandidate(TRUE))
  /\ WF_vars(ExchangeFails)
  /\ SF_vars(\E p \in Proofs : PhoneAnswers(p))
  /\ SF_vars(CreateGrant /\ Manager!Live')
  /\ SF_vars(SignalProvider /\ readyEvent' /\ Manager!Live)
  /\ SF_vars(WatcherWakes /\ cp'.pc = "peek")
  /\ SF_vars(ConsumeCall /\ cp'.pc = "check")
  /\ SF_vars(WindowsAccepts)

FairSpec == Spec /\ ServiceRuns /\ WorldHelps

-----------------------------------------------------------------------------
(* Properties                                                              *)

(***************************************************************************)
(* One proof of the phone opens the desktop at most once: however PEEK,    *)
(* CONSUME, newer grants and cancellations interleave, the password leaves *)
(* the service at most once for each accepted response (Manager.Consume    *)
(* and HandleAuth).                                                        *)
(***************************************************************************)
OneUse == \A p \in Proofs : history[p].uses <= 1

(***************************************************************************)
(* Why OneUse holds, and holds again after every step: a proof is on its   *)
(* way to the password in one place at a time, in the challenge goroutine, *)
(* in the manager or in the provider's call, and wherever it still is on   *)
(* its way it has not been used.                                           *)
(***************************************************************************)
OnItsWay(p) ==
  \/ p = grant.proof
  \/ p = att.proof /\ att.pc \in {"accept", "grant"}
  \/ p = cp.proof /\ cp.pc \in {"check", "get"}

Unspent == \A p \in Proofs : OnItsWay(p) \/ ~Held(p) => history[p].uses = 0

Apart ==
  /\ grant.proof # None => grant.proof # cp.proof
  /\ att.proof # None /\ att.pc \in {"accept", "grant"}
       => att.proof # grant.proof /\ att.proof # cp.proof
  /\ cp.proof # None => cp.pc \in {"check", "get", "submit"}

InOnePlace == Unspent /\ Apart

(***************************************************************************)
(* A grant is honoured only while the proof behind it is at most GrantLife *)
(* old, counted from the proof and not from the moment the goroutine got   *)
(* round to granting (Manager.Grant, Manager.Consume, authenticate).       *)
(***************************************************************************)
FreshUse == [][Consumed => history[cp'.proof].age <= GrantLife]_vars

(***************************************************************************)
(* The password goes out only for the session the phone signed for, and    *)
(* only while the service knows that session as locked, although the       *)
(* challenge may have started in another session or before an unlock       *)
(* (session of authenticate against validSession of HandleAuth).           *)
(***************************************************************************)
BoundToSession ==
  [][cp.pc = "check" /\ cp'.pc = "get"
       => locked /\ activeSession = history[cp.proof].session]_vars

(***************************************************************************)
(* A CONSUME that comes when no session handler is half-way never gets a   *)
(* grant that was pending when a session was unlocked or left, however     *)
(* soon the desktop is locked again: MarkSessionActive and MarkLoggedOff   *)
(* cancel it on their way out.                                             *)
(***************************************************************************)
GrantDiesWithUnlock ==
  [][Consumed /\ (\A t \in Threads : mark[t] = "idle")
       => ~history[cp'.proof].stale]_vars

(***************************************************************************)
(* Once the service has begun to act on a refusal by Windows, the refused  *)
(* password does not go out again before a new one is set, over any number *)
(* of restarts and with the deletion of the secret or the write of the     *)
(* config failing: invalidateCredential deletes the secret first, and      *)
(* shuts the manager and the config as well.  What it does not withstand   *)
(* is named by Slips: a report that never arrives, a stop before the       *)
(* deletion, both writes failing, and a new password set meanwhile.        *)
(***************************************************************************)
RefusedStaysBack == [][Released => refused \notin {"yes", "kept"}]_vars

(***************************************************************************)
(* The coordinator and the proximity state agree on whether the desktop is *)
(* locked whenever no session handler is between the two, also with        *)
(* session_active requests beside the notification loop.  Only a lock and  *)
(* an unlock handled at the same time can part them, and the next handler, *)
(* of either kind, brings them together.  While they are apart, neither    *)
(* the unlock (ShouldAttemptUnlock) nor the automatic lock (ShouldAutoLock)*)
(* is tried.                                                               *)
(***************************************************************************)
ViewsAgree ==
  activeSession # None /\ ~crossed /\ (\A t \in Threads : mark[t] \notin {"onLock", "onUnlock"})
    => locked = proximityLocked

(***************************************************************************)
(* The relock guard of a predicted unlock ends with a proof made on the    *)
(* open desktop, a lock, the end of the session, a change of the setting   *)
(* or a restart, and with nothing else: an agent that announces the same   *)
(* session again must not end it (changed in MarkSessionActive).           *)
(***************************************************************************)
GuardEndsForCause ==
  [][guardActive /\ ~guardActive'
       => \/ att.pc = "confirm" /\ ~att.locked
          \/ locked'
          \/ activeSession' # activeSession
          \/ ctl = "guard"]_vars

(***************************************************************************)
(* The coordinator keeps the promise of UnlockPromise: whatever the        *)
(* goroutines do between each other's steps, the password is released only *)
(* for a proof that was granted, then taken from the manager once, and     *)
(* found to be for the locked session, in this order.                      *)
(***************************************************************************)
ClaimOf(p) ==
  IF cp.proof = p
    THEN [stage |-> CASE cp.pc = "check" -> "taken"
                      [] cp.pc = "get"   -> "cleared"
                      [] OTHER           -> "released",
          session |-> cp.session]
  ELSE IF grant.proof = p THEN [stage |-> "granted", session |-> grant.session]
  ELSE IF att.proof = p /\ att.pc \in {"accept", "grant"}
    THEN [stage |-> "proved", session |-> att.session]
  ELSE [stage |-> "none", session |-> None]

Promise == INSTANCE UnlockPromise WITH
  claim <- [p \in Proofs |-> ClaimOf(p)],
  lockedSession <- IF locked THEN activeSession ELSE None

KeepsPromise == Promise!Spec

(***************************************************************************)
(* A phone that keeps coming by opens a locked desktop in the end, whatever*)
(* attempts fail, grants expire or signals are lost on the way: the one    *)
(* challenge slot is always given back, and a dropped grant is replaced.   *)
(***************************************************************************)
PhoneOpensInTheEnd == winLocked /\ activeSession = console ~> ~winLocked

(***************************************************************************)
(* What README.md:26 says, and the program does otherwise: a lock made     *)
(* with the phone near stays until the phone has been away.  Stated of a   *)
(* challenge that an unlock has overtaken, whose copy of the lock state is *)
(* of the lock before, and when every session handler has run, so that the *)
(* hold is of a lock after that unlock: its grant is not given out.        *)
(***************************************************************************)
ManualLockStays ==
  [][Consumed /\ history[cp'.proof].late /\ (\A t \in Threads : mark[t] = "idle")
       => ~manualHold]_vars

=============================================================================
