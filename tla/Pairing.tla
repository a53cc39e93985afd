------------------------------ MODULE Pairing ------------------------------
(***************************************************************************)
(* Pairing and revocation.  The PC shows a QR code with a one-time secret, *)
(* valid for two minutes; a phone that has scanned it advertises with it;  *)
(* each advertisement the PC hears starts completePairing in a goroutine   *)
(* of its own: a challenge under the secret, one exchange at a time, the   *)
(* phone's answer checked under the secret, the presence key derived from  *)
(* it and stored, the configuration saved.  The goroutines share the       *)
(* secret by pointer, and whoever makes a new code, finds the code out of  *)
(* date or completes the pairing overwrites it with zeros under their feet.*)
(* The phone answers first and stores its presence key afterwards.         *)
(*                                                                         *)
(* Code q stands for its secret and for every key made from it; the secret *)
(* of zeros is 0.  Call n of completePairing stands for its nonce and for  *)
(* the name its presence key is stored under.  The resets of the evidence  *)
(* and of the replay counter belong to Proximity and Exchange.             *)
(***************************************************************************)
EXTENDS Integers, Sequences

CONSTANTS MaxCodes, MaxCalls      \* bounds: QR codes made, calls of completePairing

ASSUME BoundsAreNumbers == MaxCodes \in Nat /\ MaxCalls \in Nat

VARIABLES
  codes,        \* the number of QR codes made
  pending,      \* the coordinator's pending pairing, or 0
  wiped,        \* codes whose secret has been overwritten
  overdue,      \* codes that are out of date
  call,         \* where each call of completePairing is, its code and its key
  lock,         \* the call that has the exchange lock, or 0
  config,       \* the name of the configured presence key, or 0
  secrets,      \* the LSA store: the key under each name, or Absent
  revoking,     \* what revoke is doing, and to which name
  phone,        \* SecureStore: the code scanned and the presence key, or 0
  inbox,        \* calls whose challenge waits for the phone's worker
  storing,      \* the code the worker has answered for and not stored yet, or 0
  revoked,      \* history: the names revoke has deleted
  excused       \* history: answered calls that were disturbed afterwards

pcVars == <<codes, pending, wiped, overdue, call, lock, config, secrets, revoking, revoked>>
phoneVars == <<phone, inbox, storing>>
vars == <<pcVars, phoneVars, excused>>

Codes == 1 .. MaxCodes
Calls == 1 .. MaxCalls
Absent == -1
NoCall == [at |-> "none", code |-> 0, key |-> 0]
NoRevoke == [at |-> "idle", name |-> 0]
Stages == {"none", "seen", "challenge", "exchange", "answered", "checked", "stored", "saved", "over"}

Init ==
  /\ codes = 0 /\ pending = 0 /\ wiped = {} /\ overdue = {}
  /\ call = [n \in Calls |-> NoCall] /\ lock = 0
  /\ config = 0 /\ secrets = [n \in Calls |-> Absent] /\ revoking = NoRevoke
  /\ phone = [scan |-> 0, presence |-> 0] /\ inbox = <<>> /\ storing = 0
  /\ revoked = {} /\ excused = {}

(* What a reader of pending.secret finds. *)
SecretOf(q) == IF q \in wiped THEN 0 ELSE q
At(n, stage) == call[n].at = stage
Goes(n, stage) == call' = [call EXCEPT ![n].at = stage]
(* Calls on code q whose answer has been checked and whose key has not been made. *)
Deriving(q) == {n \in Calls : At(n, "checked") /\ call[n].code = q}
HasAnswer == {n \in Calls : ~(call[n].at \in {"none", "seen", "challenge", "exchange"})}

-----------------------------------------------------------------------------
(* The PC                                                                  *)

(* Mutant: the secret of the code before stays as it is. *)
WipesNothing(q) == UNCHANGED <<wiped, excused>>
Wipes(q) == wiped' = wiped \cup ({q} \ {0}) /\ excused' = excused \cup Deriving(q)

StartPairing ==
  /\ codes < MaxCodes
  /\ codes' = codes + 1 /\ pending' = codes + 1
  /\ Wipes(pending)
  /\ UNCHANGED <<overdue, call, lock, config, secrets, revoking, revoked>> /\ UNCHANGED phoneVars

(* handleCandidate, for any advertisement: a code out of date is dropped;  *)
(* one made with the pending code starts completePairing with its secret.  *)
HandleCandidate(n) ==
  /\ pending # 0 /\ At(n, "none") /\ \A m \in 1 .. n - 1 : ~At(m, "none")
  /\ \/ /\ pending \in overdue
        /\ pending' = 0 /\ Wipes(pending) /\ UNCHANGED call
     \/ /\ pending \notin overdue /\ phone.scan = pending
        /\ call' = [call EXCEPT ![n] = [at |-> "seen", code |-> pending, key |-> 0]]
        /\ UNCHANGED <<pending, wiped, excused>>
  /\ UNCHANGED <<codes, overdue, lock, config, secrets, revoking, revoked>> /\ UNCHANGED phoneVars

(* NewPairingChallenge.  A secret overwritten before the advertisement is  *)
(* verified ends the call here instead of at the phone. *)
NewPairingChallenge(n) ==
  /\ At(n, "seen")
  /\ call' = [call EXCEPT ![n].at = "challenge", ![n].key = SecretOf(call[n].code)]
  /\ UNCHANGED <<codes, pending, wiped, overdue, lock, config, secrets, revoking, revoked, excused>>
  /\ UNCHANGED phoneVars

(* Exchange connects and writes the challenge. *)
Exchange(n) ==
  /\ At(n, "challenge") /\ lock = 0
  /\ lock' = n /\ Goes(n, "exchange") /\ inbox' = Append(inbox, n)
  /\ UNCHANGED <<codes, pending, wiped, overdue, config, secrets, revoking, revoked, excused, phone, storing>>

(* Exchange fails, or eight seconds are over. *)
ExchangeFails(n) ==
  /\ At(n, "exchange")
  /\ lock' = 0 /\ Goes(n, "over")
  /\ UNCHANGED <<codes, pending, wiped, overdue, config, secrets, revoking, revoked, excused>>
  /\ UNCHANGED phoneVars

(* ParsePairingResponse: the nonce is that of this exchange; the MAC. *)
Verifies(n) == SecretOf(call[n].code) = call[n].code

CheckResponse(n) ==
  /\ At(n, "answered")
  /\ Goes(n, IF Verifies(n) /\ call[n].code \notin overdue THEN "checked" ELSE "over")
  /\ UNCHANGED <<codes, pending, wiped, overdue, lock, config, secrets, revoking, revoked, excused>>
  /\ UNCHANGED phoneVars

(* DerivePresenceKey, then Put, which may fail. *)
StorePresence(n) ==
  /\ At(n, "checked")
  /\ \/ /\ secrets' = [secrets EXCEPT ![n] = SecretOf(call[n].code)]
        /\ Goes(n, "stored")
     \/ Goes(n, "over") /\ UNCHANGED secrets
  /\ UNCHANGED <<codes, pending, wiped, overdue, lock, config, revoking, revoked, excused>>
  /\ UNCHANGED phoneVars

(* Mutant: updateConfig changes the configuration in memory before it saves. *)
UndoTooLate(n) == config' = n /\ secrets' \in {secrets, [secrets EXCEPT ![n] = Absent]}
Undo(n) == config' = config /\ secrets' \in {secrets, [secrets EXCEPT ![n] = Absent]}

(* updateConfig; when it fails the key is deleted again, if that works.    *)
SavePairing(n) ==
  /\ At(n, "stored")
  /\ \/ config' = n /\ Goes(n, "saved") /\ UNCHANGED secrets
     \/ Undo(n) /\ Goes(n, "over")
  /\ UNCHANGED <<codes, pending, wiped, overdue, lock, revoking, revoked, excused>>
  /\ UNCHANGED phoneVars

Finish(n) ==
  /\ At(n, "saved") /\ Goes(n, "over")
  /\ IF pending = call[n].code
       THEN pending' = 0 /\ Wipes(call[n].code)
       ELSE UNCHANGED <<pending, wiped, excused>>
  /\ UNCHANGED <<codes, overdue, lock, config, secrets, revoking, revoked>> /\ UNCHANGED phoneVars

(* revoke: the name is read under the lock; a Delete that fails ends it.   *)
RevokeBegins ==
  /\ revoking = NoRevoke
  /\ revoking' = [at |-> IF config = 0 THEN "save" ELSE "delete", name |-> config]
  /\ UNCHANGED <<codes, pending, wiped, overdue, call, lock, config, secrets, revoked, excused>>
  /\ UNCHANGED phoneVars

RevokeDeletes ==
  /\ revoking.at = "delete"
  /\ \/ /\ secrets' = [secrets EXCEPT ![revoking.name] = Absent]
        /\ revoked' = revoked \cup {revoking.name}
        /\ revoking' = [revoking EXCEPT !.at = "save"]
     \/ revoking' = NoRevoke /\ UNCHANGED <<secrets, revoked>>
  /\ UNCHANGED <<codes, pending, wiped, overdue, call, lock, config, excused>> /\ UNCHANGED phoneVars

RevokeSaves ==
  /\ revoking.at = "save"
  /\ revoking' = NoRevoke /\ config' \in {0, config}
  /\ UNCHANGED <<codes, pending, wiped, overdue, call, lock, secrets, revoked, excused>>
  /\ UNCHANGED phoneVars

(* The service stops and starts again: what is in memory is gone.          *)
ServiceRestarts ==
  /\ pending' = 0 /\ wiped' = 1 .. codes /\ lock' = 0 /\ revoking' = NoRevoke
  /\ call' = [n \in Calls |-> IF At(n, "none") THEN NoCall ELSE [call[n] EXCEPT !.at = "over"]]
  /\ UNCHANGED <<codes, overdue, config, secrets, revoked, excused>> /\ UNCHANGED phoneVars

(* Two minutes have passed since code q was made. *)
Expire(q) ==
  /\ q <= codes /\ overdue' = overdue \cup {q}
  /\ UNCHANGED <<codes, pending, wiped, call, lock, config, secrets, revoking, revoked, excused>>
  /\ UNCHANGED phoneVars

-----------------------------------------------------------------------------
(* The phone                                                               *)

(* savePairing and clearPairing *)
Scan(q) ==
  /\ q <= codes /\ q \notin overdue
  /\ phone' = [scan |-> q, presence |-> 0] /\ excused' = excused \cup HasAnswer
  /\ UNCHANGED <<inbox, storing>> /\ UNCHANGED pcVars

ClearPairing ==
  /\ phone # [scan |-> 0, presence |-> 0]
  /\ phone' = [scan |-> 0, presence |-> 0] /\ excused' = excused \cup HasAnswer
  /\ UNCHANGED <<inbox, storing>> /\ UNCHANGED pcVars

(* processPairing: a code out of date is dropped, and nothing is answered; *)
(* the answer arrives while the PC waits, or is lost, and counts either way. *)
ProcessPairing ==
  /\ inbox # <<>> /\ storing = 0
  /\ LET n == Head(inbox)
         good == phone.scan # 0 /\ phone.scan \notin overdue /\ call[n].key = phone.scan
     IN /\ inbox' = Tail(inbox)
        /\ phone' = IF phone.scan \in overdue THEN [phone EXCEPT !.scan = 0] ELSE phone
        /\ storing' = IF good THEN phone.scan ELSE 0
        /\ \/ good /\ At(n, "exchange") /\ Goes(n, "answered") /\ lock' = 0
           \/ UNCHANGED <<call, lock>>
  /\ UNCHANGED <<codes, pending, wiped, overdue, config, secrets, revoking, revoked, excused>>

(* Mutant: only a phone that still waits for a pairing keeps the key.      *)
KeepsIfWaiting == phone' = [scan |-> 0, presence |-> IF storing \in overdue THEN 0 ELSE storing]
Keeps == phone' = [scan |-> 0, presence |-> storing]

(* SecureStore.completePairing *)
PhoneStores ==
  /\ storing # 0 /\ Keeps /\ storing' = 0
  /\ UNCHANGED <<inbox, excused>> /\ UNCHANGED pcVars

PhoneRestarts ==
  /\ inbox' = <<>> /\ storing' = 0
  /\ excused' = IF storing # 0 THEN excused \cup HasAnswer ELSE excused
  /\ UNCHANGED phone /\ UNCHANGED pcVars

Next ==
  \/ StartPairing \/ ServiceRestarts \/ (\E q \in Codes : Expire(q) \/ Scan(q))
  \/ \E n \in Calls : \/ HandleCandidate(n) \/ NewPairingChallenge(n) \/ Exchange(n)
                      \/ ExchangeFails(n) \/ CheckResponse(n) \/ StorePresence(n)
                      \/ SavePairing(n) \/ Finish(n)
  \/ RevokeBegins \/ RevokeDeletes \/ RevokeSaves
  \/ ClearPairing \/ ProcessPairing \/ PhoneStores \/ PhoneRestarts

Spec == Init /\ [][Next]_vars

-----------------------------------------------------------------------------
(* Properties                                                              *)

(* The presence key the configuration names is in the store: over failing  *)
(* Puts, saves and deletes, restarts and calls that overtake one another,  *)
(* only revoke takes it away.                                              *)
PairedHasKey == config # 0 => secrets[config] # Absent \/ config \in revoked

(* The key the PC has configured is the one the phone has, or is about to  *)
(* store, unless the call was disturbed after the phone's answer: the user *)
(* scans or clears, the phone restarts before it has stored the key, or    *)
(* the secret is overwritten before the PC has made the key.               *)
KeysAgree ==
  config # 0 /\ config \notin excused \cup revoked =>
    secrets[config] \in {phone.presence, storing}

(* The answer to a code that has been replaced, is out of date, was left   *)
(* from before a restart, or has completed a pairing already is refused.   *)
OldCodesAreRefused ==
  [][\A n \in Calls : At(n, "answered") /\ call'[n].at = "checked" =>
       pending = call[n].code /\ pending \notin overdue]_vars

=============================================================================
