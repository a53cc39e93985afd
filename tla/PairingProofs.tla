--------------------------- MODULE PairingProofs ---------------------------
(***************************************************************************)
(* Proofs about Pairing, for any number of codes and calls: the presence   *)
(* key the configuration names is in the store, an old code completes no   *)
(* pairing, and both sides derive the same key.                            *)
(*                                                                         *)
(* PairedHasKey says nothing of the calls, and is kept because of where    *)
(* they are: the configuration and revoke only name calls that have saved  *)
(* (Named), so no call that may still delete its key is named, and a call  *)
(* that is about to save has its key in the store (StoredKey).             *)
(* OldCodesAreRefused rests on the secrets: of the codes made, only the    *)
(* pending one has a secret that is not zero (OneLives).                   *)
(* KeysAgree rests on what a call derives its key from: the code it was    *)
(* made under, which only a call that is excused can find wiped (Agreeing).*)
(***************************************************************************)
EXTENDS Pairing, TLAPS

(* The variables the invariant reads have their types. *)
Typed ==
  /\ codes \in Nat /\ pending \in 0 .. codes
  /\ call \in [Calls -> [at : Stages, code : Nat, key : Nat]]
  /\ secrets \in [Calls -> Int]
  /\ config \in Calls \cup {0}
  /\ revoking \in [at : {"idle", "delete", "save"}, name : Calls \cup {0}]

HasSaved(n) == call[n].at \in {"saved", "over"}

(* What the configuration and revoke name has been saved. *)
Named ==
  /\ config # 0 => HasSaved(config)
  /\ revoking.name # 0 => HasSaved(revoking.name)

(* A call about to save has stored its key. *)
StoredKey == \A n \in Calls : At(n, "stored") => secrets[n] # Absent

(* No secret but that of the pending code is left. *)
OneLives == \A q \in 1 .. codes : q # pending => q \in wiped

(* A call works on a code that has been made. *)
CodesMade == \A n \in Calls : ~At(n, "none") => call[n].code \in 1 .. codes

Keyed == Named /\ StoredKey /\ PairedHasKey
Living == OneLives /\ CodesMade

-----------------------------------------------------------------------------
(* A secret, overwritten or not, is no lack of one. *)
LEMMA SecretIsNumber == \A q \in Nat : SecretOf(q) \in Nat /\ SecretOf(q) # Absent
  BY DEF SecretOf, Absent

(* 0 names no call. *)
LEMMA NeverZero == 0 \notin Calls
  BY BoundsAreNumbers DEF Calls

(* Moving a call on leaves it a call. *)
LEMMA GoesTyped ==
  ASSUME Typed, NEW n, NEW stage \in Stages, Goes(n, stage)
  PROVE  call' \in [Calls -> [at : Stages, code : Nat, key : Nat]]
  BY DEF Typed, Goes

(* Moving a call on leaves its code and key, and the other calls, alone.   *)
LEMMA GoesKeeps ==
  ASSUME Typed, NEW n, NEW stage, Goes(n, stage)
  PROVE  \A m \in Calls : /\ call'[m].code = call[m].code /\ call'[m].key = call[m].key
                          /\ call'[m].at = IF m = n THEN stage ELSE call[m].at
  BY DEF Typed, Goes

(* A candidate begins one call, and leaves the others alone.               *)
LEMMA CandidateKeeps ==
  ASSUME Typed, NEW n \in Calls, HandleCandidate(n)
  PROVE  \/ call' = call
         \/ /\ call[n].at = "none" /\ pending # 0 /\ UNCHANGED <<pending, wiped, excused>>
            /\ call'[n].at = "seen" /\ call'[n].code = pending /\ call'[n].key = 0
            /\ \A m \in Calls : m # n => call'[m] = call[m]
  BY DEF Typed, HandleCandidate, At

(* Every step keeps the types. *)
LEMMA TypedStep == Typed /\ [Next]_vars => Typed'
<1> SUFFICES ASSUME Typed, [Next]_vars PROVE Typed'
  OBVIOUS
<1> USE DEF Typed
<1>1. CASE StartPairing
  BY <1>1 DEF StartPairing
<1>2. CASE ServiceRestarts
  <2>1. call' = [n \in Calls |-> IF At(n, "none") THEN NoCall ELSE [call[n] EXCEPT !.at = "over"]]
    BY <1>2 DEF ServiceRestarts
  <2>2. \A n \in Calls : [call[n] EXCEPT !.at = "over"] \in [at : Stages, code : Nat, key : Nat]
    BY DEF Stages
  <2>3. NoCall \in [at : Stages, code : Nat, key : Nat]
    BY DEF NoCall, Stages
  <2>4. call' \in [Calls -> [at : Stages, code : Nat, key : Nat]]
    BY <2>1, <2>2, <2>3
  <2> QED
    BY <1>2, <2>4 DEF ServiceRestarts, NoRevoke
<1>3. ASSUME NEW q \in Codes, Expire(q) \/ Scan(q) PROVE Typed'
  BY <1>3 DEF Expire, Scan, pcVars, phoneVars
<1>4. ASSUME NEW n \in Calls, HandleCandidate(n) PROVE Typed'
  BY <1>4 DEF HandleCandidate, Stages
<1>5. ASSUME NEW n \in Calls, NewPairingChallenge(n) PROVE Typed'
  <2>1. SecretOf(call[n].code) \in Nat
    BY SecretIsNumber
  <2>2. [call[n] EXCEPT !.at = "challenge", !.key = SecretOf(call[n].code)]
          \in [at : Stages, code : Nat, key : Nat]
    BY <2>1 DEF Stages
  <2>3. call' = [call EXCEPT ![n] = [call[n] EXCEPT !.at = "challenge", !.key = SecretOf(call[n].code)]]
    BY <1>5 DEF NewPairingChallenge
  <2> QED
    BY <1>5, <2>2, <2>3 DEF NewPairingChallenge, phoneVars
<1>6. ASSUME NEW n \in Calls, Exchange(n) \/ ExchangeFails(n) \/ CheckResponse(n) PROVE Typed'
  BY <1>6, GoesTyped DEF Exchange, ExchangeFails, CheckResponse, Stages
<1>7. ASSUME NEW n \in Calls, StorePresence(n) PROVE Typed'
  <2>1. secrets' \in [Calls -> Int]
    BY <1>7, SecretIsNumber DEF StorePresence
  <2> QED
    BY <1>7, <2>1, GoesTyped DEF StorePresence, Stages
<1>8. ASSUME NEW n \in Calls, SavePairing(n) PROVE Typed'
  BY <1>8, GoesTyped DEF SavePairing, Undo, Absent, Stages
<1>9. ASSUME NEW n \in Calls, Finish(n) PROVE Typed'
  BY <1>9, GoesTyped DEF Finish, Stages
<1>10. CASE RevokeBegins \/ RevokeDeletes \/ RevokeSaves
  BY <1>10 DEF RevokeBegins, RevokeDeletes, RevokeSaves, NoRevoke, Absent
<1>11. CASE ClearPairing \/ PhoneStores \/ PhoneRestarts
  BY <1>11 DEF ClearPairing, PhoneStores, PhoneRestarts, pcVars
<1>12. CASE ProcessPairing
  BY <1>12, GoesTyped DEF ProcessPairing, Stages
<1>13. CASE UNCHANGED vars
  BY <1>13 DEF vars, pcVars
<1> QED
  BY <1>1, <1>2, <1>3, <1>4, <1>5, <1>6, <1>7, <1>8, <1>9, <1>10, <1>11, <1>12, <1>13 DEF Next

-----------------------------------------------------------------------------
(* The key of the pairing                                                  *)

(* Every step keeps the keys: what deletes one deletes it of a call that   *)
(* is not named, or records it as revoked.                                 *)
LEMMA KeyedStep == Typed /\ Keyed /\ [Next]_vars => Keyed'
<1> SUFFICES ASSUME Typed, Keyed, [Next]_vars PROVE Keyed'
  OBVIOUS
<1> USE DEF Typed, Keyed, Named, StoredKey, PairedHasKey, HasSaved, At
<1>1. CASE StartPairing
  BY <1>1 DEF StartPairing
<1>2. CASE ServiceRestarts
  BY <1>2 DEF ServiceRestarts, NoCall, NoRevoke
<1>3. ASSUME NEW q \in Codes, Expire(q) \/ Scan(q) PROVE Keyed'
  BY <1>3 DEF Expire, Scan, pcVars, phoneVars
<1>4. ASSUME NEW n \in Calls, HandleCandidate(n) PROVE Keyed'
  BY <1>4, CandidateKeeps DEF HandleCandidate
<1>5. ASSUME NEW n \in Calls, NewPairingChallenge(n) PROVE Keyed'
  BY <1>5 DEF NewPairingChallenge
<1>6. ASSUME NEW n \in Calls, Exchange(n) \/ ExchangeFails(n) \/ CheckResponse(n) PROVE Keyed'
  <2>1. UNCHANGED <<config, secrets, revoking, revoked>>
    BY <1>6 DEF Exchange, ExchangeFails, CheckResponse, phoneVars
  <2>2. \A m \in Calls : call'[m].at = IF m = n THEN call'[n].at ELSE call[m].at
    BY <1>6, GoesKeeps DEF Exchange, ExchangeFails, CheckResponse
  <2>3. call'[n].at # "stored" /\ call[n].at \notin {"saved", "over"}
    BY <1>6, GoesKeeps DEF Exchange, ExchangeFails, CheckResponse
  <2> QED
    BY <2>1, <2>2, <2>3
<1>7. ASSUME NEW n \in Calls, StorePresence(n) PROVE Keyed'
  BY <1>7, SecretIsNumber, GoesKeeps DEF StorePresence
<1>8. ASSUME NEW n \in Calls, SavePairing(n) PROVE Keyed'
  BY <1>8, GoesKeeps DEF SavePairing, Undo
<1>9. ASSUME NEW n \in Calls, Finish(n) PROVE Keyed'
  BY <1>9, GoesKeeps DEF Finish
<1>10. CASE RevokeBegins \/ RevokeDeletes \/ RevokeSaves
  <2>1. CASE RevokeBegins
    BY <2>1 DEF RevokeBegins
  <2>2. CASE RevokeDeletes
    <3>1. UNCHANGED <<call, config>> /\ revoking'.name \in {0, revoking.name}
      BY <2>2 DEF RevokeDeletes, NoRevoke
    <3>2. \A n \in Calls : n # revoking.name => secrets'[n] = secrets[n]
      BY <2>2 DEF RevokeDeletes
    <3>3. Named'
      BY <3>1
    <3>5. StoredKey'
      <4> SUFFICES ASSUME NEW n \in Calls, At(n, "stored")' PROVE secrets'[n] # Absent
        OBVIOUS
      <4>1. n # revoking.name
        BY <3>1, NeverZero
      <4> QED
        BY <4>1, <3>1, <3>2
    <3>6. PairedHasKey'
      BY <2>2, <3>1, <3>2 DEF RevokeDeletes
    <3> QED
      BY <3>3, <3>5, <3>6
  <2>3. CASE RevokeSaves
    BY <2>3 DEF RevokeSaves, NoRevoke
  <2> QED
    BY <1>10, <2>1, <2>2, <2>3
<1>11. CASE ClearPairing \/ PhoneStores \/ PhoneRestarts
  BY <1>11 DEF ClearPairing, PhoneStores, PhoneRestarts, pcVars
<1>12. CASE ProcessPairing
  BY <1>12 DEF ProcessPairing, Goes
<1>13. CASE UNCHANGED vars
  BY <1>13 DEF vars, pcVars
<1> QED
  BY <1>1, <1>2, <1>3, <1>4, <1>5, <1>6, <1>7, <1>8, <1>9, <1>10, <1>11, <1>12, <1>13 DEF Next

-----------------------------------------------------------------------------
(* The secrets of the codes                                                *)

(* Every step leaves at most the pending code its secret. *)
LEMMA LivingStep == Typed /\ Living /\ [Next]_vars => Living'
<1> SUFFICES ASSUME Typed, Living, [Next]_vars PROVE Living'
  OBVIOUS
<1> USE DEF Typed, Living, OneLives, CodesMade, At
<1>1. CASE StartPairing
  BY <1>1 DEF StartPairing, Wipes
<1>2. CASE ServiceRestarts
  BY <1>2 DEF ServiceRestarts, NoCall
<1>3. ASSUME NEW q \in Codes, Expire(q) \/ Scan(q) PROVE Living'
  BY <1>3 DEF Expire, Scan, pcVars, phoneVars
<1>4. ASSUME NEW n \in Calls, HandleCandidate(n) PROVE Living'
  BY <1>4, CandidateKeeps DEF HandleCandidate, Wipes
<1>5. ASSUME NEW n \in Calls, NewPairingChallenge(n) PROVE Living'
  BY <1>5 DEF NewPairingChallenge
<1>6. ASSUME NEW n \in Calls, Exchange(n) \/ ExchangeFails(n) \/ CheckResponse(n) PROVE Living'
  <2>1. UNCHANGED <<codes, pending, wiped>> /\ call[n].at # "none"
    BY <1>6 DEF Exchange, ExchangeFails, CheckResponse
  <2>2. \A m \in Calls : call'[m].code = call[m].code /\ (m # n => call'[m].at = call[m].at)
    BY <1>6, GoesKeeps DEF Exchange, ExchangeFails, CheckResponse
  <2> QED
    BY <2>1, <2>2
<1>7. ASSUME NEW n \in Calls, StorePresence(n) \/ SavePairing(n) PROVE Living'
  BY <1>7, GoesKeeps DEF StorePresence, SavePairing
<1>8. ASSUME NEW n \in Calls, Finish(n) PROVE Living'
  BY <1>8, GoesKeeps DEF Finish, Wipes
<1>9. CASE RevokeBegins \/ RevokeDeletes \/ RevokeSaves
  BY <1>9 DEF RevokeBegins, RevokeDeletes, RevokeSaves
<1>10. CASE ClearPairing \/ PhoneStores \/ PhoneRestarts
  BY <1>10 DEF ClearPairing, PhoneStores, PhoneRestarts, pcVars
<1>11. CASE ProcessPairing
  <2>1. UNCHANGED <<codes, pending, wiped>>
    BY <1>11 DEF ProcessPairing
  <2>2. \A n \in Calls : call'[n].code = call[n].code /\ (At(n, "none") => At(n, "none")')
    <3>1. CASE UNCHANGED call
      BY <3>1
    <3>2. CASE \E m : At(m, "exchange") /\ Goes(m, "answered")
      BY <3>2 DEF Goes
    <3> QED
      BY <1>11, <3>1, <3>2 DEF ProcessPairing
  <2> QED
    BY <2>1, <2>2
<1>12. CASE UNCHANGED vars
  BY <1>12 DEF vars, pcVars
<1> QED
  BY <1>1, <1>2, <1>3, <1>4, <1>5, <1>6, <1>7, <1>8, <1>9, <1>10, <1>11, <1>12 DEF Next

(* Only CheckResponse takes an answer for good. *)
LEMMA OnlyChecks ==
  ASSUME Typed, [Next]_vars, NEW n \in Calls, At(n, "answered"), call'[n].at = "checked"
  PROVE  CheckResponse(n)
<1> USE DEF Typed, At
<1>1. CASE StartPairing
  BY <1>1 DEF StartPairing
<1>2. CASE ServiceRestarts
  BY <1>2 DEF ServiceRestarts, NoCall
<1>3. ASSUME NEW q \in Codes, Expire(q) \/ Scan(q) PROVE FALSE
  BY <1>3 DEF Expire, Scan, pcVars, phoneVars
<1>4. ASSUME NEW m \in Calls, HandleCandidate(m) \/ NewPairingChallenge(m) PROVE FALSE
  BY <1>4 DEF HandleCandidate, NewPairingChallenge
<1>5. ASSUME NEW m \in Calls, Exchange(m) \/ ExchangeFails(m) \/ StorePresence(m) PROVE FALSE
  BY <1>5 DEF Exchange, ExchangeFails, StorePresence, Goes
<1>6. ASSUME NEW m \in Calls, SavePairing(m) \/ Finish(m) PROVE FALSE
  BY <1>6 DEF SavePairing, Finish, Goes
<1>7. ASSUME NEW m \in Calls, CheckResponse(m) PROVE CheckResponse(n)
  <2>1. CASE m = n
    BY <1>7, <2>1
  <2>2. CASE m # n
    BY <1>7, <2>2 DEF CheckResponse, Goes
  <2> QED
    BY <2>1, <2>2
<1>8. CASE RevokeBegins \/ RevokeDeletes \/ RevokeSaves
  BY <1>8 DEF RevokeBegins, RevokeDeletes, RevokeSaves
<1>9. CASE ClearPairing \/ PhoneStores \/ PhoneRestarts
  BY <1>9 DEF ClearPairing, PhoneStores, PhoneRestarts, pcVars
<1>10. CASE ProcessPairing
  BY <1>10 DEF ProcessPairing, Goes
<1>11. CASE UNCHANGED vars
  BY <1>11 DEF vars, pcVars
<1> QED
  BY <1>1, <1>2, <1>3, <1>4, <1>5, <1>6, <1>7, <1>8, <1>9, <1>10, <1>11 DEF Next

(* An answer that verifies was made under a secret that is left. *)
LEMMA ChecksOnlyPending ==
  ASSUME Typed, Living, [Next]_vars, NEW n \in Calls, At(n, "answered"), call'[n].at = "checked"
  PROVE  pending = call[n].code /\ pending \notin overdue
<1>1. CheckResponse(n)
  BY OnlyChecks
<1>2. Verifies(n) /\ call[n].code \notin overdue
  BY <1>1 DEF CheckResponse, Goes, Typed
<1>3. call[n].code \in 1 .. codes
  BY DEF Living, CodesMade, At
<1>4. call[n].code \notin wiped
  BY <1>2, <1>3 DEF Verifies, SecretOf
<1> QED
  BY <1>2, <1>3, <1>4 DEF Living, OneLives, Typed

-----------------------------------------------------------------------------
(* At the start nothing is paired, stored or made. *)
LEMMA InvInit == Init => Typed /\ Keyed /\ Living
<1> SUFFICES ASSUME Init PROVE Typed /\ Keyed /\ Living
  OBVIOUS
<1>1. Typed
  BY DEF Init, Typed, NoCall, NoRevoke, Stages, Absent
<1>2. Keyed
  BY DEF Init, Keyed, Named, StoredKey, PairedHasKey, NoCall, NoRevoke, At
<1>3. Living
  BY DEF Init, Living, OneLives, CodesMade, NoCall, At
<1> QED
  BY <1>1, <1>2, <1>3

(* For any number of codes and calls: the presence key the configuration   *)
(* names is in the store, over failing writes, restarts and concurrent     *)
(* completions, unless revoke has deleted it.                              *)
THEOREM PairedHasKeyAlways == Spec => []PairedHasKey
<1>1. Typed /\ Keyed /\ [Next]_vars => Typed' /\ Keyed'
  BY TypedStep, KeyedStep
<1>2. Keyed => PairedHasKey
  BY DEF Keyed
<1> QED
  BY InvInit, <1>1, <1>2, PTL DEF Spec

(* For any number of codes and calls: an answer is only taken under the    *)
(* pending code, within its time.                                          *)
THEOREM OldCodesAreRefusedAlways == Spec => OldCodesAreRefused
<1>1. Typed /\ Living /\ [Next]_vars => Typed' /\ Living'
  BY TypedStep, LivingStep
<1>2. Typed /\ Living /\ [Next]_vars
        => [\A n \in Calls : At(n, "answered") /\ call'[n].at = "checked" =>
              pending = call[n].code /\ pending \notin overdue]_vars
  BY ChecksOnlyPending
<1> QED
  BY InvInit, <1>1, <1>2, PTL DEF Spec, OldCodesAreRefused

-----------------------------------------------------------------------------
(* The two keys of a pairing                                               *)

(* A phone that waits for a pairing, or has one to store, has no key yet.  *)
PhoneTyped ==
  /\ phone \in [scan : Nat, presence : Nat] /\ storing \in Nat
  /\ phone.scan # 0 \/ storing # 0 => phone.presence = 0

(* A challenge is made with the secret of the code or after it is gone. *)
OwnSecret == \A n \in Calls : call[n].key \in {0, call[n].code}

(* What the phone has answered to, it has the key of or is about to store. *)
AnswerKept ==
  \A n \in Calls : call[n].at \in {"answered", "checked", "stored"} /\ n \notin excused
    => call[n].key # 0 /\ call[n].key \in {phone.presence, storing}

(* An answer that has been checked and not been disturbed still has its    *)
(* secret, and so the key made from it is the phone's.                     *)
SecretThere ==
  \A n \in Calls : At(n, "checked") /\ n \notin excused => call[n].code \notin wiped

SameKey ==
  \A n \in Calls : At(n, "stored") /\ n \notin excused => secrets[n] = call[n].key

Agreeing ==
  PhoneTyped /\ OwnSecret /\ AnswerKept /\ SecretThere /\ SameKey /\ KeysAgree

(* Every step keeps the phone's record in order. *)
LEMMA PhoneTypedStep == Typed /\ PhoneTyped /\ [Next]_vars => PhoneTyped'
<1> SUFFICES ASSUME Typed, PhoneTyped, [Next]_vars PROVE PhoneTyped'
  OBVIOUS
<1> USE DEF PhoneTyped, phoneVars
<1>1. CASE StartPairing \/ ServiceRestarts
  BY <1>1 DEF StartPairing, ServiceRestarts
<1>2. ASSUME NEW q \in Codes, Expire(q) \/ Scan(q) PROVE PhoneTyped'
  BY <1>2, BoundsAreNumbers DEF Expire, Scan, Codes
<1>3. ASSUME NEW n \in Calls,
             \/ HandleCandidate(n) \/ NewPairingChallenge(n) \/ Exchange(n) \/ ExchangeFails(n)
             \/ CheckResponse(n) \/ StorePresence(n) \/ SavePairing(n) \/ Finish(n)
      PROVE  PhoneTyped'
  BY <1>3 DEF HandleCandidate, NewPairingChallenge, Exchange, ExchangeFails, CheckResponse,
    StorePresence, SavePairing, Finish
<1>4. CASE RevokeBegins \/ RevokeDeletes \/ RevokeSaves
  BY <1>4 DEF RevokeBegins, RevokeDeletes, RevokeSaves
<1>5. CASE ClearPairing \/ PhoneStores \/ PhoneRestarts
  BY <1>5 DEF ClearPairing, PhoneStores, Keeps, PhoneRestarts
<1>6. CASE ProcessPairing
  BY <1>6 DEF ProcessPairing
<1>7. CASE UNCHANGED vars
  BY <1>7 DEF vars
<1> QED
  BY <1>1, <1>2, <1>3, <1>4, <1>5, <1>6, <1>7 DEF Next

(* A call that begins changes nothing of the others that Agreeing reads.   *)
LEMMA SeenKeeps ==
  ASSUME Typed, NEW n \in Calls, HandleCandidate(n)
  PROVE  \A m \in Calls : \/ call'[m] = call[m]
                          \/ call[m].at = "none" /\ call'[m].at = "seen" /\ call'[m].key = 0
  BY CandidateKeeps

(* Every step of the PC keeps the two keys the same; what would part them  *)
(* is recorded as a disturbance.                                           *)
LEMMA PcAgrees ==
  ASSUME Typed, Keyed, Living, Agreeing, NEW n \in Calls, PhoneTyped',
         \/ HandleCandidate(n) \/ NewPairingChallenge(n) \/ Exchange(n) \/ ExchangeFails(n)
         \/ CheckResponse(n) \/ StorePresence(n) \/ SavePairing(n) \/ Finish(n)
  PROVE  Agreeing'
<1>0. HandleCandidate(n) =>
        \A m \in Calls : \/ call'[m] = call[m]
                         \/ call[m].at = "none" /\ call'[m].at = "seen" /\ call'[m].key = 0
  BY SeenKeeps
<1> USE NeverZero DEF Typed, Agreeing, OwnSecret, AnswerKept, SecretThere, SameKey, KeysAgree, At,
        phoneVars
<1>1. CASE HandleCandidate(n)
  <2>1. CASE call' = call
    BY <1>1, <2>1 DEF HandleCandidate, Wipes, Deriving
  <2>2. CASE call' # call
    <3>1. UNCHANGED <<wiped, excused, config, secrets, revoked, phone, storing>>
      BY <1>1, <2>2, CandidateKeeps DEF HandleCandidate
    <3>2. config # 0 => call'[config] = call[config]
      BY <1>0, <1>1 DEF Keyed, Named, HasSaved
    <3>3. OwnSecret'
      BY <1>0, <1>1
    <3>4. AnswerKept' /\ SecretThere' /\ SameKey'
      BY <1>0, <1>1, <3>1
    <3>5. KeysAgree'
      BY <3>1, <3>2
    <3> QED
      BY <3>3, <3>4, <3>5
  <2> QED
    BY <2>1, <2>2
<1>2. CASE NewPairingChallenge(n)
  BY <1>2 DEF NewPairingChallenge, SecretOf
<1>3. CASE Exchange(n) \/ ExchangeFails(n)
  <2>1. Goes(n, "exchange") \/ Goes(n, "over")
    BY <1>3 DEF Exchange, ExchangeFails
  <2>2. /\ \A m \in Calls : call'[m].code = call[m].code /\ call'[m].key = call[m].key
        /\ \A m \in Calls : call'[m].at \in {call[m].at, "exchange", "over"}
    BY <2>1, GoesKeeps
  <2>3. UNCHANGED <<wiped, config, secrets, revoked, excused, phone, storing>>
    BY <1>3 DEF Exchange, ExchangeFails
  <2> QED
    BY <2>2, <2>3
<1>4. CASE CheckResponse(n)
  <2>1. PICK stage \in {"checked", "over"} :
          Goes(n, stage) /\ (stage = "checked" => Verifies(n))
    BY <1>4 DEF CheckResponse
  <2>2. call[n].code # 0
    BY <1>4 DEF CheckResponse, Living, CodesMade
  <2>3. stage = "checked" => call[n].code \notin wiped
    BY <2>1, <2>2 DEF Verifies, SecretOf
  <2> QED
    BY <1>4, <2>1, <2>3, GoesKeeps DEF CheckResponse
<1>5. CASE StorePresence(n)
  <2>1. config # n
    BY <1>5 DEF StorePresence, Keyed, Named, HasSaved
  <2>2. CASE secrets' = [secrets EXCEPT ![n] = SecretOf(call[n].code)] /\ Goes(n, "stored")
    <3>1. n \notin excused => secrets'[n] = call[n].key
      BY <1>5, <2>2 DEF StorePresence, SecretOf
    <3> QED
      BY <1>5, <2>1, <2>2, <3>1, GoesKeeps DEF StorePresence
  <2>3. CASE Goes(n, "over") /\ UNCHANGED secrets
    BY <1>5, <2>3, GoesKeeps DEF StorePresence
  <2> QED
    BY <1>5, <2>2, <2>3 DEF StorePresence
<1>6. CASE SavePairing(n)
  <2>1. config # n
    BY <1>6 DEF SavePairing, Keyed, Named, HasSaved
  <2> QED
    BY <1>6, <2>1, GoesKeeps DEF SavePairing, Undo
<1>7. CASE Finish(n)
  BY <1>7, GoesKeeps DEF Finish, Wipes, Deriving
<1> QED
  BY <1>1, <1>2, <1>3, <1>4, <1>5, <1>6, <1>7

(* Every other step does too. *)
LEMMA AgreeingStep == Typed /\ Keyed /\ Living /\ Agreeing /\ [Next]_vars => Agreeing'
<1> SUFFICES ASSUME Typed, Keyed, Living, Agreeing, [Next]_vars PROVE Agreeing'
  OBVIOUS
<1>0. PhoneTyped'
  BY PhoneTypedStep DEF Agreeing
<1>1. ASSUME NEW n \in Calls,
             \/ HandleCandidate(n) \/ NewPairingChallenge(n) \/ Exchange(n) \/ ExchangeFails(n)
             \/ CheckResponse(n) \/ StorePresence(n) \/ SavePairing(n) \/ Finish(n)
      PROVE  Agreeing'
  BY <1>0, <1>1, PcAgrees
<1>2. config # 0 => config \in HasAnswer
  BY DEF Typed, Keyed, Named, HasSaved, HasAnswer
<1>3. \A n \in Calls : call[n].at \in {"answered", "checked", "stored"} => n \in HasAnswer
  BY DEF HasAnswer
<1> USE <1>0, NeverZero DEF Typed, Agreeing, OwnSecret, AnswerKept, SecretThere, SameKey, KeysAgree,
        At, phoneVars, pcVars
<1>4. CASE StartPairing
  BY <1>4 DEF StartPairing, Wipes, Deriving
<1>5. CASE ServiceRestarts
  BY <1>5 DEF ServiceRestarts, NoCall
<1>6. ASSUME NEW q \in Codes, Expire(q) PROVE Agreeing'
  BY <1>6 DEF Expire
<1>7. ASSUME NEW q \in Codes, Scan(q) PROVE Agreeing'
  BY <1>2, <1>3, <1>7 DEF Scan
<1>8. CASE RevokeBegins \/ RevokeSaves
  BY <1>8 DEF RevokeBegins, RevokeSaves
<1>9. CASE RevokeDeletes
  <2>1. \A n \in Calls : At(n, "stored") => n # revoking.name
    BY DEF Keyed, Named, HasSaved
  <2> QED
    BY <1>9, <2>1 DEF RevokeDeletes
<1>10. CASE ClearPairing
  BY <1>2, <1>3, <1>10 DEF ClearPairing
<1>11. CASE PhoneStores
  BY <1>11 DEF PhoneStores, Keeps, PhoneTyped
<1>12. CASE PhoneRestarts
  BY <1>2, <1>3, <1>12 DEF PhoneRestarts
<1>13. CASE ProcessPairing
  <2>1. UNCHANGED <<wiped, config, secrets, revoked, excused>> /\ storing = 0 /\ phone'.presence = phone.presence
    BY <1>13 DEF ProcessPairing, PhoneTyped
  <2>2. storing' # 0 => phone.presence = 0
    BY <1>13 DEF ProcessPairing, PhoneTyped
  <2>3. CASE UNCHANGED call
    BY <2>1, <2>2, <2>3
  <2>4. CASE \E n : Goes(n, "answered") /\ call[n].key = storing' /\ storing' # 0
    BY <2>1, <2>2, <2>4, GoesKeeps
  <2> QED
    BY <1>13, <2>3, <2>4 DEF ProcessPairing
<1>14. CASE UNCHANGED vars
  BY <1>14 DEF vars
<1> QED
  BY <1>1, <1>4, <1>5, <1>6, <1>7, <1>8, <1>9, <1>10, <1>11, <1>12, <1>13, <1>14 DEF Next

(* For any number of codes and calls: the presence key the PC has          *)
(* configured is the one the phone has or is about to store, whatever      *)
(* answers and completions overtake one another, unless revoke has deleted *)
(* it or the call was disturbed after the phone's answer.                  *)
THEOREM KeysAgreeAlways == Spec => []KeysAgree
<1>1. Init => Agreeing
  BY DEF Init, Agreeing, PhoneTyped, OwnSecret, AnswerKept, SecretThere, SameKey, KeysAgree, NoCall, At
<1>2. Typed /\ Keyed /\ Living /\ Agreeing /\ [Next]_vars
        => Typed' /\ Keyed' /\ Living' /\ Agreeing'
  BY TypedStep, KeyedStep, LivingStep, AgreeingStep
<1>3. Agreeing => KeysAgree
  BY DEF Agreeing
<1> QED
  BY InvInit, <1>1, <1>2, <1>3, PTL DEF Spec

=============================================================================
