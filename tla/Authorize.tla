----------------------------- MODULE Authorize -----------------------------
(***************************************************************************)
(* The authorization manager of internal/authorize/authorize.go: at most   *)
(* one grant, valid for a few seconds, for one session.  Every method of   *)
(* the Go type runs under its mutex, so each is one action here, written   *)
(* on the two variables that decide its answer.  The composing module      *)
(* instantiates it and conjoins what the caller of the method does.        *)
(*                                                                         *)
(* Times are ages: grant.age is the time since CreatedAt, in ticks, so     *)
(* now.After(ExpiresAt) is grant.age > GrantLife.                          *)
(***************************************************************************)
EXTENDS Naturals

CONSTANTS
  Sessions,   \* Windows session ids
  Proofs,     \* identities of accepted phone proofs
  None,       \* stands for the nil grant, the absent session and so on
  GrantLife,  \* ticks a grant may be used for: the five seconds of Grant
  AgeCap      \* where ages stop growing: past every limit they are compared with

VARIABLES
  grant,      \* the pending grant
  disabled    \* set while the stored credential is known to be bad

(***************************************************************************)
(* Which proof a grant came from is not in the Go struct: it is carried    *)
(* along so that properties can speak of it, and is read by no guard but   *)
(* the nil test.                                                           *)
(***************************************************************************)
NoGrant == [session |-> None, proof |-> None, age |-> 0]

Ages == 0 .. AgeCap
Older(age) == IF age < AgeCap THEN age + 1 ELSE age

GrantType == [session : Sessions \cup {None}, proof : Proofs \cup {None}, age : Ages]

TypeOK == grant \in GrantType /\ disabled \in BOOLEAN

(* The test Peek, Consume and Snapshot share. *)
Live == grant.proof # None /\ ~disabled /\ grant.age <= GrantLife

(* Manager.Grant up to the unlock: a newer grant replaces an older one.    *)
Grant(session, proof, age) ==
  /\ ~disabled
  /\ grant' = [session |-> session, proof |-> proof, age |-> age]
  /\ UNCHANGED disabled

(* Manager.Peek: an unusable grant is dropped on the way. *)
Peek ==
  /\ grant' = IF Live THEN grant ELSE NoGrant
  /\ UNCHANGED disabled

(* A mutant of Consume: a usable grant is left in place, as Peek leaves it. *)
ConsumeLikePeek == grant' = (IF Live THEN grant ELSE NoGrant) /\ UNCHANGED disabled

(* Manager.Consume: whatever the answer, nothing is left. *)
Consume == grant' = NoGrant /\ UNCHANGED disabled

Cancel == grant' = NoGrant /\ UNCHANGED disabled

Disable == grant' = NoGrant /\ disabled' = TRUE

Enable == disabled' = FALSE /\ UNCHANGED grant

(* One tick of the clock. *)
Age ==
  /\ grant' = IF grant.proof = None THEN grant ELSE [grant EXCEPT !.age = Older(@)]
  /\ UNCHANGED disabled

=============================================================================
