----------------------------- MODULE Settings -----------------------------
(***************************************************************************)
(* One configuration in three places: config.json, the coordinator's copy  *)
(* (memory) and what the proximity state works with (applied), next to the *)
(* authorization manager's own switch (disabled).  Control requests run on *)
(* threads of their own: a request stores its change under the             *)
(* coordinator's lock, then reads the settings back under the lock and     *)
(* hands them over without it; a reload loads the file before it takes the *)
(* lock.  Next to them a rejected password is struck from the              *)
(* configuration, and setup.exe or proximityctl, in a process of its own,  *)
(* loads the file, asks for a password and saves the file.                 *)
(*                                                                         *)
(* Save writes a temporary file and renames it: one step.  A request that  *)
(* is refused, or cannot be written, changes nothing and is left out, as   *)
(* are the checks that the file is still of the same computer and account. *)
(***************************************************************************)
EXTENDS Config, FiniteSets

CONSTANTS
  Callers,      \* threads of the control pipe
  Changes,      \* what a request sets: functions on some of Fields
  OldLines,     \* unlock and lock lines in a file of an earlier version
  Levels,       \* medians a calibration measures
  MaxBusy       \* bound: how many requests, rejections and tools are under way at a time

ASSUME OldLinesValid == \A line \in OldLines : ValidThresholds(line.unlock, line.lock)
ASSUME LevelsAreNumbers == Levels \subseteq Int

VARIABLES
  file,         \* config.json
  memory,       \* Coordinator.config
  applied,      \* State.settings
  disabled,     \* Manager.disabled
  up,           \* the service runs
  at,           \* the next step of each control request
  held,         \* what that request took along
  rejecting,    \* the next step of invalidateCredential
  rejected,     \* the configuration it saves
  typing,       \* a tool asks for the new password
  typed,        \* the configuration the tool loaded before
  alone,        \* no two of these have run at a time since the last one began
  settled       \* the three places were brought in line, and none overlapped since

vars == <<file, memory, applied, disabled, up, at, held, rejecting, rejected, typing,
          typed, alone, settled>>

Blank == Default      \* stands for a value nobody reads

Busy == {c \in Callers : at[c] # "idle"} \cup (IF rejecting # "idle" THEN {"reject"} ELSE {})
          \cup (IF typing THEN {"tool"} ELSE {})
Quiet == Busy = {}

(* Something begins: whatever is under way overlaps with it. *)
Begins == Cardinality(Busy) < MaxBusy /\ alone' = Quiet /\ settled' = (settled /\ Quiet)
Goes == UNCHANGED <<alone, settled>>
Settles == settled' = (settled \/ alone) /\ UNCHANGED alone

(* A file as an earlier version wrote it.  The line of the profile is a    *)
(* field since version 3.                                                  *)
OldFile(version, line) ==
  [version |-> version, mode |-> "strict", unlockRSSI |-> line.unlock,
   lockRSSI |-> line.lock, window |-> 20,
   highRSSI |-> IF version = 3 THEN line.unlock ELSE 0]

(* The file initialize writes. *)
NewFile == [Default EXCEPT !.credentialValid = TRUE]

Init ==
  /\ file = NewFile \/ \E version \in 0 .. 3, line \in OldLines : file = OldFile(version, line)
  /\ memory = Blank /\ applied = SettingsFor(Blank) /\ disabled = FALSE /\ up = FALSE
  /\ at = [c \in Callers |-> "idle"] /\ held = [c \in Callers |-> Blank]
  /\ rejecting = "idle" /\ rejected = Blank
  /\ typing = FALSE /\ typed = Blank
  /\ alone = TRUE /\ settled = TRUE

-----------------------------------------------------------------------------
(* Control requests                                                        *)

Changed(c, change) == [f \in Fields |-> IF f \in DOMAIN change THEN change[f] ELSE c[f]]

(* Mutant: what a request asks for is saved unseen. *)
StorableUnchecked(c) == TRUE
Storable(c) == Validates(c)

(* Mutant: only the profile's switch is handed over. *)
StageAfterSwitch(change) == IF DOMAIN change = {"highSensitivity"} THEN "read" ELSE "idle"

(* What follows updateConfig: set_immediate_unlock sets one flag, the mode *)
(* and the automatic lock do not concern the proximity state.              *)
StageAfter(change) ==
  CASE DOMAIN change \subseteq {"mode", "autoLock"} -> "idle"
    [] DOMAIN change = {"immediateUnlock"} -> "flag"
    [] OTHER -> "read"

UpdateConfig(c) ==
  /\ up /\ at[c] = "idle"
  /\ \E change \in Changes :
       LET next == Changed(memory, change) IN
         /\ Storable(next)
         /\ file' = next /\ memory' = next
         /\ at' = [at EXCEPT ![c] = StageAfter(change)]
         /\ held' = [held EXCEPT ![c] = IF StageAfter(change) = "flag" THEN next ELSE Blank]
  /\ Begins
  /\ UNCHANGED <<applied, disabled, up, rejecting, rejected, typing, typed>>

ReadBack(c) ==
  /\ at[c] = "read"
  /\ held' = [held EXCEPT ![c] = memory]
  /\ at' = [at EXCEPT ![c] = "handOver"]
  /\ Goes
  /\ UNCHANGED <<file, memory, applied, disabled, up, rejecting, rejected, typing, typed>>

HandOver(c) ==
  /\ at[c] = "handOver"
  /\ applied' = SettingsFor(held[c])
  /\ at' = [at EXCEPT ![c] = "idle"] /\ held' = [held EXCEPT ![c] = Blank]
  /\ Settles
  /\ UNCHANGED <<file, memory, disabled, up, rejecting, rejected, typing, typed>>

SetImmediateUnlock(c) ==
  /\ at[c] = "flag"
  /\ applied' = [applied EXCEPT !.immediateUnlock = held[c].immediateUnlock]
  /\ at' = [at EXCEPT ![c] = "idle"] /\ held' = [held EXCEPT ![c] = Blank]
  /\ Goes
  /\ UNCHANGED <<file, memory, disabled, up, rejecting, rejected, typing, typed>>

ReloadLoad(c) ==
  /\ up /\ at[c] = "idle" /\ Loads(file)
  /\ held' = [held EXCEPT ![c] = Loaded(file)]
  /\ at' = [at EXCEPT ![c] = "take"]
  /\ Begins
  /\ UNCHANGED <<file, memory, applied, disabled, up, rejecting, rejected, typing, typed>>

ReloadTake(c) ==
  /\ at[c] = "take"
  /\ memory' = held[c]
  /\ at' = [at EXCEPT ![c] = "push"]
  /\ Goes
  /\ UNCHANGED <<file, applied, disabled, up, held, rejecting, rejected, typing, typed>>

ReloadPush(c) ==
  /\ at[c] = "push"
  /\ applied' = SettingsFor(held[c])
  /\ at' = [at EXCEPT ![c] = "enable"]
  /\ Goes
  /\ UNCHANGED <<file, memory, disabled, up, held, rejecting, rejected, typing, typed>>

ReloadEnable(c) ==
  /\ at[c] = "enable"
  /\ disabled' = ~held[c].credentialValid
  /\ at' = [at EXCEPT ![c] = "idle"] /\ held' = [held EXCEPT ![c] = Blank]
  /\ Settles
  /\ UNCHANGED <<file, memory, applied, up, rejecting, rejected, typing, typed>>

-----------------------------------------------------------------------------
(* A password Windows refused, and a new one                               *)

RejectDisable ==
  /\ up /\ rejecting = "idle" /\ ~disabled
  /\ disabled' = TRUE /\ rejecting' = "mark"
  /\ Begins
  /\ UNCHANGED <<file, memory, applied, up, at, held, rejected, typing, typed>>

RejectMark ==
  /\ rejecting = "mark"
  /\ memory' = [memory EXCEPT !.credentialValid = FALSE]
  /\ rejected' = memory' /\ rejecting' = "save"
  /\ Goes
  /\ UNCHANGED <<file, applied, disabled, up, at, held, typing, typed>>

(* The error of Save is ignored. *)
RejectSave ==
  /\ rejecting = "save"
  /\ file' \in {file, rejected}
  /\ rejecting' = "idle" /\ rejected' = Blank
  /\ Goes
  /\ UNCHANGED <<memory, applied, disabled, up, at, held, typing, typed>>

ToolLoads ==
  /\ ~typing /\ Loads(file)
  /\ typing' = TRUE /\ typed' = Loaded(file)
  /\ Begins
  /\ UNCHANGED <<file, memory, applied, disabled, up, at, held, rejecting, rejected>>

(* The reload the tool then asks for may be lost, or be one of ReloadLoad. *)
ToolSaves ==
  /\ typing
  /\ file' = [typed EXCEPT !.credentialValid = TRUE]
  /\ typing' = FALSE /\ typed' = Blank
  /\ Goes
  /\ UNCHANGED <<memory, applied, disabled, up, at, held, rejecting, rejected>>

(* The account is not confirmed, or the password cannot be stored. *)
ToolGivesUp ==
  /\ typing
  /\ typing' = FALSE /\ typed' = Blank
  /\ Goes
  /\ UNCHANGED <<file, memory, applied, disabled, up, at, held, rejecting, rejected>>

-----------------------------------------------------------------------------
(* The service process                                                     *)

Stop ==
  /\ up /\ up' = FALSE
  /\ memory' = Blank /\ applied' = SettingsFor(Blank) /\ disabled' = FALSE
  /\ at' = [c \in Callers |-> "idle"] /\ held' = [c \in Callers |-> Blank]
  /\ rejecting' = "idle" /\ rejected' = Blank
  /\ Goes
  /\ UNCHANGED <<file, typing, typed>>

Start ==
  /\ ~up /\ Loads(file) /\ up' = TRUE
  /\ memory' = Loaded(file) /\ applied' = SettingsFor(memory')
  /\ disabled' = ~memory'.credentialValid
  /\ settled' = ~typing /\ alone' = ~typing
  /\ UNCHANGED <<file, at, held, rejecting, rejected, typing, typed>>

Request(c) ==
  \/ UpdateConfig(c) \/ ReadBack(c) \/ HandOver(c) \/ SetImmediateUnlock(c)
  \/ ReloadLoad(c) \/ ReloadTake(c) \/ ReloadPush(c) \/ ReloadEnable(c)

Next ==
  \/ \E c \in Callers : Request(c)
  \/ RejectDisable \/ RejectMark \/ RejectSave
  \/ ToolLoads \/ ToolSaves \/ ToolGivesUp
  \/ Stop \/ Start

Spec == Init /\ [][Next]_vars

-----------------------------------------------------------------------------
(* Properties                                                              *)

(* No upgrade from an earlier version, and no order of requests, reloads,  *)
(* refused and new passwords, failing writes and crashes leaves a          *)
(* config.json the service refuses to load at its next start (startRuntime *)
(* gives up when config.Load fails).                                       *)
StartsAgain == Loads(file)

(* Whatever set of settings the proximity state works with, of either      *)
(* profile and however requests overlap, the lock line is at least 8 dB    *)
(* below the unlock line.                                                  *)
HysteresisHolds == up => applied.unlockRSSI - applied.lockRSSI >= 8

(* Once a change of the settings, or a reload, ran from its first step to  *)
(* its last with nothing beside it, and as long as nothing overlaps, the   *)
(* proximity state works with what is configured and the next start loads  *)
(* the same (but for the credential flag, whose write may fail).           *)
SettingsFollow ==
  (up /\ Quiet /\ settled) =>
    /\ applied = SettingsFor(memory)
    /\ \A f \in Fields \ {"credentialValid"} : Loaded(file)[f] = memory[f]

(* Whatever near and far medians were measured, the thresholds             *)
(* proximityctl calibrate proposes are stored, and not refused, whatever   *)
(* was configured before.                                                  *)
CalibrationIsAccepted ==
  up => \A near, far \in Levels :
          near - far >= 8 => Storable(Changed(memory, Calibrated(near, far)))

=============================================================================
