--------------------------- MODULE SettingsProofs ---------------------------
(***************************************************************************)
(* Proofs about Settings, for any callers, changes, old files and measured *)
(* levels: the service loads its file again, the hysteresis holds in both  *)
(* profiles, a calibration is accepted, and settled settings follow the    *)
(* file.                                                                   *)
(*                                                                         *)
(* The first three rest on one invariant: whatever copy of the             *)
(* configuration is about, in memory, on a request's way, in a tool or     *)
(* about to be written, has passed Validate (Copies).  The last one rests  *)
(* also on what can be under way while requests run alone (Solo), and on   *)
(* how far the memory and the proximity state are behind then (Following). *)
(***************************************************************************)
EXTENDS Settings, TLAPS

(* A configuration that has every field and has been validated. *)
Kept(c) == c = [f \in Fields |-> c[f]] /\ Validates(c)

(* A request that carries a configuration, and not only a wish for one. *)
Carrying == {"handOver", "flag", "take", "push", "enable"}

(* What the proximity state is given. *)
AppliedFields ==
  {"highSensitivity", "unlockRSSI", "lockRSSI", "lockWindow", "proofTimeout",
   "dopplerPrediction", "sensitivity", "immediateUnlock", "failureCooldown"}

(* Every copy has been validated. *)
Copies ==
  /\ Loads(file)
  /\ up => Kept(memory)
  /\ ~up => rejecting = "idle" /\ \A c \in Callers : at[c] = "idle"
  /\ \A c \in Callers : at[c] \in Carrying => Kept(held[c])
  /\ rejecting = "save" => Kept(rejected)
  /\ typing => Kept(typed)
  /\ at = [c \in Callers |-> at[c]] /\ held = [c \in Callers |-> held[c]]
  /\ applied = [f \in AppliedFields |-> applied[f]]

(* The settings the proximity state has were made of such a copy. *)
Apart == up => applied.unlockRSSI - applied.lockRSSI >= 8
                 /\ applied.unlockRSSI \in Int /\ applied.lockRSSI \in Int

(* While one runs alone, nothing else is under way; and settled is only    *)
(* kept through what runs alone.                                           *)
Solo ==
  /\ alone => /\ \A c, d \in Callers : at[c] # "idle" /\ at[d] # "idle" => c = d
              /\ \A c \in Callers : at[c] # "idle" => rejecting = "idle" /\ ~typing
              /\ rejecting # "idle" => ~typing
  /\ settled /\ ~Quiet => alone

(* The file says what memory does, and the proximity state works with it. *)
FileFollows == \A f \in Fields \ {"credentialValid"} : Loaded(file)[f] = memory[f]
AppliedFollows == applied = SettingsFor(memory)

(* What one that runs alone carries is what is in memory or in the file.   *)
Following ==
  /\ alone =>
       /\ \A c \in Callers :
            /\ at[c] \in {"read", "handOver", "push", "enable"} => FileFollows
            /\ at[c] \in {"handOver", "flag", "push", "enable"} => held[c] = memory
            /\ at[c] = "take" => held[c] = Loaded(file)
            /\ at[c] = "enable" => AppliedFollows
       /\ rejecting = "save" => rejected = memory
       /\ typing => typed = Loaded(file)
  /\ settled /\ up =>
       /\ (\A c \in Callers : at[c] = "idle") => FileFollows /\ AppliedFollows
       /\ \A c \in Callers :
            at[c] = "flag" => /\ FileFollows
                             /\ applied = [SettingsFor(memory) EXCEPT !.immediateUnlock = applied.immediateUnlock]

-----------------------------------------------------------------------------
(* Files                                                                   *)

(* What was read has every field. *)
LEMMA LoadedHasFields == \A data : Loaded(data) = [f \in Fields |-> Loaded(data)[f]]
<1> TAKE data
<1>1. Read(data) = [f \in Fields |-> Read(data)[f]]
  BY DEF Read
<1>2. MigrateV0(data) = [f \in Fields |-> MigrateV0(data)[f]]
  BY <1>1 DEF MigrateV0
<1>3. MigrateV1(data) = [f \in Fields |-> MigrateV1(data)[f]]
  BY <1>1 DEF MigrateV1
<1>4. MigrateV2(data) = [f \in Fields |-> MigrateV2(data)[f]]
  BY <1>1 DEF MigrateV2
<1>5. MigrateV3(data) = [f \in Fields |-> MigrateV3(data)[f]]
  BY <1>1 DEF MigrateV3
<1> QED
  BY <1>1, <1>2, <1>3, <1>4, <1>5 DEF Loaded

(* What loads is kept; what is kept loads, as it is. *)
LEMMA LoadsKept == \A data : Loads(data) => Kept(Loaded(data))
  BY LoadedHasFields DEF Loads, Kept

LEMMA KeptLoads == \A c : Kept(c) => Loads(c) /\ Loaded(c) = c
<1> SUFFICES ASSUME NEW c, Kept(c) PROVE Loads(c) /\ Loaded(c) = c
  OBVIOUS
<1>1. Read(c) = c
  BY DEF Read, Kept
<1>2. c.version = 4
  BY DEF Kept, Validates, CurrentVersion
<1>3. Loaded(c) = c
  BY <1>1, <1>2 DEF Loaded
<1> QED
  BY <1>3 DEF Loads, Kept

(* The credential flag does not concern Validate. *)
LEMMA FlagKept == \A c, v : Kept(c) => Kept([c EXCEPT !.credentialValid = v])
  BY DEF Kept, Validates, Fields

(* The settings made of a kept configuration keep their distance. *)
LEMMA KeptApart ==
  ASSUME NEW c, Kept(c)
  PROVE  LET s == SettingsFor(c) IN
           s.unlockRSSI - s.lockRSSI >= 8 /\ s.unlockRSSI \in Int /\ s.lockRSSI \in Int
  BY DEF SettingsFor, LockLine, Kept, Validates, ValidThresholds

(* What is read of a file of an earlier version. *)
LEMMA OldFileRead ==
  ASSUME NEW version \in 0 .. 3, NEW line \in OldLines
  PROVE  LET data == OldFile(version, line)
             c == Read(data)
         IN /\ c = [f \in Fields |-> c[f]]
            /\ c.version = version /\ c.mode = "strict" /\ c.sensitivity = 0 /\ c.window = 20
            /\ c.unlockRSSI = line.unlock /\ c.lockRSSI = line.lock
            /\ c.highRSSI = IF version = 3 THEN line.unlock ELSE 0
            /\ line.unlock \in -90 .. -20 /\ line.lock \in -120 .. -28
            /\ line.unlock - line.lock >= 8
<1> DEFINE data == OldFile(version, line)
<1>1. DOMAIN data \subseteq Fields /\ \A f \in DOMAIN data : Read(data)[f] = data[f]
  BY DEF OldFile, Read, Fields
<1>2. Read(data).sensitivity = 0
  BY DEF OldFile, Read, Zero, Fields
<1>3. ValidThresholds(line.unlock, line.lock)
  BY OldLinesValid
<1> QED
  BY <1>1, <1>2, <1>3 DEF OldFile, ValidThresholds, Read, Fields

(* A file of any earlier version loads. *)
LEMMA OldFileLoads ==
  ASSUME NEW version \in 0 .. 3, NEW line \in OldLines
  PROVE  Loads(OldFile(version, line))
<1> DEFINE data == OldFile(version, line)
           c == Read(data)
<1>1. /\ c = [f \in Fields |-> c[f]]
      /\ c.version = version /\ c.mode = "strict" /\ c.sensitivity = 0 /\ c.window = 20
      /\ c.unlockRSSI = line.unlock /\ c.lockRSSI = line.lock
      /\ c.highRSSI = IF version = 3 THEN line.unlock ELSE 0
      /\ line.unlock \in -90 .. -20 /\ line.lock \in -120 .. -28
      /\ line.unlock - line.lock >= 8
  BY OldFileRead
<1> HIDE DEF c
<1>0. Given(c, "sensitivity") = 60 /\ Given(c, "mode") = "strict" /\ Given(c, "window") = 20
        /\ Given(c, "unlockRSSI") = line.unlock /\ Given(c, "lockRSSI") = line.lock
  <2>1. /\ Zero["sensitivity"] = 0 /\ Zero["mode"] = "" /\ Zero["window"] = 0
        /\ Zero["unlockRSSI"] = 0 /\ Zero["lockRSSI"] = 0
        /\ Default["sensitivity"] = 60
    BY DEF Zero, Default
  <2>2. c["sensitivity"] = 0 /\ c["mode"] = "strict" /\ c["window"] = 20
          /\ c["unlockRSSI"] = line.unlock /\ c["lockRSSI"] = line.lock
    BY <1>1
  <2>3. "strict" # "" /\ 20 # 0 /\ line.unlock # 0 /\ line.lock # 0
    BY <1>1
  <2> QED
    BY <2>1, <2>2, <2>3, Zenon DEF Given
<1> DEFINE Passes(m) == /\ m.version = 4 /\ m.mode = "strict" /\ m.sensitivity = 60
                        /\ m.window = 20 /\ m.unlockRSSI = line.unlock /\ m.lockRSSI = line.lock
                        /\ m.highRSSI \in {line.unlock, line.lock + 8} /\ m.highRSSI \in -90 .. -20
<1>2. ASSUME version = 0 PROVE Passes(Loaded(data))
  <2>1. Loaded(data) = MigrateV0(data)
    BY <1>1, <1>2 DEF Loaded, c
  <2>2. HighOrUnlock([c EXCEPT !.unlockRSSI = line.unlock]) = line.unlock
    BY <1>1, <1>2 DEF HighOrUnlock, Fields
  <2>3. Passes(MigrateV0(data))
    BY <1>0, <1>1, <1>2, <2>2 DEF MigrateV0, c, CurrentVersion, Fields
  <2> QED
    BY <2>1, <2>3
<1>3. ASSUME version = 1 PROVE Passes(Loaded(data))
  <2>1. Loaded(data) = MigrateV1(data)
    BY <1>1, <1>3 DEF Loaded, c
  <2>2. HighOrUnlock(c) = line.unlock
    BY <1>1, <1>3 DEF HighOrUnlock
  <2>3. Passes(MigrateV1(data))
    BY <1>0, <1>1, <1>3, <2>2 DEF MigrateV1, c, CurrentVersion, Fields
  <2> QED
    BY <2>1, <2>3
<1>4. ASSUME version = 2 PROVE Passes(Loaded(data))
  <2>1. Loaded(data) = MigrateV2(data)
    BY <1>1, <1>4 DEF Loaded, c
  <2>2. HighOrUnlock(c) = line.unlock
    BY <1>1, <1>4 DEF HighOrUnlock
  <2>3. Passes(MigrateV2(data))
    BY <1>0, <1>1, <1>4, <2>2 DEF MigrateV2, c, CurrentVersion, Fields, MayBeHigh
  <2> QED
    BY <2>1, <2>3
<1>5. ASSUME version = 3 PROVE Passes(Loaded(data))
  <2>1. Loaded(data) = MigrateV3(data)
    BY <1>1, <1>5 DEF Loaded, c
  <2>2. c.highRSSI = line.unlock
    BY <1>1, <1>5
  <2>3. Passes(MigrateV3(data))
    BY <1>0, <1>1, <1>5, <2>2 DEF MigrateV3, c, CurrentVersion, Fields
  <2> QED
    BY <2>1, <2>3
<1>6. Passes(Loaded(data))
  BY <1>2, <1>3, <1>4, <1>5
<1> QED
  BY <1>1, <1>6 DEF Loads, Validates, ValidThresholds, CurrentVersion

(* The new file loads. *)
LEMMA NewFileLoads == Loads(NewFile)
<1>1. Kept(NewFile)
  BY DEF NewFile, Kept, Validates, ValidThresholds, Default, CurrentVersion, Fields
<1> QED
  BY <1>1, KeptLoads

-----------------------------------------------------------------------------
(* The copies                                                              *)

(* A request leaves what the others carry. *)
LEMMA MovesOn ==
  ASSUME Copies, NEW c \in Callers, NEW stage, NEW carried,
         at' = [at EXCEPT ![c] = stage], held' = [held EXCEPT ![c] = carried],
         stage \in Carrying => Kept(carried)
  PROVE  /\ \A d \in Callers : at'[d] \in Carrying => Kept(held'[d])
         /\ at' = [d \in Callers |-> at'[d]] /\ held' = [d \in Callers |-> held'[d]]
  BY DEF Copies

(* A change that may be stored leaves a configuration that is kept. *)
LEMMA ChangedKept ==
  \A c, change : Storable(Changed(c, change)) => Kept(Changed(c, change))
  BY DEF Storable, Changed, Kept

(* A request's steps. *)
LEMMA RequestCopies ==
  ASSUME Copies, NEW c \in Callers, Request(c)
  PROVE  Copies'
<1>1. CASE UpdateConfig(c)
  <2>1. PICK change \in Changes :
          LET next == Changed(memory, change) IN
            /\ Storable(next)
            /\ file' = next /\ memory' = next
            /\ at' = [at EXCEPT ![c] = StageAfter(change)]
            /\ held' = [held EXCEPT ![c] = IF StageAfter(change) = "flag" THEN next ELSE Blank]
    BY <1>1 DEF UpdateConfig
  <2> DEFINE next == Changed(memory, change)
  <2>2. Kept(next) /\ Loads(next)
    BY <2>1, ChangedKept, KeptLoads
  <2>3. StageAfter(change) \in {"idle", "flag", "read"}
    BY DEF StageAfter
  <2>4. /\ \A d \in Callers : at'[d] \in Carrying => Kept(held'[d])
        /\ at' = [d \in Callers |-> at'[d]] /\ held' = [d \in Callers |-> held'[d]]
    <3>1. StageAfter(change) \in Carrying => Kept(IF StageAfter(change) = "flag" THEN next ELSE Blank)
      BY <2>2, <2>3 DEF Carrying
    <3> HIDE DEF next
    <3>2. held' = [held EXCEPT ![c] = IF StageAfter(change) = "flag" THEN next ELSE Blank]
      BY <2>1 DEF next
    <3> QED
      BY <2>1, <3>1, <3>2, MovesOn
  <2>5. UNCHANGED <<applied, up, rejecting, rejected, typing, typed>> /\ up
    BY <1>1 DEF UpdateConfig
  <2>6. Loads(file)' /\ Kept(memory)'
    BY <2>1, <2>2
  <2> QED
    BY <2>4, <2>5, <2>6 DEF Copies
<1>2. CASE ReadBack(c)
  <2>1. up /\ Kept(memory)
    BY <1>2 DEF ReadBack, Copies
  <2>2. /\ \A d \in Callers : at'[d] \in Carrying => Kept(held'[d])
        /\ at' = [d \in Callers |-> at'[d]] /\ held' = [d \in Callers |-> held'[d]]
    BY <1>2, <2>1, MovesOn DEF ReadBack
  <2>3. UNCHANGED <<file, memory, applied, up, rejecting, rejected, typing, typed>>
    BY <1>2 DEF ReadBack
  <2> QED
    BY <2>1, <2>2, <2>3 DEF Copies
<1>3. CASE ReloadLoad(c)
  <2>1. Kept(Loaded(file)) /\ up
    BY <1>3, LoadsKept DEF ReloadLoad
  <2>2. /\ \A d \in Callers : at'[d] \in Carrying => Kept(held'[d])
        /\ at' = [d \in Callers |-> at'[d]] /\ held' = [d \in Callers |-> held'[d]]
    BY <1>3, <2>1, MovesOn DEF ReloadLoad
  <2>3. UNCHANGED <<file, memory, applied, up, rejecting, rejected, typing, typed>>
    BY <1>3 DEF ReloadLoad
  <2> QED
    BY <2>1, <2>2, <2>3 DEF Copies
<1>4. CASE ReloadTake(c) \/ ReloadPush(c)
  <2>1. Kept(held[c]) /\ up
    BY <1>4 DEF ReloadTake, ReloadPush, Copies, Carrying
  <2>2. /\ \A d \in Callers : at'[d] \in Carrying => Kept(held'[d])
        /\ at' = [d \in Callers |-> at'[d]] /\ held' = [d \in Callers |-> held'[d]]
    BY <1>4, <2>1 DEF ReloadTake, ReloadPush, Copies
  <2>3. UNCHANGED <<file, up, rejecting, rejected, typing, typed>> /\ memory' \in {memory, held[c]}
    BY <1>4 DEF ReloadTake, ReloadPush
  <2>4. applied' = [f \in AppliedFields |-> applied'[f]]
    BY <1>4 DEF ReloadTake, ReloadPush, Copies, SettingsFor, AppliedFields
  <2> QED
    BY <2>1, <2>2, <2>3, <2>4 DEF Copies
<1>5. CASE HandOver(c) \/ SetImmediateUnlock(c) \/ ReloadEnable(c)
  <2>1. at' = [at EXCEPT ![c] = "idle"] /\ held' = [held EXCEPT ![c] = Blank] /\ up
    BY <1>5 DEF HandOver, SetImmediateUnlock, ReloadEnable, Copies
  <2>2. /\ \A d \in Callers : at'[d] \in Carrying => Kept(held'[d])
        /\ at' = [d \in Callers |-> at'[d]] /\ held' = [d \in Callers |-> held'[d]]
    BY <2>1, MovesOn DEF Carrying
  <2>3. UNCHANGED <<file, memory, up, rejecting, rejected, typing, typed>>
    BY <1>5 DEF HandOver, SetImmediateUnlock, ReloadEnable
  <2>4. applied' = [f \in AppliedFields |-> applied'[f]]
    BY <1>5 DEF HandOver, SetImmediateUnlock, ReloadEnable, Copies, SettingsFor, AppliedFields
  <2> QED
    BY <2>1, <2>2, <2>3, <2>4 DEF Copies
<1> QED
  BY <1>1, <1>2, <1>3, <1>4, <1>5 DEF Request

(* Every step leaves only validated copies about. *)
LEMMA CopiesStep == Copies /\ [Next]_vars => Copies'
<1> SUFFICES ASSUME Copies, [Next]_vars PROVE Copies'
  OBVIOUS
<1>1. ASSUME NEW c \in Callers, Request(c) PROVE Copies'
  BY <1>1, RequestCopies
<1>2. CASE RejectDisable
  BY <1>2 DEF RejectDisable, Copies
<1>3. CASE RejectMark
  <2>1. up
    BY <1>3 DEF RejectMark, Copies
  <2>2. Kept([memory EXCEPT !.credentialValid = FALSE])
    BY <2>1, FlagKept DEF Copies
  <2> QED
    BY <1>3, <2>1, <2>2 DEF RejectMark, Copies
<1>4. CASE RejectSave
  <2>1. Loads(file')
    BY <1>4, KeptLoads DEF RejectSave, Copies
  <2>2. rejecting' = "idle" /\ UNCHANGED <<memory, applied, up, at, held, typing, typed>>
    BY <1>4 DEF RejectSave
  <2> QED
    BY <2>1, <2>2 DEF Copies
<1>5. CASE ToolLoads
  BY <1>5, LoadsKept DEF ToolLoads, Copies
<1>6. CASE ToolSaves
  <2>1. Loads(file')
    BY <1>6, FlagKept, KeptLoads DEF ToolSaves, Copies
  <2> QED
    BY <1>6, <2>1 DEF ToolSaves, Copies
<1>7. CASE ToolGivesUp
  BY <1>7 DEF ToolGivesUp, Copies
<1>8. CASE Stop
  <2>1. applied' = [f \in AppliedFields |-> applied'[f]]
    BY <1>8 DEF Stop, SettingsFor, AppliedFields
  <2> QED
    BY <1>8, <2>1 DEF Stop, Copies, Carrying
<1>9. CASE Start
  <2>1. applied' = [f \in AppliedFields |-> applied'[f]]
    BY <1>9 DEF Start, SettingsFor, AppliedFields
  <2>2. Kept(memory')
    BY <1>9, LoadsKept DEF Start
  <2> QED
    BY <1>9, <2>1, <2>2 DEF Start, Copies
<1>10. CASE UNCHANGED vars
  BY <1>10 DEF vars, Copies
<1> QED
  BY <1>1, <1>2, <1>3, <1>4, <1>5, <1>6, <1>7, <1>8, <1>9, <1>10 DEF Next

(* Every step leaves the proximity state a distance between its lines. *)
LEMMA ApartStep == Copies /\ Apart /\ [Next]_vars => Apart'
<1> SUFFICES ASSUME Copies, Apart, [Next]_vars PROVE Apart'
  OBVIOUS
<1> USE DEF Apart
<1>1. ASSUME NEW c \in Callers, HandOver(c) \/ ReloadPush(c) PROVE Apart'
  <2>1. Kept(held[c]) /\ applied' = SettingsFor(held[c])
    BY <1>1 DEF HandOver, ReloadPush, Copies, Carrying
  <2> QED
    BY <2>1, KeptApart
<1>2. ASSUME NEW c \in Callers, SetImmediateUnlock(c) PROVE Apart'
  BY <1>2 DEF SetImmediateUnlock, Copies, AppliedFields
<1>3. ASSUME NEW c \in Callers, UpdateConfig(c) \/ ReadBack(c) \/ ReloadLoad(c) PROVE Apart'
  BY <1>3 DEF UpdateConfig, ReadBack, ReloadLoad
<1>4. ASSUME NEW c \in Callers, ReloadTake(c) \/ ReloadEnable(c) PROVE Apart'
  BY <1>4 DEF ReloadTake, ReloadEnable
<1>5. CASE RejectDisable \/ RejectMark \/ RejectSave
  BY <1>5 DEF RejectDisable, RejectMark, RejectSave
<1>6. CASE ToolLoads \/ ToolSaves \/ ToolGivesUp
  BY <1>6 DEF ToolLoads, ToolSaves, ToolGivesUp
<1>7. CASE Stop
  BY <1>7 DEF Stop
<1>8. CASE Start
  <2>1. Kept(memory') /\ applied' = SettingsFor(memory')
    BY <1>8, LoadsKept DEF Start
  <2> QED
    BY <2>1, KeptApart
<1>9. CASE UNCHANGED vars
  BY <1>9 DEF vars
<1> QED
  BY <1>1, <1>2, <1>3, <1>4, <1>5, <1>6, <1>7, <1>8, <1>9 DEF Next, Request

-----------------------------------------------------------------------------
(* What runs alone                                                         *)

LEMMA QuietIdle == Quiet <=> (\A c \in Callers : at[c] = "idle") /\ rejecting = "idle" /\ ~typing
  BY DEF Quiet, Busy

LEMMA BeginsAlone == Begins => (alone' => Quiet) /\ (settled' => settled /\ Quiet /\ alone')
<1> SUFFICES ASSUME Begins PROVE (alone' => Quiet) /\ (settled' => settled /\ Quiet /\ alone')
  OBVIOUS
<1>1. alone' <=> Quiet
  BY DEF Begins, Quiet
<1>2. settled' <=> (settled /\ Quiet)
  BY DEF Begins, Quiet
<1> QED
  BY <1>1, <1>2

(* Each step of what is under way keeps alone, and needs it to settle. *)
LEMMA GoesAlone == Goes \/ Settles => (alone' <=> alone) /\ (settled' => settled \/ alone)
<1>1. Goes => (alone' <=> alone) /\ (settled' => settled \/ alone)
  BY DEF Goes
<1>2. ASSUME Settles PROVE (alone' <=> alone) /\ (settled' => settled \/ alone)
  <2>1. (settled' <=> settled \/ alone) /\ (alone' <=> alone)
    BY <1>2 DEF Settles
  <2> QED
    BY <2>1
<1> QED
  BY <1>1, <1>2

(* A request that goes on, alone or not. *)
LEMMA RequestSolo ==
  ASSUME Copies, Solo, NEW c \in Callers, NEW stage, at' = [at EXCEPT ![c] = stage],
         at[c] # "idle", UNCHANGED <<rejecting, typing>>, Goes \/ Settles
  PROVE  Solo'
<1>1. (alone' <=> alone) /\ (settled' => settled \/ alone)
  BY GoesAlone
<1>2. \A d \in Callers : at'[d] # "idle" => at[d] # "idle"
  BY DEF Copies
<1>3. ~Quiet
  BY QuietIdle
<1> QED
  BY <1>1, <1>2, <1>3 DEF Solo

LEMMA SoloStep == Copies /\ Solo /\ [Next]_vars => Solo'
<1> SUFFICES ASSUME Copies, Solo, [Next]_vars PROVE Solo'
  OBVIOUS
<1>1. ASSUME NEW c \in Callers, UpdateConfig(c) \/ ReloadLoad(c) PROVE Solo'
  <2>1. Begins /\ UNCHANGED <<rejecting, typing>> /\ \E stage : at' = [at EXCEPT ![c] = stage]
    BY <1>1 DEF UpdateConfig, ReloadLoad
  <2>2. \A d \in Callers : d # c => at'[d] = at[d]
    BY <2>1 DEF Copies
  <2> QED
    BY <2>1, <2>2, BeginsAlone, QuietIdle DEF Solo
<1>2. ASSUME NEW c \in Callers, ReadBack(c) \/ HandOver(c) \/ SetImmediateUnlock(c) PROVE Solo'
  BY <1>2, RequestSolo DEF ReadBack, HandOver, SetImmediateUnlock
<1>3. ASSUME NEW c \in Callers, ReloadTake(c) \/ ReloadPush(c) \/ ReloadEnable(c) PROVE Solo'
  BY <1>3, RequestSolo DEF ReloadTake, ReloadPush, ReloadEnable
<1>4. CASE RejectDisable \/ ToolLoads
  BY <1>4, BeginsAlone, QuietIdle DEF RejectDisable, ToolLoads, Solo
<1>5. CASE RejectMark \/ RejectSave \/ ToolSaves \/ ToolGivesUp
  BY <1>5, GoesAlone, QuietIdle DEF RejectMark, RejectSave, ToolSaves, ToolGivesUp, Solo
<1>6. CASE Stop
  <2>1. (alone' <=> alone) /\ (settled' => settled) /\ UNCHANGED typing /\ rejecting' = "idle"
        /\ \A c \in Callers : at'[c] = "idle"
    BY <1>6 DEF Stop, Goes
  <2>2. typing => ~Quiet
    BY QuietIdle
  <2>3. Quiet' <=> ~typing
    BY <2>1 DEF Quiet, Busy
  <2> QED
    BY <2>1, <2>2, <2>3 DEF Solo
<1>7. CASE Start
  <2>1. (alone' <=> ~typing) /\ (settled' <=> ~typing) /\ UNCHANGED <<at, rejecting, typing>>
    BY <1>7 DEF Start
  <2>2. rejecting = "idle" /\ \A c \in Callers : at[c] = "idle"
    BY <1>7 DEF Start, Copies
  <2> QED
    BY <2>1, <2>2 DEF Solo
<1>8. CASE UNCHANGED vars
  BY <1>8 DEF vars, Solo, Quiet, Busy
<1> QED
  BY <1>1, <1>2, <1>3, <1>4, <1>5, <1>6, <1>7, <1>8 DEF Next, Request

-----------------------------------------------------------------------------
(* What it carries                                                         *)

(* The proximity state does not work with the mode, the automatic lock or  *)
(* the credential flag. *)
LEMMA SettingsSame ==
  ASSUME NEW c, NEW d, \A f \in Fields \ {"mode", "autoLock", "credentialValid"} : c[f] = d[f]
  PROVE  SettingsFor(c) = SettingsFor(d)
<1>1. /\ c.highSensitivity = d.highSensitivity /\ c.highRSSI = d.highRSSI /\ c.unlockRSSI = d.unlockRSSI
      /\ c.lockRSSI = d.lockRSSI /\ c.window = d.window /\ c.dopplerPrediction = d.dopplerPrediction
      /\ c.sensitivity = d.sensitivity /\ c.immediateUnlock = d.immediateUnlock
      /\ c.failureCooldown = d.failureCooldown
  BY DEF Fields
<1> QED
  BY <1>1 DEF SettingsFor, LockLine

(* A change of the mode or the automatic lock leaves the settings, and one *)
(* of immediateUnlock leaves the others. *)
LEMMA ChangedSame ==
  ASSUME NEW c, NEW change
  PROVE  /\ StageAfter(change) = "idle" => SettingsFor(Changed(c, change)) = SettingsFor(c)
         /\ StageAfter(change) = "flag" =>
              SettingsFor(c) = [SettingsFor(Changed(c, change)) EXCEPT !.immediateUnlock = c.immediateUnlock]
<1>1. ASSUME StageAfter(change) = "idle" PROVE SettingsFor(Changed(c, change)) = SettingsFor(c)
  <2>1. DOMAIN change \subseteq {"mode", "autoLock"}
    BY <1>1 DEF StageAfter
  <2>2. \A f \in Fields \ {"mode", "autoLock", "credentialValid"} : Changed(c, change)[f] = c[f]
    BY <2>1 DEF Changed
  <2> QED
    BY <2>2, SettingsSame
<1>2. ASSUME StageAfter(change) = "flag"
      PROVE  SettingsFor(c) = [SettingsFor(Changed(c, change)) EXCEPT !.immediateUnlock = c.immediateUnlock]
  <2>1. DOMAIN change = {"immediateUnlock"}
    BY <1>2 DEF StageAfter
  <2> DEFINE d == Changed(c, change)
  <2>2. \A f \in Fields \ {"immediateUnlock"} : d[f] = c[f]
    BY <2>1 DEF Changed
  <2> HIDE DEF d
  <2>3. /\ c.highSensitivity = d.highSensitivity /\ c.highRSSI = d.highRSSI /\ c.unlockRSSI = d.unlockRSSI
        /\ c.lockRSSI = d.lockRSSI /\ c.window = d.window /\ c.dopplerPrediction = d.dopplerPrediction
        /\ c.sensitivity = d.sensitivity /\ c.failureCooldown = d.failureCooldown
    BY <2>2 DEF Fields
  <2>4. SettingsFor(c) = [SettingsFor(d) EXCEPT !.immediateUnlock = c.immediateUnlock]
    BY <2>3 DEF SettingsFor, LockLine
  <2> QED
    BY <2>4 DEF d
<1> QED
  BY <1>1, <1>2

LEMMA UpdateFollows ==
  ASSUME Copies, Solo, Following, NEW c \in Callers, UpdateConfig(c)
  PROVE  Following'
<1>1. PICK change \in Changes :
        LET next == Changed(memory, change) IN
          /\ Storable(next)
          /\ file' = next /\ memory' = next
          /\ at' = [at EXCEPT ![c] = StageAfter(change)]
          /\ held' = [held EXCEPT ![c] = IF StageAfter(change) = "flag" THEN next ELSE Blank]
  BY DEF UpdateConfig
<1> DEFINE next == Changed(memory, change)
           stage == StageAfter(change)
<1>2. Loaded(next) = next
  BY <1>1, ChangedKept, KeptLoads
<1>3. FileFollows'
  BY <1>1, <1>2 DEF FileFollows
<1>4. stage \in {"idle", "flag", "read"}
  BY DEF StageAfter
<1>5. UNCHANGED <<applied, rejecting, rejected, typing, typed>> /\ Begins /\ up
  BY DEF UpdateConfig
<1>6. at'[c] = stage /\ (stage = "flag" => held'[c] = memory') /\ \A d \in Callers : d # c => at'[d] = at[d]
  <2>1. at' = [at EXCEPT ![c] = stage]
    BY <1>1
  <2>2. stage = "flag" => held' = [held EXCEPT ![c] = memory']
    BY <1>1
  <2> HIDE DEF stage
  <2> QED
    BY <2>1, <2>2 DEF Copies
<1>7. /\ stage = "idle" => SettingsFor(next) = SettingsFor(memory)
      /\ stage = "flag" => SettingsFor(memory) = [SettingsFor(next) EXCEPT !.immediateUnlock = memory.immediateUnlock]
  BY ChangedSame
<1>8. memory' = next
  BY <1>1
<1> HIDE DEF next, stage
<1>9. ASSUME Quiet, settled
      PROVE  /\ stage = "idle" => AppliedFollows'
             /\ stage = "flag" => applied' = [SettingsFor(memory)' EXCEPT !.immediateUnlock = applied'.immediateUnlock]
  <2>1. applied = SettingsFor(memory)
    BY <1>5, <1>9, QuietIdle DEF Following, AppliedFollows
  <2>2. applied.immediateUnlock = memory.immediateUnlock
    BY <2>1 DEF SettingsFor
  <2> QED
    BY <1>5, <1>7, <1>8, <2>1, <2>2 DEF AppliedFollows
<1>10. (alone' => Quiet) /\ (settled' => settled /\ Quiet /\ alone')
  BY <1>5, BeginsAlone
<1>11. Quiet => rejecting' = "idle" /\ ~typing' /\ \A d \in Callers : d # c => at'[d] = "idle"
  BY <1>5, <1>6, QuietIdle
<1> QED
  BY <1>3, <1>4, <1>6, <1>9, <1>10, <1>11 DEF Following

(* The other steps of a request: by Solo, if it is alone nothing else is   *)
(* carried, and if it is not, nothing is settled. *)
LEMMA RequestFollows ==
  ASSUME Copies, Solo, Following, NEW c \in Callers, Request(c), ~UpdateConfig(c)
  PROVE  Following'
<1>0. /\ at = [d \in Callers |-> at[d]] /\ held = [d \in Callers |-> held[d]]
      /\ alone /\ at[c] # "idle" => /\ \A d \in Callers : d # c => at[d] = "idle"
                                    /\ rejecting = "idle" /\ ~typing
      /\ settled /\ at[c] # "idle" => alone
  BY QuietIdle DEF Copies, Solo
<1>1. CASE ReadBack(c)
  <2>1. /\ at[c] = "read" /\ at' = [at EXCEPT ![c] = "handOver"] /\ held' = [held EXCEPT ![c] = memory] /\ Goes
        /\ UNCHANGED <<file, memory, applied, up, rejecting, rejected, typing, typed>>
    BY <1>1 DEF ReadBack
  <2>2. alone => FileFollows'
    BY <2>1 DEF Following, FileFollows
  <2> QED
    BY <1>0, <2>1, <2>2, GoesAlone DEF Following
<1>2. CASE HandOver(c)
  <2>1. /\ at[c] = "handOver" /\ at' = [at EXCEPT ![c] = "idle"] /\ Settles /\ applied' = SettingsFor(held[c])
        /\ UNCHANGED <<file, memory, up, rejecting, rejected, typing, typed>>
    BY <1>2 DEF HandOver
  <2>2. alone => FileFollows' /\ AppliedFollows'
    BY <2>1 DEF Following, FileFollows, AppliedFollows
  <2> QED
    BY <1>0, <2>1, <2>2, GoesAlone DEF Following
<1>3. CASE SetImmediateUnlock(c)
  <2>1. /\ at[c] = "flag" /\ at' = [at EXCEPT ![c] = "idle"] /\ Goes
        /\ applied' = [applied EXCEPT !.immediateUnlock = held[c].immediateUnlock]
        /\ UNCHANGED <<file, memory, up, rejecting, rejected, typing, typed>>
    BY <1>3 DEF SetImmediateUnlock
  <2>2. (alone' <=> alone) /\ (settled' <=> settled)
    BY <2>1 DEF Goes
  <2>3. ASSUME settled, up PROVE FileFollows' /\ AppliedFollows'
    <3>1. alone /\ held[c] = memory /\ FileFollows
          /\ applied = [SettingsFor(memory) EXCEPT !.immediateUnlock = applied.immediateUnlock]
      BY <1>0, <2>1, <2>3 DEF Following
    <3>2. applied' = SettingsFor(memory)
      BY <2>1, <3>1 DEF SettingsFor
    <3> QED
      BY <2>1, <3>1, <3>2 DEF FileFollows, AppliedFollows
  <2> QED
    BY <1>0, <2>1, <2>2, <2>3 DEF Following
<1>4. CASE ReloadLoad(c)
  <2>1. /\ at' = [at EXCEPT ![c] = "take"] /\ held' = [held EXCEPT ![c] = Loaded(file)] /\ Begins
        /\ UNCHANGED <<file, memory, applied, up, rejecting, rejected, typing, typed>>
    BY <1>4 DEF ReloadLoad
  <2> QED
    BY <1>0, <2>1, BeginsAlone, QuietIdle DEF Following
<1>5. CASE ReloadTake(c)
  <2>1. /\ at[c] = "take" /\ at' = [at EXCEPT ![c] = "push"] /\ memory' = held[c] /\ Goes
        /\ UNCHANGED <<file, applied, up, held, rejecting, rejected, typing, typed>>
    BY <1>5 DEF ReloadTake
  <2>2. alone => FileFollows'
    BY <2>1 DEF Following, FileFollows
  <2> QED
    BY <1>0, <2>1, <2>2, GoesAlone DEF Following
<1>6. CASE ReloadPush(c)
  <2>1. /\ at[c] = "push" /\ at' = [at EXCEPT ![c] = "enable"] /\ applied' = SettingsFor(held[c]) /\ Goes
        /\ UNCHANGED <<file, memory, up, held, rejecting, rejected, typing, typed>>
    BY <1>6 DEF ReloadPush
  <2>2. alone => FileFollows' /\ AppliedFollows'
    BY <2>1 DEF Following, FileFollows, AppliedFollows
  <2> QED
    BY <1>0, <2>1, <2>2, GoesAlone DEF Following
<1>7. CASE ReloadEnable(c)
  <2>1. /\ at[c] = "enable" /\ at' = [at EXCEPT ![c] = "idle"] /\ Settles
        /\ UNCHANGED <<file, memory, applied, up, rejecting, rejected, typing, typed>>
    BY <1>7 DEF ReloadEnable
  <2>2. alone => FileFollows' /\ AppliedFollows'
    BY <2>1 DEF Following, FileFollows, AppliedFollows
  <2> QED
    BY <1>0, <2>1, <2>2, GoesAlone DEF Following
<1> QED
  BY <1>1, <1>2, <1>3, <1>4, <1>5, <1>6, <1>7 DEF Request

LEMMA FollowingStep == Copies /\ Solo /\ Following /\ [Next]_vars => Following'
<1> SUFFICES ASSUME Copies, Solo, Following, [Next]_vars PROVE Following'
  OBVIOUS
<1>1. ASSUME NEW c \in Callers, Request(c) PROVE Following'
  BY <1>1, UpdateFollows, RequestFollows
<1>2. CASE RejectDisable
  <2>1. /\ Begins /\ rejecting' = "mark"
        /\ UNCHANGED <<file, memory, applied, up, at, held, rejected, typing, typed>>
    BY <1>2 DEF RejectDisable
  <2> QED
    BY <2>1, BeginsAlone, QuietIdle DEF Following, FileFollows, AppliedFollows
<1>3. CASE RejectMark
  <2>1. /\ rejecting = "mark" /\ memory' = [memory EXCEPT !.credentialValid = FALSE]
        /\ rejected' = memory' /\ Goes /\ rejecting' = "save"
        /\ UNCHANGED <<file, applied, up, at, held, typing, typed>>
    BY <1>3 DEF RejectMark
  <2>2. up /\ Kept(memory) /\ (settled => alone)
    BY <2>1, QuietIdle DEF Copies, Solo
  <2>3. \A f \in Fields \ {"credentialValid"} : memory'[f] = memory[f]
    BY <2>1, <2>2 DEF Kept
  <2>4. SettingsFor(memory)' = SettingsFor(memory)
    BY <2>3, SettingsSame
  <2>5. (FileFollows => FileFollows') /\ (AppliedFollows => AppliedFollows')
    BY <2>1, <2>3, <2>4 DEF FileFollows, AppliedFollows
  <2>6. alone => ~typing /\ \A c \in Callers : at[c] = "idle"
    BY <2>1 DEF Solo
  <2> QED
    BY <2>1, <2>2, <2>5, <2>6, GoesAlone DEF Following, Goes
<1>4. CASE RejectSave
  <2>1. /\ rejecting = "save" /\ file' \in {file, rejected} /\ Goes /\ rejecting' = "idle"
        /\ UNCHANGED <<memory, applied, up, at, held, typing, typed>>
    BY <1>4 DEF RejectSave
  <2>2. (settled => alone) /\ (alone => rejected = memory /\ ~typing /\ \A c \in Callers : at[c] = "idle")
    BY <2>1, QuietIdle DEF Solo, Following
  <2>3. alone => Loaded(rejected) = memory
    BY <2>1, <2>2, KeptLoads DEF Copies
  <2>4. alone /\ FileFollows => FileFollows'
    BY <2>1, <2>3 DEF FileFollows
  <2> QED
    BY <2>1, <2>2, <2>4 DEF Following, Goes, AppliedFollows
<1>5. CASE ToolLoads
  <2>1. /\ Begins /\ typed' = Loaded(file)
        /\ UNCHANGED <<file, memory, applied, up, at, held, rejecting, rejected>>
    BY <1>5 DEF ToolLoads
  <2> QED
    BY <2>1, BeginsAlone, QuietIdle DEF Following, FileFollows, AppliedFollows
<1>6. CASE ToolSaves
  <2>1. /\ typing /\ file' = [typed EXCEPT !.credentialValid = TRUE] /\ Goes /\ ~typing'
        /\ UNCHANGED <<memory, applied, up, at, held, rejecting, rejected>>
    BY <1>6 DEF ToolSaves
  <2>2. (settled => alone) /\ (alone => /\ typed = Loaded(file) /\ rejecting = "idle"
                                       /\ \A c \in Callers : at[c] = "idle")
    BY <2>1, QuietIdle DEF Solo, Following
  <2>3. Kept(typed) /\ Loaded(file') = file'
    BY <2>1, FlagKept, KeptLoads DEF Copies
  <2>4. \A f \in Fields \ {"credentialValid"} : file'[f] = typed[f]
    BY <2>1, <2>3 DEF Kept
  <2>5. alone /\ FileFollows => FileFollows'
    BY <2>1, <2>2, <2>3, <2>4 DEF FileFollows
  <2> QED
    BY <2>1, <2>2, <2>5 DEF Following, Goes, AppliedFollows
<1>7. CASE ToolGivesUp
  BY <1>7 DEF ToolGivesUp, Goes, Following, FileFollows, AppliedFollows
<1>8. CASE Stop
  BY <1>8 DEF Stop, Goes, Following
<1>9. CASE Start
  <2>1. /\ memory' = Loaded(file) /\ applied' = SettingsFor(memory') /\ (alone' <=> ~typing)
        /\ UNCHANGED <<file, at, held, rejecting, rejected, typing, typed>> /\ ~up
    BY <1>9 DEF Start
  <2>2. FileFollows' /\ AppliedFollows'
    BY <2>1 DEF FileFollows, AppliedFollows
  <2> QED
    BY <2>1, <2>2 DEF Following, Copies
<1>10. CASE UNCHANGED vars
  BY <1>10 DEF vars, Following, FileFollows, AppliedFollows
<1> QED
  BY <1>1, <1>2, <1>3, <1>4, <1>5, <1>6, <1>7, <1>8, <1>9, <1>10 DEF Next

-----------------------------------------------------------------------------
(* What follows                                                            *)

(* At the start there is only a file, new or of an earlier version. *)
LEMMA SettingsInit == Init => Copies /\ Apart
<1> SUFFICES ASSUME Init PROVE Copies /\ Apart
  OBVIOUS
<1>1. Loads(file)
  BY OldFileLoads, NewFileLoads DEF Init
<1>2. applied = [f \in AppliedFields |-> applied[f]]
  BY DEF Init, SettingsFor, AppliedFields
<1>3. Copies
  BY <1>1, <1>2 DEF Init, Copies, Carrying
<1>4. Apart
  BY DEF Init, Apart
<1> QED
  BY <1>3, <1>4

(* What a calibration proposes can be stored with any kept configuration. *)
LEMMA CalibrationKept ==
  ASSUME NEW c, Kept(c), NEW near \in Int, NEW far \in Int, near - far >= 8
  PROVE  Storable(Changed(c, Calibrated(near, far)))
<1> DEFINE unlock == CalibratedUnlock(near)
           lock == CalibratedLock(near, far)
           next == Changed(c, Calibrated(near, far))
<1>1. unlock \in -90 .. -35
  BY DEF CalibratedUnlock, Clamp
<1>2. lock \in -110 .. -43 /\ unlock - lock >= 8
  BY <1>1 DEF CalibratedLock, Clamp
<1>3. /\ next.unlockRSSI = unlock /\ next.lockRSSI = lock
      /\ \A f \in Fields \ {"unlockRSSI", "lockRSSI"} : next[f] = c[f]
  BY DEF Changed, Calibrated, Fields
<1> HIDE DEF unlock, lock, next
<1>4. ValidThresholds(next.unlockRSSI, next.lockRSSI)
  BY <1>1, <1>2, <1>3 DEF ValidThresholds
<1>5. Validates(next)
  BY <1>3, <1>4 DEF Validates, Kept, Fields
<1> QED
  BY <1>5 DEF Storable, next

(* For any callers, changes and old files: the service loads its file at   *)
(* the next start.                                                         *)
THEOREM StartsAgainAlways == Spec => []StartsAgain
<1>1. Copies => StartsAgain
  BY DEF Copies, StartsAgain
<1> QED
  BY SettingsInit, CopiesStep, <1>1, PTL DEF Spec

(* For any callers, changes and old files: the lock line is at least 8 dB  *)
(* below the unlock line, in both profiles.                                *)
THEOREM HysteresisHoldsAlways == Spec => []HysteresisHolds
<1>1. Apart => HysteresisHolds
  BY DEF Apart, HysteresisHolds
<1> QED
  BY SettingsInit, CopiesStep, ApartStep, <1>1, PTL DEF Spec

(* For any measured levels and whatever is configured: the thresholds a    *)
(* calibration proposes are stored.                                        *)
THEOREM CalibrationIsAcceptedAlways == Spec => []CalibrationIsAccepted
<1>1. Copies => CalibrationIsAccepted
  BY CalibrationKept, LevelsAreNumbers DEF Copies, CalibrationIsAccepted
<1> QED
  BY SettingsInit, CopiesStep, <1>1, PTL DEF Spec

(* For any callers, changes and old files: once a change or a reload ran   *)
(* alone, and while nothing overlaps, the proximity state works with what  *)
(* is configured and the file says the same (SettingsFollow).              *)
THEOREM SettingsFollowAlways == Spec => []SettingsFollow
<1>1. Init => Solo /\ Following
  <2> SUFFICES ASSUME Init PROVE Solo /\ Following
    OBVIOUS
  <2> QED
    BY DEF Init, Solo, Following
<1>2. Following => SettingsFollow
  BY QuietIdle DEF Following, FileFollows, AppliedFollows, SettingsFollow
<1> QED
  BY SettingsInit, CopiesStep, SoloStep, FollowingStep, <1>1, <1>2, PTL DEF Spec

=============================================================================
