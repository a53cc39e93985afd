---------------------------- MODULE SetupProofs ----------------------------
(***************************************************************************)
(* Proofs about Setup, for any lists of files and any number of faults:    *)
(* an upgrade is whole or undone and loses no file wherever it is killed,  *)
(* the service keeps its program and comes back, and uninstalling clears.  *)
(*                                                                         *)
(* The invariant says where an upgrade is with its files (Upgrading): up   *)
(* to some place in the list they are new and their old versions saved,    *)
(* from there on they are as before; the roll-back walks the same way      *)
(* back.  From that, the service's program can be followed from one        *)
(* operation to the next (Serving), and the service with it (Waiting).     *)
(***************************************************************************)
EXTENDS Setup, TLAPS

Ops == {"none", "install", "upgrade", "repair", "enable", "uninstall"}
Stages == {"idle", "copy", "service", "autorun", "undo", "stop", "backup", "start", "clean",
           "restore", "register", "end", "unregister", "forget", "remove"}
Releases == 0 .. 2

Disk == [Files -> Releases]
Procs == [op : Ops, at : Stages, i : Int, src : Releases, was : BOOLEAN,
          existed : SUBSET Files, before : Disk, faults : Nat]

Typed ==
  /\ inplace \in Disk /\ backup \in Disk /\ proc \in Procs
  /\ service \in {"absent", "stopped", "running", "stopping"}
  /\ config \in {"absent", "good", "unreadable"}
  /\ secrets \subseteq {"password", "identity", "presence", "orphan"}
  /\ after \in {"no", "cleared", "ended", "restarted"}

-----------------------------------------------------------------------------
(* The list of an upgrade                                                  *)

Last == Len(UpgradeFiles)

(* Where each operation may be. *)
InStage ==
  /\ proc.op = "none" => proc = Idle
  /\ proc.op = "install" => proc.at \in {"copy", "service", "autorun", "undo"} /\ proc.src = 1
  /\ proc.op = "upgrade" =>
       /\ proc.at \in {"stop", "backup", "copy", "autorun", "start", "clean", "undo", "restore"}
       /\ proc.src = 2
       /\ proc.at \in {"stop", "backup", "copy", "restore"} => proc.i \in 1 .. Last
       /\ proc.at \in {"autorun", "start", "clean"} => proc.i = Last
       /\ proc.at = "undo" => proc.i \in 0 .. Last
  /\ proc.op = "repair" => proc.at \in {"stop", "copy", "register", "end"} /\ proc.src = 2
  /\ proc.op = "enable" => proc.at \in {"copy", "register"}
  /\ proc.op = "uninstall" => /\ proc.at \in {"unregister", "stop", "forget", "remove"}
                              /\ proc.at # "remove" => ~proc.was

(* Only a service that has not stopped is to be deleted later. *)
Deleting == marked => service \in {"running", "stopping"}

(* The first k files of the list. *)
First(k) == {UpgradeFiles[j] : j \in 1 .. k}

(* The first k files are new, and the others as they were. *)
Replaced(k) == \A f \in Files : inplace[f] = IF f \in First(k) THEN 2 ELSE proc.before[f]

(* Of the first k files, those that were there have a backup. *)
Kept(k) == \A f \in First(k) : proc.before[f] # 0 => f \in proc.existed /\ backup[f] = proc.before[f]

(* Nothing but some of the first k files is new. *)
Undone(k) == \A f \in Files : inplace[f] = proc.before[f] \/ (f \in First(k) /\ inplace[f] = 2)

Upgrading ==
  proc.op = "upgrade" =>
    /\ \A f \in proc.existed : proc.before[f] # 0
    /\ proc.at \notin {"undo", "restore"} => proc.faults = 0
    /\ proc.at = "stop" => proc.i = 1
    /\ proc.at \in {"stop", "backup"} => Replaced(proc.i - 1) /\ Kept(proc.i - 1)
    /\ proc.at = "copy" => Replaced(proc.i - 1) /\ Kept(proc.i)
    /\ proc.at \in {"autorun", "start", "clean"} => Replaced(Last) /\ Kept(Last)
    /\ proc.at \in {"undo", "restore"} => proc.faults > 0
    /\ proc.at = "undo" /\ proc.faults <= 1 => Undone(proc.i) /\ Kept(proc.i)
    /\ proc.at = "restore" /\ proc.faults <= 1 =>
         /\ inplace[File] = 0 /\ Kept(proc.i)
         /\ \A f \in Files : f = File \/ inplace[f] = proc.before[f] \/ (f \in First(proc.i) /\ inplace[f] = 2)

(* A second failure of an upgrade is noted. *)
Spoiling == proc.op = "upgrade" /\ proc.faults >= 2 => spoilt

-----------------------------------------------------------------------------
(* The service and its program                                             *)

(* An installation has copied what it says it has. *)
Installed ==
  proc.op = "install" =>
    /\ proc.at = "copy" => proc.i \in 1 .. Len(InstallFiles)
                            /\ \A j \in 1 .. proc.i - 1 : inplace[InstallFiles[j]] # 0
    /\ proc.at \in {"service", "autorun"} => \A f \in Files : inplace[f] # 0

(* A service that will be started has its program, or had when the upgrade *)
(* under way began, unless a removal failed to delete it. *)
Serving ==
  service # "absent" /\ ~marked /\ ~spoilt /\ "service" \notin undeleted =>
    IF proc.op = "upgrade" THEN proc.before[ServiceFile] # 0 ELSE inplace[ServiceFile] # 0

(* Where the service is while an operation that stops it goes on. *)
Waiting ==
  /\ proc.op = "upgrade" /\ proc.at \notin {"stop", "clean"} => service \in {"stopped", "absent"}
  /\ proc.op = "upgrade" /\ proc.at = "clean" => service # "stopping" /\ ~marked
  /\ proc.op = "upgrade" /\ proc.at = "clean" /\ proc.was /\ config = "good" /\ ~spoilt
       /\ service # "absent" /\ "service" \notin undeleted => service = "running"
  /\ proc.op = "repair" /\ proc.at # "stop" => service \in {"stopped", "absent"}
  /\ proc.op = "uninstall" /\ proc.at \in {"forget", "remove"} =>
       service = "absent" \/ marked \/ "service" \in undeleted

(* What an uninstallation that has failed to delete nothing has done so    *)
(* far, and that nothing but another one comes after it. *)
Clearing ==
  /\ proc.op = "uninstall" /\ proc.faults = 0 =>
       /\ proc.at \in {"stop", "forget", "remove"} /\ system32 => "System32" \in doomed
       /\ proc.at \in {"forget", "remove"} => "service" \notin undeleted
  /\ after # "no" => proc.op \in {"none", "uninstall"}

-----------------------------------------------------------------------------
(* Lemmas on the list                                                      *)

(* What it means that the list names each file once. *)
LEMMA ListFacts ==
  /\ Last \in Nat /\ Last >= 1
  /\ First(0) = {}
  /\ First(Last) = {UpgradeFiles[j] : j \in DOMAIN UpgradeFiles}
  /\ \A k \in 1 .. Last : /\ UpgradeFiles[k] \in Files
                          /\ First(k) = First(k - 1) \cup {UpgradeFiles[k]}
                          /\ UpgradeFiles[k] \notin First(k - 1)
  /\ \A k \in 0 .. Last : First(k) \subseteq Files
<1>1. UpgradeFiles \in Seq(Files) /\ UpgradeFiles # <<>>
  BY FilesAreListed
<1>2. Last \in Nat /\ Last >= 1 /\ DOMAIN UpgradeFiles = 1 .. Last
  BY <1>1 DEF Last
<1>3. \A k \in 1 .. Last : UpgradeFiles[k] \in Files
  BY <1>1, <1>2
<1>4. First(0) = {}
  BY DEF First
<1>5. First(Last) = {UpgradeFiles[j] : j \in DOMAIN UpgradeFiles}
  BY <1>2 DEF First
<1>6. ASSUME NEW k \in 1 .. Last
      PROVE  /\ First(k) = First(k - 1) \cup {UpgradeFiles[k]}
             /\ UpgradeFiles[k] \notin First(k - 1)
  <2>1. First(k) = First(k - 1) \cup {UpgradeFiles[k]}
    <3>1. \A j \in 1 .. k : j \in 1 .. k - 1 \/ j = k
      BY <1>2
    <3>2. 1 .. k - 1 \subseteq 1 .. k /\ k \in 1 .. k
      BY <1>2
    <3> QED
      BY <3>1, <3>2 DEF First
  <2>2. ASSUME NEW j \in 1 .. k - 1 PROVE UpgradeFiles[j] # UpgradeFiles[k]
    <3>1. j \in DOMAIN UpgradeFiles /\ k \in DOMAIN UpgradeFiles /\ j # k
      BY <1>2
    <3> QED
      BY <3>1, FilesAreListed
  <2> QED
    BY <2>1, <2>2 DEF First
<1>7. \A k \in 0 .. Last : First(k) \subseteq Files
  BY <1>2, <1>3 DEF First
<1> QED
  BY <1>2, <1>3, <1>4, <1>5, <1>6, <1>7

-----------------------------------------------------------------------------
(* Typing, and the stages                                                  *)

LEMMA IdleTyped == Nothing \in Disk /\ Idle \in Procs
<1>1. Nothing \in Disk
  BY DEF Nothing, Disk, Releases
<1>2. Idle \in Procs
  BY <1>1 DEF Idle, Procs, Ops, Stages, Releases
<1> QED
  BY <1>1, <1>2

LEMMA FieldsTyped ==
  \A p \in Procs :
    /\ \A at \in Stages : [p EXCEPT !.at = at] \in Procs
    /\ \A i \in Int : [p EXCEPT !.i = i] \in Procs
    /\ \A w \in BOOLEAN : [p EXCEPT !.was = w] \in Procs
    /\ \A files \in SUBSET Files : [p EXCEPT !.existed = files] \in Procs
    /\ \A n \in Nat : [p EXCEPT !.faults = n] \in Procs
BY DEF Procs

(* What the steps need of the place in the list and of the count. *)
LEMMA PlaceTyped ==
  ASSUME Typed
  PROVE  /\ proc \in Procs /\ proc.i \in Int /\ proc.faults \in Nat /\ proc.existed \subseteq Files
         /\ proc.i - 1 \in Int /\ proc.i + 1 \in Int /\ proc.faults + 1 \in Nat
<1>1. proc \in Procs
  BY DEF Typed
<1>2. proc.i \in Int /\ proc.faults \in Nat /\ proc.existed \subseteq Files
  BY <1>1 DEF Procs
<1> QED
  BY <1>1, <1>2

(* The upgrade is at one of its files. *)
LEMMA FileTyped ==
  ASSUME InStage, proc.op = "upgrade", proc.at \in {"stop", "backup", "copy", "restore"}
  PROVE  File \in Files
<1>1. proc.i \in 1 .. Last
  BY DEF InStage
<1> QED
  BY <1>1, ListFacts DEF File

(* The steps of an operation are steps of proc. *)
LEMMA ProcTyped ==
  ASSUME Typed
  PROVE  /\ \A op \in Ops, at \in Stages, v \in Releases : Begins(op, at, v) => proc' \in Procs
         /\ \A at \in Stages : Moves(at) \/ Goes(at) \/ FailsTo(at) => proc' \in Procs
         /\ \A at \in Stages : \A failed : Tried(at, failed) => proc' \in Procs
         /\ Ends => proc' \in Procs
<1> USE DEF Typed
<1>1. ASSUME NEW op \in Ops, NEW at \in Stages, NEW v \in Releases, Begins(op, at, v)
      PROVE  proc' \in Procs
  <2>1. (IF op = "upgrade" THEN inplace ELSE Nothing) \in Disk
    BY IdleTyped
  <2> QED
    BY <1>1, <2>1, IdleTyped DEF Begins, Procs
<1>2. ASSUME NEW at \in Stages, Moves(at) \/ Goes(at) \/ FailsTo(at) PROVE proc' \in Procs
  <2>1. CASE Moves(at) \/ Goes(at)
    BY <2>1 DEF Moves, Goes, Procs
  <2>2. CASE FailsTo(at)
    <3>1. [proc EXCEPT !.at = at] \in Procs /\ proc.faults + 1 \in Nat
      BY FieldsTyped DEF Procs
    <3> QED
      BY <2>2, <3>1, FieldsTyped DEF FailsTo
  <2> QED
    BY <1>2, <2>1, <2>2
<1>3. ASSUME NEW at \in Stages, NEW failed, Tried(at, failed) PROVE proc' \in Procs
  <2>1. [proc EXCEPT !.at = at] \in Procs /\ (IF failed THEN 1 ELSE proc.faults) \in Nat
    BY FieldsTyped DEF Procs
  <2> QED
    BY <1>3, <2>1, FieldsTyped DEF Tried
<1>4. Ends => proc' \in Procs
  BY IdleTyped DEF Ends
<1> QED
  BY <1>1, <1>2, <1>3, <1>4

LEMMA InitTyped == Init => Typed
BY IdleTyped DEF Init, Typed

LEMMA ProcTypedStep == Typed /\ InStage /\ [Next]_vars => proc' \in Procs
<1> SUFFICES ASSUME Typed, InStage, [Next]_vars PROVE proc' \in Procs
  OBVIOUS
<1> USE ProcTyped, IdleTyped DEF Ops, Stages, Releases
<1>1. ASSUME UNCHANGED proc PROVE proc' \in Procs
  BY <1>1 DEF Typed
<1>2. ASSUME SetupIsKilled PROVE proc' \in Procs
  BY <1>2 DEF SetupIsKilled
<1>3. ASSUME Reboot PROVE proc' \in Procs
  BY <1>3 DEF Reboot
<1>4. ASSUME InstallBegins PROVE proc' \in Procs
  BY <1>4 DEF InstallBegins
<1>5. ASSUME InstallCopies PROVE proc' \in Procs
  <2>1. [proc EXCEPT !.i = proc.i + 1] \in Procs /\ [proc EXCEPT !.at = "service"] \in Procs
    BY PlaceTyped, FieldsTyped
  <2> QED
    BY <1>5, <2>1 DEF InstallCopies
<1>6. ASSUME InstallService PROVE proc' \in Procs
  BY <1>6 DEF InstallService
<1>7. ASSUME InstallSetsRun PROVE proc' \in Procs
  BY <1>7 DEF InstallSetsRun
<1>8. ASSUME InstallUndo PROVE proc' \in Procs
  BY <1>8 DEF InstallUndo
<1>9. ASSUME UpgradeBegins PROVE proc' \in Procs
  BY <1>9 DEF UpgradeBegins
<1>10. ASSUME RepairBegins PROVE proc' \in Procs
  BY <1>10 DEF RepairBegins
<1>11. ASSUME StopService PROVE proc' \in Procs
  <2>1. ASSUME NEW at \in Stages, NEW w \in BOOLEAN PROVE [proc EXCEPT !.at = at, !.was = w] \in Procs
    <3>1. [proc EXCEPT !.at = at] \in Procs
      BY FieldsTyped DEF Typed
    <3> QED
      BY <3>1, FieldsTyped
  <2>2. [proc EXCEPT !.was = TRUE] \in Procs
    BY FieldsTyped DEF Typed
  <2>3. (proc.op = "repair") \in BOOLEAN
    OBVIOUS
  <2>4. (IF proc.op = "repair" THEN "copy" ELSE "backup") \in Stages
    OBVIOUS
  <2>5. [proc EXCEPT !.at = IF proc.op = "repair" THEN "copy" ELSE "backup", !.was = (proc.op = "repair")] \in Procs
    BY <2>1, <2>3, <2>4
  <2> QED
    BY <1>11, <2>2, <2>5 DEF StopService
<1>12. ASSUME WaitForStop PROVE proc' \in Procs
  BY <1>12 DEF WaitForStop
<1>13. ASSUME Backup PROVE proc' \in Procs
  <2>1. proc.i - 1 \in Int /\ proc.faults + 1 \in Nat /\ proc.existed \cup {File} \subseteq Files
    <3>1. File \in Files
      BY <1>13, FileTyped DEF Backup, At
    <3> QED
      BY <3>1, PlaceTyped
  <2>2. [proc EXCEPT !.at = "copy"] \in Procs /\ [proc EXCEPT !.at = "undo"] \in Procs
    BY FieldsTyped DEF Typed
  <2>3. [proc EXCEPT !.at = "undo", !.i = proc.i - 1] \in Procs
    BY <2>1, <2>2, FieldsTyped
  <2>4. [proc EXCEPT !.at = "copy", !.existed = proc.existed \cup {File}] \in Procs
    BY <2>1, <2>2, FieldsTyped
  <2>5. [proc EXCEPT !.at = "undo", !.i = proc.i - 1, !.faults = proc.faults + 1] \in Procs
    BY <2>1, <2>3, FieldsTyped
  <2> QED
    BY <1>13, <2>4, <2>5 DEF Backup
<1>14. ASSUME UpgradeCopies PROVE proc' \in Procs
  <2>1. proc.i + 1 \in Int
    BY PlaceTyped
  <2>2. [proc EXCEPT !.at = "backup"] \in Procs /\ [proc EXCEPT !.at = "autorun"] \in Procs
    BY FieldsTyped, PlaceTyped
  <2>3. [proc EXCEPT !.at = "backup", !.i = proc.i + 1] \in Procs
    BY <2>1, <2>2, FieldsTyped
  <2> QED
    BY <1>14, <2>2, <2>3 DEF UpgradeCopies
<1>15. ASSUME UpgradeSetsRun PROVE proc' \in Procs
  BY <1>15 DEF UpgradeSetsRun
<1>16. ASSUME UpgradeStarts PROVE proc' \in Procs
  BY <1>16 DEF UpgradeStarts
<1>17. ASSUME UpgradeEnds PROVE proc' \in Procs
  BY <1>17 DEF UpgradeEnds
<1>18. ASSUME UndoRemoves PROVE proc' \in Procs
  BY <1>18 DEF UndoRemoves
<1>19. ASSUME UndoRestores PROVE proc' \in Procs
  <2>1. proc.i - 1 \in Int /\ proc.faults + 1 \in Nat
    BY PlaceTyped
  <2>2. [proc EXCEPT !.at = "undo"] \in Procs
    BY FieldsTyped DEF Typed
  <2>3. [proc EXCEPT !.at = "undo", !.i = proc.i - 1] \in Procs
    BY <2>1, <2>2, FieldsTyped
  <2>4. [proc EXCEPT !.at = "undo", !.i = proc.i - 1, !.faults = proc.faults + 1] \in Procs
    BY <2>1, <2>3, FieldsTyped
  <2> QED
    BY <1>19, <2>3, <2>4 DEF UndoRestores
<1>20. ASSUME UndoEnds PROVE proc' \in Procs
  BY <1>20 DEF UndoEnds, NotStarted
<1>21. ASSUME RepairCopies PROVE proc' \in Procs
  <2>1. [proc EXCEPT !.i = proc.i + 1] \in Procs /\ [proc EXCEPT !.at = "register"] \in Procs
    BY PlaceTyped, FieldsTyped
  <2> QED
    BY <1>21, <2>1 DEF RepairCopies
<1>22. ASSUME RepairRegisters PROVE proc' \in Procs
  BY <1>22 DEF RepairRegisters
<1>23. ASSUME RepairEnds PROVE proc' \in Procs
  BY <1>23 DEF RepairEnds, NotStarted
<1>24. ASSUME EnableBegins PROVE proc' \in Procs
  BY <1>24 DEF EnableBegins
<1>25. ASSUME EnableCopies PROVE proc' \in Procs
  BY <1>25 DEF EnableCopies
<1>26. ASSUME EnableRegisters PROVE proc' \in Procs
  BY <1>26 DEF EnableRegisters
<1>27. ASSUME UninstallBegins PROVE proc' \in Procs
  BY <1>27 DEF UninstallBegins
<1>28. ASSUME UninstallStops PROVE proc' \in Procs
  BY <1>28 DEF UninstallStops
<1>29. ASSUME UninstallForgets PROVE proc' \in Procs
  <2>1. [proc EXCEPT !.at = "remove"] \in Procs
    BY PlaceTyped, FieldsTyped
  <2>2. [proc EXCEPT !.at = "remove", !.was = (config = "good")] \in Procs
    BY <2>1, FieldsTyped
  <2>3. proc.faults \in Nat /\ 1 \in Nat
    BY PlaceTyped
  <2>4. \A n \in Nat : [proc EXCEPT !.at = "remove", !.was = (config = "good"), !.faults = n] \in Procs
    BY <2>2, FieldsTyped
  <2> QED
    BY <1>29, <2>3, <2>4 DEF UninstallForgets
<1>30. ASSUME UninstallEnds PROVE proc' \in Procs
  BY <1>30 DEF UninstallEnds
<1>31. CASE \/ UNCHANGED vars \/ Initialize \/ Pair \/ SavesLate \/ ConfigSpoils \/ ServiceStops
            \/ ServiceFails \/ Disable \/ Recover
  BY <1>1, <1>31 DEF vars, Initialize, Pair, SavesLate, ConfigSpoils, ServiceStops, ServiceFails, Disable, Recover
<1>32. ASSUME UninstallUnregisters PROVE proc' \in Procs
  BY <1>32 DEF UninstallUnregisters
<1> QED
  BY <1>32, <1>2, <1>3, <1>4, <1>5, <1>6, <1>7, <1>8, <1>9, <1>10, <1>11, <1>12, <1>13, <1>14, <1>15, <1>16, <1>17, <1>18, <1>19, <1>20, <1>21, <1>22, <1>23, <1>24, <1>25, <1>26, <1>27, <1>28, <1>29, <1>30, <1>31 DEF Next

(* The steps that write files. *)
LEMMA Writing ==
  [Next]_vars => \/ UNCHANGED disk
                 \/ Reboot \/ InstallCopies \/ InstallUndo \/ Backup \/ UpgradeCopies \/ UpgradeEnds
                 \/ UndoRemoves \/ UndoRestores \/ RepairCopies \/ UninstallEnds
BY DEF Next, vars, Initialize, Pair, SavesLate, ConfigSpoils, ServiceStops, ServiceFails, SetupIsKilled, InstallBegins, InstallService, InstallSetsRun, UpgradeBegins, RepairBegins, StopService, WaitForStop, UpgradeSetsRun, UpgradeStarts, UndoEnds, RepairRegisters, RepairEnds, EnableBegins, EnableCopies, EnableRegisters, Disable, Recover, UninstallBegins, UninstallUnregisters, UninstallStops, UninstallForgets

LEMMA DiskTypedStep == Typed /\ InStage /\ [Next]_vars => inplace' \in Disk /\ backup' \in Disk
<1> SUFFICES ASSUME Typed, InStage, [Next]_vars PROVE inplace' \in Disk /\ backup' \in Disk
  OBVIOUS
<1>1. CASE UNCHANGED disk
  BY <1>1 DEF disk, Typed
<1> DEFINE One(d, e) == e = d \/ \E f : \E v \in Releases : e = [d EXCEPT ![f] = v]
<1>2. ASSUME NEW d \in Disk, NEW e, One(d, e) PROVE e \in Disk
  BY <1>2 DEF Disk
<1>3. inplace \in Disk /\ backup \in Disk /\ proc.src \in Releases /\ 0 \in Releases
  BY DEF Typed, Procs, Releases
<1>4. CASE Reboot
  BY <1>4 DEF Reboot, Typed, Disk, Releases
<1>5. CASE InstallCopies
  <2>1. One(inplace, inplace') /\ One(backup, backup')
    BY <1>3, <1>5 DEF InstallCopies
  <2> QED
    BY <1>2, <1>3, <2>1
<1>6. CASE InstallUndo
  BY <1>6 DEF InstallUndo, Typed, Disk, Releases
<1>7. CASE Backup
  <2>1. File \in Files
    BY <1>7, FileTyped DEF Backup, At
  <2>2. inplace[File] \in Releases /\ backup[File] \in Releases
    BY <1>3, <2>1 DEF Disk
  <2>3. One(inplace, inplace') /\ One(backup, backup')
    BY <1>3, <1>7, <2>2 DEF Backup
  <2> QED
    BY <1>2, <1>3, <2>3
<1>8. CASE UpgradeCopies
  <2>1. One(inplace, inplace') /\ One(backup, backup')
    BY <1>3, <1>8 DEF UpgradeCopies
  <2> QED
    BY <1>2, <1>3, <2>1
<1>9. CASE UpgradeEnds
  BY <1>9 DEF UpgradeEnds, disk, Typed, Disk, Releases
<1>10. CASE UndoRemoves
  <2>1. One(inplace, inplace') /\ One(backup, backup')
    BY <1>3, <1>10 DEF UndoRemoves
  <2> QED
    BY <1>2, <1>3, <2>1
<1>11. CASE UndoRestores
  <2>1. File \in Files
    BY <1>11, ListFacts DEF UndoRestores, At, InStage, File
  <2>2. inplace[File] \in Releases /\ backup[File] \in Releases
    BY <1>3, <2>1 DEF Disk
  <2>3. One(inplace, inplace') /\ One(backup, backup')
    BY <1>3, <1>11, <2>2 DEF UndoRestores, CopiesBack
  <2> QED
    BY <1>2, <1>3, <2>3
<1>12. CASE RepairCopies
  <2>1. One(inplace, inplace') /\ One(backup, backup')
    BY <1>3, <1>12 DEF RepairCopies
  <2> QED
    BY <1>2, <1>3, <2>1
<1>13. CASE UninstallEnds
  BY <1>13 DEF UninstallEnds, disk, Typed, Disk, Nothing, Releases
<1> QED
  BY Writing, <1>1, <1>4, <1>5, <1>6, <1>7, <1>8, <1>9, <1>10, <1>11, <1>12, <1>13

(* The steps that tell the service something, or hear from it. *)
LEMMA Controlling ==
  [Next]_vars => \/ UNCHANGED scm
                 \/ ServiceStops \/ ServiceFails \/ Reboot \/ InstallService \/ InstallUndo \/ StopService
                 \/ UpgradeStarts \/ UndoEnds \/ RepairEnds \/ Recover \/ UninstallStops
BY DEF Next, vars, scm, Initialize, Pair, SavesLate, ConfigSpoils, SetupIsKilled, InstallBegins,
     InstallCopies, InstallSetsRun, UpgradeBegins, RepairBegins, WaitForStop, Backup,
     UpgradeCopies, UpgradeSetsRun, UpgradeEnds, UndoRemoves, UndoRestores, RepairCopies,
     RepairRegisters, EnableBegins, EnableCopies, EnableRegisters, Disable, UninstallBegins,
     UninstallUnregisters, UninstallForgets, UninstallEnds

(* The steps that write the configuration or a secret. *)
LEMMA Recording ==
  [Next]_vars => UNCHANGED data \/ Initialize \/ Pair \/ SavesLate \/ ConfigSpoils \/ UninstallForgets
BY DEF Next, vars, ServiceStops, ServiceFails, SetupIsKilled, Reboot, InstallBegins,
     InstallCopies, InstallService, InstallSetsRun, InstallUndo, UpgradeBegins, RepairBegins,
     StopService, WaitForStop, Backup, UpgradeCopies, UpgradeSetsRun, UpgradeStarts,
     UpgradeEnds, UndoRemoves, UndoRestores, UndoEnds, RepairCopies, RepairRegisters,
     RepairEnds, EnableBegins, EnableCopies, EnableRegisters, Disable, Recover,
     UninstallBegins, UninstallUnregisters, UninstallStops, UninstallEnds

LEMMA TypedStep == Typed /\ InStage /\ [Next]_vars => Typed'
<1> SUFFICES ASSUME Typed, InStage, [Next]_vars PROVE Typed'
  OBVIOUS
<1>1. service' \in {"absent", "stopped", "running", "stopping"}
  BY Controlling DEF scm, Typed, ServiceStops, ServiceFails, Reboot, InstallService, InstallUndo, StopService,
     UpgradeStarts, UndoEnds, RepairEnds, Recover, UninstallStops, AfterStop, AfterStart, StopAndDelete,
     NotStarted, AfterUndo
<1>2. /\ config' \in {"absent", "good", "unreadable"}
      /\ secrets' \subseteq {"password", "identity", "presence", "orphan"}
  BY Recording DEF data, Typed, Initialize, Pair, SavesLate, ConfigSpoils, UninstallForgets, Orphaned, Named
<1>3. after' \in {"no", "cleared", "ended", "restarted"}
  <2>1. after' = after \/ after' \in {"no", "cleared", "ended", "restarted"}
    BY DEF Next, vars, history, Begins, Goes, Ends, FailsTo, FailsAgain, NotStarted, Initialize, Pair, SavesLate,
       ConfigSpoils, ServiceStops, ServiceFails, SetupIsKilled, Reboot, InstallBegins, InstallCopies,
       InstallService, InstallSetsRun, InstallUndo, UpgradeBegins, RepairBegins, StopService,
       WaitForStop, Backup, UpgradeCopies, UpgradeSetsRun, UpgradeStarts, UpgradeEnds, UndoRemoves,
       UndoRestores, UndoEnds, RepairCopies, RepairRegisters, RepairEnds, EnableBegins,
       EnableCopies, EnableRegisters, Disable, Recover, UninstallBegins, UninstallUnregisters,
       UninstallStops, UninstallForgets, UninstallEnds
  <2> QED
    BY <2>1 DEF Typed
<1> QED
  BY <1>1, <1>2, <1>3, ProcTypedStep, DiskTypedStep DEF Typed

(* What the steps of an operation do to each field of proc. *)
Is(at, i, was, existed, faults) ==
  /\ proc'.op = proc.op /\ proc'.src = proc.src /\ proc'.before = proc.before
  /\ proc'.at = at /\ proc'.i = i /\ proc'.was = was
  /\ proc'.existed = existed /\ proc'.faults = faults

Is3(at, i, faults) == Is(at, i, proc.was, proc.existed, faults)

LEMMA Fields ==
  ASSUME Typed
  PROVE  /\ \A at : Moves(at) \/ Goes(at) => Is3(at, proc.i, proc.faults)
         /\ \A at, failed : Tried(at, failed) => Is3(at, proc.i, IF failed THEN 1 ELSE proc.faults)
         /\ \A at : FailsTo(at) => Is3(at, proc.i, proc.faults + 1)
         /\ UNCHANGED proc => Is3(proc.at, proc.i, proc.faults)
<1> USE DEF Typed, Procs, Is3, Is
<1>1. ASSUME NEW at, Moves(at) \/ Goes(at) PROVE Is3(at, proc.i, proc.faults)
  BY <1>1 DEF Moves, Goes
<1>3. ASSUME NEW at, NEW failed, Tried(at, failed) PROVE Is3(at, proc.i, IF failed THEN 1 ELSE proc.faults)
  BY <1>3 DEF Tried
<1>2. ASSUME NEW at, FailsTo(at) PROVE Is3(at, proc.i, proc.faults + 1)
  BY <1>2 DEF FailsTo
<1> QED
  BY <1>1, <1>2, <1>3

LEMMA BeginFields ==
  \A op, at, v : Begins(op, at, v) =>
    /\ proc = Idle /\ proc'.op = op /\ proc'.at = at /\ proc'.src = v /\ proc'.i = 1 /\ proc'.was = FALSE
    /\ proc'.existed = {} /\ proc'.faults = 0
    /\ proc'.before = IF op = "upgrade" THEN inplace ELSE Nothing
BY DEF Begins, Idle

LEMMA EndFields == Ends => proc' = Idle /\ proc'.op = "none" /\ UNCHANGED spoilt
BY DEF Ends, Idle, history

LEMMA ActionFields ==
  ASSUME Typed
  PROVE  /\ StopService => \/ Ends
                           \/ /\ service = "stopped" /\ UNCHANGED service
                              /\ Is(IF proc.op = "repair" THEN "copy" ELSE "backup", proc.i,
                                    proc.op = "repair", proc.existed, proc.faults)
                           \/ Is("stop", proc.i, TRUE, proc.existed, proc.faults)
         /\ InstallCopies => \/ proc.i < Len(InstallFiles) /\ Is3("copy", proc.i + 1, proc.faults)
                             \/ ~(proc.i < Len(InstallFiles)) /\ Is3("service", proc.i, proc.faults)
                             \/ FailsTo("undo") /\ UNCHANGED inplace
         /\ Backup => \/ /\ inplace[File] # 0 /\ backup' = [backup EXCEPT ![File] = inplace[File]]
                         /\ Is("copy", proc.i, proc.was, proc.existed \cup {File}, proc.faults)
                      \/ inplace[File] = 0 /\ Goes("copy") /\ UNCHANGED backup
                      \/ Is3("undo", proc.i - 1, proc.faults + 1) /\ UNCHANGED backup
         /\ UpgradeCopies => \/ /\ inplace' = [inplace EXCEPT ![File] = proc.src]
                                /\ \/ proc.i < Last /\ Is3("backup", proc.i + 1, proc.faults)
                                   \/ ~(proc.i < Last) /\ Is3("autorun", proc.i, proc.faults)
                             \/ FailsTo("undo") /\ UNCHANGED inplace
         /\ UndoRestores => \/ CopiesBack /\ Is3("undo", proc.i - 1, proc.faults)
                            \/ /\ Is3("undo", proc.i - 1, proc.faults + 1)
                               /\ UNCHANGED inplace /\ FailsAgain(proc.faults = 0)
         /\ RepairCopies => \/ Is3("copy", proc.i + 1, proc.faults)
                            \/ Is3("register", proc.i, proc.faults)
                            \/ FailsTo("end")
         /\ UninstallForgets => Is("remove", proc.i, config = "good", proc.existed, proc'.faults)
<1> USE DEF Typed, Procs, Is3, Is
<1>1. ASSUME InstallCopies
      PROVE  \/ proc.i < Len(InstallFiles) /\ Is3("copy", proc.i + 1, proc.faults)
             \/ ~(proc.i < Len(InstallFiles)) /\ Is3("service", proc.i, proc.faults)
             \/ FailsTo("undo") /\ UNCHANGED inplace
  BY <1>1 DEF InstallCopies, At
<1>2. ASSUME Backup
      PROVE  \/ /\ inplace[File] # 0 /\ backup' = [backup EXCEPT ![File] = inplace[File]]
                /\ Is("copy", proc.i, proc.was, proc.existed \cup {File}, proc.faults)
             \/ inplace[File] = 0 /\ Goes("copy") /\ UNCHANGED backup
             \/ Is3("undo", proc.i - 1, proc.faults + 1) /\ UNCHANGED backup
  BY <1>2 DEF Backup
<1>3. ASSUME UpgradeCopies
      PROVE  \/ /\ inplace' = [inplace EXCEPT ![File] = proc.src]
                /\ \/ proc.i < Last /\ Is3("backup", proc.i + 1, proc.faults)
                   \/ ~(proc.i < Last) /\ Is3("autorun", proc.i, proc.faults)
             \/ FailsTo("undo") /\ UNCHANGED inplace
  BY <1>3 DEF UpgradeCopies, Last
<1>4. ASSUME UndoRestores
      PROVE  \/ CopiesBack /\ Is3("undo", proc.i - 1, proc.faults)
             \/ /\ Is3("undo", proc.i - 1, proc.faults + 1)
                /\ UNCHANGED inplace /\ FailsAgain(proc.faults = 0)
  BY <1>4 DEF UndoRestores
<1>5. ASSUME RepairCopies
      PROVE  \/ Is3("copy", proc.i + 1, proc.faults)
             \/ Is3("register", proc.i, proc.faults)
             \/ FailsTo("end")
  BY <1>5 DEF RepairCopies, At
<1>6. ASSUME StopService
      PROVE  \/ Ends
             \/ /\ service = "stopped" /\ UNCHANGED service
                /\ Is(IF proc.op = "repair" THEN "copy" ELSE "backup", proc.i,
                      proc.op = "repair", proc.existed, proc.faults)
             \/ Is("stop", proc.i, TRUE, proc.existed, proc.faults)
  <2>1. CASE Ends
    BY <2>1
  <2>2. CASE /\ service = "stopped" /\ UNCHANGED service
             /\ proc' = [proc EXCEPT !.at = IF proc.op = "repair" THEN "copy" ELSE "backup",
                                     !.was = (proc.op = "repair")]
    BY <2>2
  <2>3. CASE proc.at = "stop" /\ proc' = [proc EXCEPT !.was = TRUE]
    BY <2>3
  <2> QED
    BY <1>6, <2>1, <2>2, <2>3 DEF StopService
<1>7. ASSUME UninstallForgets PROVE Is("remove", proc.i, config = "good", proc.existed, proc'.faults)
  BY <1>7 DEF UninstallForgets
<1> QED
  BY <1>1, <1>2, <1>3, <1>4, <1>5, <1>6, <1>7

LEMMA InStageStep == Typed /\ InStage /\ [Next]_vars => InStage'
<1> SUFFICES ASSUME Typed, InStage, [Next]_vars PROVE InStage'
  OBVIOUS
<1>0. Last >= 1 /\ Last \in Nat /\ proc.i \in Int
  BY ListFacts DEF Typed, Procs
<1> USE <1>0 DEF InStage
<1>1. ASSUME UNCHANGED proc PROVE InStage'
  BY <1>1
<1>2. ASSUME proc' = Idle PROVE InStage'
  BY <1>2 DEF Idle
<1>3. ASSUME NEW op \in Ops \ {"none"}, NEW at, NEW v, Begins(op, at, v),
             <<op, at, v>> \in {<<"install", "copy", 1>>, <<"upgrade", "stop", 2>>, <<"repair", "stop", 2>>,
                               <<"enable", "copy", 0>>, <<"uninstall", "unregister", 0>>}
      PROVE  InStage'
  BY <1>3, BeginFields DEF Ops
<1>4. CASE InstallBegins \/ UpgradeBegins \/ RepairBegins \/ EnableBegins \/ UninstallBegins
  BY <1>3, <1>4 DEF InstallBegins, UpgradeBegins, RepairBegins, EnableBegins, UninstallBegins, Ops
<1>5. CASE InstallCopies \/ InstallService \/ InstallSetsRun
  BY <1>2, <1>5, Fields, ActionFields DEF InstallCopies, InstallService, InstallSetsRun, At, Ends, Is3, Is
<1>6. CASE StopService \/ WaitForStop
  <2>1. proc.at = "stop" /\ proc.op \in {"upgrade", "repair"}
    <3>1. proc.at = "stop" /\ proc.op # "uninstall"
      BY <1>6 DEF StopService, WaitForStop
    <3>2. proc.op \in Ops
      BY DEF Typed, Procs
    <3> QED
      BY <3>1, <3>2 DEF Ops, Idle
  <2>2. CASE Is(IF proc.op = "repair" THEN "copy" ELSE "backup", proc.i, proc.op = "repair", proc.existed, proc.faults)
    BY <2>1, <2>2 DEF Is
  <2>3. CASE Is("stop", proc.i, TRUE, proc.existed, proc.faults)
    BY <2>1, <2>3 DEF Is
  <2>4. CASE Goes(IF proc.op = "repair" THEN "copy" ELSE "backup")
    BY <2>1, <2>4, Fields DEF Is3, Is
  <2> QED
    BY <1>2, <1>6, <2>2, <2>3, <2>4, ActionFields DEF WaitForStop, Ends
<1>7. CASE Backup \/ UpgradeCopies
  BY <1>7, Fields, ActionFields DEF Backup, UpgradeCopies, At, Is3, Is
<1>8. CASE UpgradeSetsRun \/ UpgradeStarts
  BY <1>8, Fields DEF UpgradeSetsRun, UpgradeStarts, At, Is3, Is
<1>9. CASE UndoRemoves \/ UndoRestores
  BY <1>9, Fields, ActionFields DEF UndoRemoves, UndoRestores, At, Is3, Is
<1>10. CASE RepairCopies \/ RepairRegisters
  BY <1>10, Fields, ActionFields DEF RepairCopies, RepairRegisters, At, Is3, Is
<1>11. CASE EnableCopies
  BY <1>2, <1>11, Fields DEF EnableCopies, At, Ends, Is3, Is
<1>12. CASE UninstallUnregisters \/ UninstallStops \/ UninstallForgets
  BY <1>12, Fields, ActionFields DEF UninstallUnregisters, UninstallStops, UninstallForgets, At, Is3, Is
<1>13. CASE \/ SetupIsKilled \/ Reboot \/ InstallUndo \/ UpgradeEnds \/ UndoEnds \/ RepairEnds
            \/ EnableRegisters \/ UninstallEnds
  BY <1>2, <1>13 DEF SetupIsKilled, Reboot, InstallUndo, UpgradeEnds, UndoEnds, RepairEnds, EnableRegisters,
     UninstallEnds, Ends, NotStarted
<1>14. CASE \/ UNCHANGED vars \/ Initialize \/ Pair \/ SavesLate \/ ConfigSpoils \/ ServiceStops
            \/ ServiceFails \/ Disable \/ Recover
  BY <1>1, <1>14 DEF vars, Initialize, Pair, SavesLate, ConfigSpoils, ServiceStops, ServiceFails, Disable, Recover
<1> QED
  BY <1>4, <1>5, <1>6, <1>7, <1>8, <1>9, <1>10, <1>11, <1>12, <1>13, <1>14 DEF Next

-----------------------------------------------------------------------------
(* How an operation goes on                                                *)

(* What goes on beside it. *)
Beside == \/ UNCHANGED vars \/ Initialize \/ Pair \/ SavesLate \/ ConfigSpoils \/ ServiceStops
          \/ ServiceFails \/ Disable \/ Recover

LEMMA BesideKeeps ==
  Beside => UNCHANGED <<disk, proc, spoilt>> /\ ("service" \in undeleted' <=> "service" \in undeleted)
BY DEF Beside, vars, history, Initialize, Pair, SavesLate, ConfigSpoils, ServiceStops, ServiceFails,
   Disable, Recover, UnregisterProvider, Unregister

(* What an operation does next. *)
LEMMA GoesOn ==
  Typed /\ InStage /\ [Next]_vars =>
    \/ Beside
    \/ proc' = Idle
    \/ InstallBegins \/ UpgradeBegins \/ RepairBegins \/ EnableBegins \/ UninstallBegins
    \/ /\ proc'.op = proc.op
       /\ \/ proc.op = "install" /\ (InstallCopies \/ InstallService \/ InstallSetsRun)
          \/ /\ proc.op = "upgrade"
             /\ \/ StopService \/ WaitForStop \/ Backup \/ UpgradeCopies \/ UpgradeSetsRun \/ UpgradeStarts
                \/ UndoRemoves \/ UndoRestores
          \/ proc.op = "repair" /\ (StopService \/ WaitForStop \/ RepairCopies \/ RepairRegisters)
          \/ proc.op = "enable" /\ EnableCopies
          \/ proc.op = "uninstall" /\ (UninstallUnregisters \/ UninstallStops \/ UninstallForgets)
<1> SUFFICES ASSUME Typed, InStage, [Next]_vars, ~Beside, proc' # Idle
    PROVE  \/ InstallBegins \/ UpgradeBegins \/ RepairBegins \/ EnableBegins \/ UninstallBegins
           \/ /\ proc'.op = proc.op
              /\ \/ proc.op = "install" /\ (InstallCopies \/ InstallService \/ InstallSetsRun)
                 \/ /\ proc.op = "upgrade"
                    /\ \/ StopService \/ WaitForStop \/ Backup \/ UpgradeCopies \/ UpgradeSetsRun
                       \/ UpgradeStarts \/ UndoRemoves \/ UndoRestores
                 \/ proc.op = "repair" /\ (StopService \/ WaitForStop \/ RepairCopies \/ RepairRegisters)
                 \/ proc.op = "enable" /\ EnableCopies
                 \/ proc.op = "uninstall" /\ (UninstallUnregisters \/ UninstallStops \/ UninstallForgets)
  OBVIOUS
<1>1. ~ (\/ SetupIsKilled \/ Reboot \/ InstallUndo \/ UpgradeEnds \/ UndoEnds \/ RepairEnds
         \/ EnableRegisters \/ UninstallEnds)
  BY DEF SetupIsKilled, Reboot, InstallUndo, UpgradeEnds, UndoEnds, RepairEnds, EnableRegisters,
     UninstallEnds, NotStarted, Ends
<1>2. CASE InstallCopies \/ InstallService \/ InstallSetsRun
  BY <1>2, Fields, ActionFields DEF InstallCopies, InstallService, InstallSetsRun, At, Ends, Is3, Is
<1>3. CASE StopService \/ WaitForStop
  <2>1. proc.op \in {"upgrade", "repair"}
    <3>1. proc.at = "stop" /\ proc.op # "uninstall"
      BY <1>3 DEF StopService, WaitForStop, InStage
    <3>2. proc.op \in Ops
      BY DEF Typed, Procs
    <3> QED
      BY <3>1, <3>2 DEF Ops, Idle, InStage
  <2>2. proc'.op = proc.op
    BY <1>3, Fields, ActionFields DEF WaitForStop, Ends, Is3, Is
  <2> QED
    BY <1>3, <2>1, <2>2
<1>4. CASE Backup \/ UpgradeCopies \/ UpgradeSetsRun \/ UpgradeStarts \/ UndoRemoves \/ UndoRestores
  <2>1. proc.op = "upgrade"
    BY <1>4 DEF Backup, UpgradeCopies, UpgradeSetsRun, UpgradeStarts, UndoRemoves, UndoRestores, At
  <2>2. proc'.op = proc.op
    BY <1>4, Fields, ActionFields DEF UpgradeSetsRun, UpgradeStarts, UndoRemoves, Is3, Is
  <2> QED
    BY <1>4, <2>1, <2>2
<1>5. CASE \/ RepairCopies \/ RepairRegisters \/ EnableCopies
           \/ UninstallUnregisters \/ UninstallStops \/ UninstallForgets
  BY <1>5, Fields, ActionFields
  DEF RepairCopies, RepairRegisters, EnableCopies, UninstallUnregisters, UninstallStops, UninstallForgets, At, Ends, Is3, Is
<1> QED
  BY <1>1, <1>2, <1>3, <1>4, <1>5 DEF Next, Beside

-----------------------------------------------------------------------------
(* The files of an upgrade                                                 *)

LEMMA NotUpgrading ==
  Typed /\ InStage /\ [Next]_vars =>
    \/ proc'.op # "upgrade"
    \/ UNCHANGED <<disk, proc>>
    \/ /\ proc.op = "upgrade"
       /\ \/ StopService \/ WaitForStop \/ Backup \/ UpgradeCopies \/ UpgradeSetsRun \/ UpgradeStarts
          \/ UndoRemoves \/ UndoRestores
    \/ UpgradeBegins
BY GoesOn, BesideKeeps, BeginFields DEF InstallBegins, RepairBegins, EnableBegins, UninstallBegins, Idle

LEMMA UpgradingStep == Typed /\ InStage /\ Upgrading /\ [Next]_vars => Upgrading'
<1> SUFFICES ASSUME Typed, InStage, Upgrading, [Next]_vars PROVE Upgrading'
  OBVIOUS
<1>0. /\ Last >= 1 /\ Last \in Nat /\ proc.i \in Int /\ proc.faults \in Nat
      /\ inplace \in [Files -> Releases] /\ backup \in [Files -> Releases]
  BY ListFacts DEF Typed, Procs, Disk
<1>1. CASE proc'.op # "upgrade"
  BY <1>1 DEF Upgrading
<1>2. CASE UNCHANGED <<disk, proc>>
  BY <1>2 DEF Upgrading, disk, Replaced, Kept, Undone, File
<1>3. CASE UpgradeBegins
  BY <1>3, <1>0, BeginFields, ListFacts DEF UpgradeBegins, Upgrading, disk, Replaced, Kept, Undone
<1>4. CASE proc.op = "upgrade" /\ (StopService \/ WaitForStop)
  <2>1. CASE Is("backup", proc.i, FALSE, proc.existed, proc.faults)
    BY <1>0, <1>4, <2>1 DEF StopService, WaitForStop, Upgrading, disk, Replaced, Kept, Is
  <2>2. CASE Is("stop", proc.i, TRUE, proc.existed, proc.faults)
    BY <1>0, <1>4, <2>2 DEF StopService, WaitForStop, Upgrading, disk, Replaced, Kept, Is
  <2>3. CASE Goes("backup")
    BY <1>0, <1>4, <2>3, Fields DEF StopService, WaitForStop, Upgrading, disk, Replaced, Kept, Is, Is3
  <2> QED
    BY <1>1, <1>4, <2>1, <2>2, <2>3, ActionFields, EndFields DEF WaitForStop
<1>5. CASE proc.op = "upgrade" /\ Backup
  <2>1. /\ proc.at = "backup" /\ proc.i \in 1 .. Last /\ File \in Files /\ UNCHANGED inplace
        /\ Replaced(proc.i - 1) /\ Kept(proc.i - 1) /\ proc.faults = 0
        /\ \A f \in proc.existed : proc.before[f] # 0
    BY <1>5, ListFacts DEF Backup, At, InStage, Upgrading, File
  <2>2. First(proc.i) = First(proc.i - 1) \cup {File} /\ File \notin First(proc.i - 1)
    BY <2>1, ListFacts DEF File
  <2>3. inplace[File] = proc.before[File]
    BY <2>1, <2>2 DEF Replaced
  <2>4. First(proc.i) \subseteq Files /\ First(proc.i - 1) \subseteq Files
    BY <2>1, <1>0, ListFacts
  <2>5. CASE /\ inplace[File] # 0 /\ backup' = [backup EXCEPT ![File] = inplace[File]]
             /\ Is("copy", proc.i, proc.was, proc.existed \cup {File}, proc.faults)
    <3>1. \A f \in proc'.existed : proc'.before[f] # 0
      BY <2>1, <2>3, <2>5 DEF Is
    <3>2. Replaced(proc.i - 1)'
      BY <2>1, <2>5 DEF Replaced, Is
    <3>3. \A f \in First(proc.i) : proc.before[f] # 0 =>
            f \in proc.existed \cup {File} /\ backup'[f] = proc.before[f]
      BY <1>0, <2>1, <2>2, <2>3, <2>4, <2>5 DEF Kept
    <3>4. Kept(proc.i)'
      BY <2>5, <3>3 DEF Kept, Is
    <3> QED
      BY <2>1, <2>5, <3>1, <3>2, <3>4 DEF Upgrading, Is
  <2>6. CASE inplace[File] = 0 /\ Goes("copy") /\ UNCHANGED backup
    BY <2>1, <2>2, <2>3, <2>6, Fields DEF Upgrading, Replaced, Kept, Is, Is3
  <2>7. CASE Is3("undo", proc.i - 1, proc.faults + 1) /\ UNCHANGED backup
    BY <2>1, <2>4, <2>7 DEF Upgrading, Replaced, Kept, Undone, Is, Is3
  <2> QED
    BY <1>5, <2>5, <2>6, <2>7, ActionFields
<1>6. CASE proc.op = "upgrade" /\ UpgradeCopies
  <2>1. /\ proc.at = "copy" /\ proc.i \in 1 .. Last /\ File \in Files /\ UNCHANGED backup
        /\ Replaced(proc.i - 1) /\ Kept(proc.i) /\ proc.faults = 0 /\ proc.src = 2
        /\ \A f \in proc.existed : proc.before[f] # 0
    BY <1>6, ListFacts DEF UpgradeCopies, At, InStage, Upgrading, File
  <2>2. First(proc.i) = First(proc.i - 1) \cup {File}
    BY <2>1, ListFacts DEF File
  <2>3. ASSUME inplace' = [inplace EXCEPT ![File] = proc.src], proc'.before = proc.before
        PROVE  \A f \in Files : inplace'[f] = IF f \in First(proc.i) THEN 2 ELSE proc'.before[f]
    BY <1>0, <2>1, <2>2, <2>3 DEF Replaced
  <2>4. CASE inplace' = [inplace EXCEPT ![File] = proc.src] /\ Is3("backup", proc.i + 1, proc.faults)
    <3>1. proc'.i - 1 = proc.i
      BY <1>0, <2>4 DEF Is, Is3
    <3>2. Replaced(proc.i - 1)' /\ Kept(proc.i - 1)'
      BY <2>1, <2>3, <2>4, <3>1 DEF Replaced, Kept, Is, Is3
    <3> QED
      BY <2>1, <2>4, <3>2 DEF Upgrading, Is, Is3
  <2>5. CASE /\ inplace' = [inplace EXCEPT ![File] = proc.src]
             /\ ~(proc.i < Last) /\ Is3("autorun", proc.i, proc.faults)
    <3>1. proc.i = Last
      BY <1>0, <2>1, <2>5
    <3>2. Replaced(Last)' /\ Kept(Last)'
      BY <2>1, <2>3, <2>5, <3>1 DEF Replaced, Kept, Is, Is3
    <3> QED
      BY <2>1, <2>5, <3>2 DEF Upgrading, Is, Is3
  <2>6. CASE FailsTo("undo") /\ UNCHANGED inplace
    BY <2>1, <2>2, <2>6, Fields DEF Upgrading, Replaced, Kept, Undone, Is, Is3
  <2> QED
    BY <1>6, <2>4, <2>5, <2>6, ActionFields
<1>7. CASE proc.op = "upgrade" /\ (UpgradeSetsRun \/ UpgradeStarts)
  <2>1. /\ proc.at \in {"autorun", "start"} /\ proc.i = Last /\ UNCHANGED <<inplace, backup>>
        /\ Replaced(Last) /\ Kept(Last) /\ proc.faults = 0 /\ \A f \in proc.existed : proc.before[f] # 0
    BY <1>7 DEF UpgradeSetsRun, UpgradeStarts, At, InStage, Upgrading, disk
  <2>2. CASE Goes("start") \/ Goes("clean")
    BY <2>1, <2>2, Fields DEF Upgrading, Replaced, Kept, Is, Is3
  <2>3. CASE FailsTo("undo")
    BY <2>1, <2>3, Fields DEF Upgrading, Replaced, Kept, Undone, Is, Is3
  <2> QED
    BY <1>7, <2>2, <2>3 DEF UpgradeSetsRun, UpgradeStarts
<1>8. CASE proc.op = "upgrade" /\ UndoRemoves
  <2>1. /\ proc.at = "undo" /\ proc.i \in 1 .. Last /\ File \in Files /\ UNCHANGED backup
        /\ proc.faults > 0 /\ (proc.faults <= 1 => Undone(proc.i) /\ Kept(proc.i))
        /\ \A f \in proc.existed : proc.before[f] # 0
    <3>1. proc.at = "undo" /\ proc.i \in 1 .. Last
      BY <1>0, <1>8 DEF UndoRemoves, At, InStage
    <3> QED
      BY <1>8, <3>1, ListFacts DEF UndoRemoves, Upgrading, File
  <2>2. CASE Goes("restore") /\ inplace' = [inplace EXCEPT ![File] = 0]
    <3>1. Is3("restore", proc.i, proc.faults) /\ File' = File
      BY <2>2, Fields DEF Is, Is3, File
    <3>2. inplace'[File] = 0 /\ \A f \in Files : f = File \/ inplace'[f] = inplace[f]
      BY <1>0, <2>1, <2>2
    <3> QED
      BY <2>1, <3>1, <3>2 DEF Upgrading, Kept, Undone, Is, Is3
  <2>3. CASE FailsTo("restore")
    BY <1>0, <2>1, <2>3, Fields DEF Upgrading, Is, Is3
  <2> QED
    BY <1>8, <2>2, <2>3 DEF UndoRemoves
<1>9. CASE proc.op = "upgrade" /\ UndoRestores
  <2>1. /\ proc.at = "restore" /\ proc.i \in 1 .. Last /\ File \in Files
        /\ backup' = [backup EXCEPT ![File] = 0] /\ proc.faults > 0
        /\ \A f \in proc.existed : proc.before[f] # 0
    <3>1. /\ proc.at = "restore" /\ proc.i \in 1 .. Last
          /\ backup' = [backup EXCEPT ![File] = 0]
      BY <1>9 DEF UndoRestores, At, InStage
    <3>2. File \in Files
      BY <3>1, ListFacts DEF File
    <3>3. proc.faults > 0 /\ \A f \in proc.existed : proc.before[f] # 0
      BY <1>9, <3>1 DEF Upgrading
    <3> QED
      BY <3>1, <3>2, <3>3
  <2>2. First(proc.i) = First(proc.i - 1) \cup {File} /\ File \notin First(proc.i - 1)
    BY <2>1, ListFacts DEF File
  <2>3. First(proc.i - 1) \subseteq Files
    BY <1>0, <2>1, ListFacts
  <2>4. ASSUME proc.faults <= 1
        PROVE  /\ inplace[File] = 0 /\ Kept(proc.i)
               /\ \A f \in Files : f = File \/ inplace[f] = proc.before[f] \/ (f \in First(proc.i) /\ inplace[f] = 2)
    BY <1>9, <2>1, <2>4 DEF Upgrading
  <2>5. CASE CopiesBack /\ Is3("undo", proc.i - 1, proc.faults)
    <3>1. ASSUME proc.faults <= 1 PROVE Undone(proc.i)'
      <4>1. inplace'[File] = proc.before[File]
        BY <1>0, <2>1, <2>2, <2>4, <2>5, <3>1 DEF CopiesBack, Kept
      <4>2. \A f \in Files : f # File => inplace'[f] = inplace[f]
        BY <1>0, <2>5 DEF CopiesBack
      <4>3. \A f \in Files : inplace'[f] = proc.before[f] \/ (f \in First(proc.i - 1) /\ inplace'[f] = 2)
        BY <2>1, <2>2, <2>4, <3>1, <4>1, <4>2
      <4> QED
        BY <2>5, <4>3 DEF Undone, Is, Is3
    <3>2. ASSUME proc.faults <= 1 PROVE Kept(proc.i)'
      <4>1. \A f \in First(proc.i - 1) : backup'[f] = backup[f]
        BY <1>0, <2>1, <2>2, <2>3
      <4> QED
        BY <2>1, <2>2, <2>4, <2>5, <3>2, <4>1 DEF Kept, Is, Is3
    <3> QED
      BY <2>1, <2>5, <3>1, <3>2 DEF Upgrading, Is, Is3
  <2>6. CASE Is3("undo", proc.i - 1, proc.faults + 1)
    BY <1>0, <2>1, <2>6 DEF Upgrading, Is, Is3
  <2> QED
    BY <1>9, <2>5, <2>6, ActionFields
<1> QED
  BY NotUpgrading, <1>1, <1>2, <1>3, <1>4, <1>5, <1>6, <1>7, <1>8, <1>9

LEMMA SpoiltStays == [Next]_vars => (spoilt => spoilt')
BY DEF Next, vars, history, Begins, Goes, Ends, FailsTo, FailsAgain, NotStarted, Initialize, Pair, SavesLate, ConfigSpoils,
     ServiceStops, ServiceFails, SetupIsKilled, Reboot, InstallBegins, InstallCopies,
     InstallService, InstallSetsRun, InstallUndo, UpgradeBegins, RepairBegins, StopService,
     WaitForStop, Backup, UpgradeCopies, UpgradeSetsRun, UpgradeStarts, UpgradeEnds, UndoRemoves,
     UndoRestores, UndoEnds, RepairCopies, RepairRegisters, RepairEnds, EnableBegins,
     EnableCopies, EnableRegisters, Disable, Recover, UninstallBegins, UninstallUnregisters, UninstallStops,
     UninstallForgets, UninstallEnds

LEMMA FailedAgain == \A first : FailsAgain(first) /\ ~first => spoilt'
BY DEF FailsAgain

LEMMA SpoilingStep == Typed /\ InStage /\ Upgrading /\ Spoiling /\ [Next]_vars => Spoiling'
<1> SUFFICES ASSUME Typed, InStage, Upgrading, Spoiling, [Next]_vars PROVE Spoiling'
  OBVIOUS
<1>0. proc.faults \in Nat
  BY DEF Typed, Procs
<1>1. CASE proc'.op # "upgrade"
  BY <1>1 DEF Spoiling
<1>2. CASE UNCHANGED proc \/ (proc'.op = proc.op /\ proc'.faults = proc.faults)
  BY <1>2, SpoiltStays DEF Spoiling
<1>3. CASE UpgradeBegins
  BY <1>3, BeginFields DEF UpgradeBegins, Spoiling
<1>4. ASSUME NEW at, FailsTo(at), proc.op = "upgrade" PROVE Spoiling'
  <2>1. proc.faults > 0 => spoilt'
    <3>1. FailsAgain(proc.op # "upgrade" \/ proc.faults = 0)
      BY <1>4 DEF FailsTo
    <3>2. proc.faults > 0 => ~(proc.op # "upgrade" \/ proc.faults = 0)
      BY <1>0, <1>4
    <3> QED
      BY <3>1, <3>2, FailedAgain
  <2>2. proc'.faults = proc.faults + 1
    BY <1>4, Fields DEF Is, Is3
  <2> QED
    BY <1>0, <2>1, <2>2 DEF Spoiling
<1>5. CASE proc.op = "upgrade" /\ (StopService \/ WaitForStop)
  BY <1>1, <1>2, <1>5, Fields, ActionFields, EndFields DEF WaitForStop, Is, Is3
<1>6. CASE proc.op = "upgrade" /\ Backup
  <2>1. proc.faults = 0
    BY <1>6 DEF Backup, At, Upgrading
  <2> QED
    BY <1>0, <1>2, <1>6, <2>1, Fields, ActionFields DEF Spoiling, Is, Is3
<1>7. CASE proc.op = "upgrade" /\ (UpgradeCopies \/ UndoRestores)
  <2>1. ASSUME Is3("undo", proc.i - 1, proc.faults + 1), FailsAgain(proc.faults = 0) PROVE Spoiling'
    <3>1. proc.faults > 0 => spoilt'
      <4>1. proc.faults > 0 => ~(proc.faults = 0)
        BY <1>0
      <4> QED
        BY <2>1, <4>1, FailedAgain
    <3>2. proc'.faults = proc.faults + 1
      BY <2>1 DEF Is, Is3
    <3> QED
      BY <1>0, <3>1, <3>2 DEF Spoiling
  <2> QED
    BY <1>2, <1>4, <1>7, <2>1, ActionFields DEF Is, Is3
<1>8. CASE proc.op = "upgrade" /\ (UpgradeSetsRun \/ UpgradeStarts \/ UndoRemoves)
  BY <1>2, <1>4, <1>8, Fields DEF UpgradeSetsRun, UpgradeStarts, UndoRemoves, Is, Is3
<1> QED
  BY NotUpgrading, <1>1, <1>2, <1>3, <1>5, <1>6, <1>7, <1>8

-----------------------------------------------------------------------------
(* The service and its program                                             *)

LEMMA DeletingStep == Deleting /\ [Next]_vars => Deleting'
BY Controlling DEF Deleting, scm, ServiceStops, ServiceFails, Reboot, InstallService, InstallUndo, StopService,
   UpgradeStarts, UndoEnds, RepairEnds, Recover, UninstallStops, AfterStop, AfterStart, StopAndDelete,
   NotStarted, AfterUndo

(* After it has been removed the service is gone, to go, or left behind.    *)
LEMMA Removed == Typed /\ StopAndDelete => service' = "absent" \/ marked' \/ "service" \in undeleted'
<1> SUFFICES ASSUME Typed, StopAndDelete PROVE service' = "absent" \/ marked' \/ "service" \in undeleted'
  OBVIOUS
<1>1. CASE service' = (IF service = "stopped" THEN "absent" ELSE AfterStop) /\ marked' = (service \in {"running", "stopping"})
  BY <1>1 DEF AfterStop, Typed
<1>2. CASE UNCHANGED marked /\ undeleted' = IF marked THEN undeleted ELSE undeleted \cup {"service"}
  BY <1>2
<1>3. CASE marked' = TRUE
  BY <1>3
<1> QED
  BY <1>1, <1>2, <1>3 DEF StopAndDelete

LEMMA InstalledStep == Typed /\ InStage /\ Installed /\ [Next]_vars => Installed'
<1> SUFFICES ASSUME Typed, InStage, Installed, [Next]_vars PROVE Installed'
  OBVIOUS
<1>0. /\ proc.i \in Int /\ inplace \in [Files -> Releases] /\ Len(InstallFiles) \in Nat \ {0}
      /\ DOMAIN InstallFiles = 1 .. Len(InstallFiles)
  BY FilesAreListed DEF Typed, Procs, Disk
<1>1. CASE proc'.op # "install"
  BY <1>1 DEF Installed
<1>2. CASE UNCHANGED <<disk, proc>>
  BY <1>2 DEF Installed, disk
<1>3. CASE InstallBegins
  BY <1>0, <1>3, BeginFields DEF InstallBegins, Installed
<1>4. CASE proc.op = "install" /\ InstallCopies
  <2>1. /\ proc.at = "copy" /\ proc.src = 1 /\ proc.i \in 1 .. Len(InstallFiles)
        /\ \A j \in 1 .. proc.i - 1 : inplace[InstallFiles[j]] # 0
    BY <1>4 DEF InstallCopies, At, InStage, Installed
  <2>2. CASE FailsTo("undo")
    BY <2>2, Fields DEF Installed, Is, Is3
  <2>3. CASE inplace' = [inplace EXCEPT ![InstallFiles[proc.i]] = proc.src]
    <3>1. \A j \in 1 .. proc.i : InstallFiles[j] \in Files
      BY <1>0, <2>1 DEF Files
    <3>2. ASSUME NEW j \in 1 .. proc.i PROVE inplace'[InstallFiles[j]] # 0
      <4>1. j \in 1 .. proc.i - 1 \/ j = proc.i
        BY <2>1
      <4>2. InstallFiles[proc.i] \in Files /\ InstallFiles[j] \in Files
        BY <2>1, <3>1
      <4> QED
        BY <1>0, <2>1, <2>3, <4>1, <4>2
    <3>3. CASE proc.i < Len(InstallFiles) /\ Is3("copy", proc.i + 1, proc.faults)
      BY <2>1, <3>2, <3>3 DEF Installed, Is, Is3
    <3>4. CASE ~(proc.i < Len(InstallFiles)) /\ Is3("service", proc.i, proc.faults)
      <4>1. \A f \in Files : inplace'[f] # 0
        BY <1>0, <2>1, <3>2, <3>4 DEF Files
      <4> QED
        BY <3>4, <4>1 DEF Installed, Is, Is3
    <3> QED
      BY <1>4, <2>2, <3>3, <3>4, ActionFields
  <2> QED
    BY <1>4, <2>2, <2>3 DEF InstallCopies
<1>5. CASE proc.op = "install" /\ (InstallService \/ InstallSetsRun)
  <2>1. CASE \E at \in {"autorun", "undo"} : Is3(at, proc.i, proc'.faults)
    BY <1>5, <2>1 DEF InstallService, InstallSetsRun, At, Installed, disk, Is, Is3
  <2> QED
    BY <1>1, <1>5, <2>1, Fields, EndFields DEF InstallService, InstallSetsRun, Is, Is3
<1> QED
  BY GoesOn, BesideKeeps, BeginFields, <1>1, <1>2, <1>3, <1>4, <1>5
  DEF UpgradeBegins, RepairBegins, EnableBegins, UninstallBegins, Idle

LEMMA WaitingStep ==
  Typed /\ InStage /\ Upgrading /\ Deleting /\ Serving /\ Waiting /\ [Next]_vars => Waiting'
<1> SUFFICES ASSUME Typed, InStage, Upgrading, Deleting, Serving, Waiting, [Next]_vars PROVE Waiting'
  OBVIOUS
<1>1. CASE proc'.op \in {"none", "install", "enable"} \/ proc'.at = "stop"
  BY <1>1 DEF Waiting
<1>2. CASE Beside
  <2>1. UNCHANGED <<proc, spoilt>>
    BY <1>2, BesideKeeps
  <2>0. "service" \in undeleted' <=> "service" \in undeleted
    BY <1>2, BesideKeeps
  <2>2. CASE UNCHANGED scm /\ (config' = config \/ config' # "good")
    BY <2>0, <2>1, <2>2 DEF Waiting, scm
  <2>3. CASE ServiceStops
    BY <2>0, <2>1, <2>3 DEF ServiceStops, Waiting, Deleting, data
  <2>4. CASE ServiceFails
    BY <2>0, <2>1, <2>4 DEF ServiceFails, Waiting, Deleting, data
  <2>5. CASE proc = Idle
    BY <2>1, <2>5 DEF Waiting, Idle
  <2>6. CASE SavesLate
    BY <2>0, <2>1, <2>6 DEF SavesLate, Waiting, Deleting, scm
  <2> QED
    BY <1>2, <2>2, <2>3, <2>4, <2>5, <2>6 DEF Beside, vars, Initialize, Pair, ConfigSpoils, Disable, Recover, data
<1>3. CASE proc'.op = proc.op /\ (StopService \/ WaitForStop) /\ proc.op \in {"upgrade", "repair"}
  <2>1. CASE service' \in {"stopped", "absent"} /\ proc'.at \in {"copy", "backup"}
    BY <1>3, <2>1 DEF Waiting
  <2>2. CASE Goes(IF proc.op = "repair" THEN "copy" ELSE "backup") /\ service \in {"stopped", "absent"} /\ UNCHANGED scm
    BY <2>1, <2>2, Fields DEF Is, Is3, scm
  <2> QED
    BY <1>1, <1>3, <2>1, <2>2, ActionFields, EndFields DEF WaitForStop, Is
<1>4. CASE /\ proc.op = "upgrade" /\ proc'.op = proc.op
           /\ Backup \/ UpgradeCopies \/ UpgradeSetsRun \/ UndoRemoves \/ UndoRestores
  <2>1. proc.at \notin {"stop", "clean"} /\ UNCHANGED scm
    BY <1>4 DEF Backup, UpgradeCopies, UpgradeSetsRun, UndoRemoves, UndoRestores, At, scm
  <2>2. proc'.at # "clean"
    BY <1>4, Fields, ActionFields DEF UpgradeSetsRun, UndoRemoves, Is, Is3
  <2> QED
    BY <1>4, <2>1, <2>2 DEF Waiting, scm
<1>5. CASE proc.op = "upgrade" /\ proc'.op = proc.op /\ UpgradeStarts
  <2>1. /\ proc.at = "start" /\ service \in {"stopped", "absent"} /\ proc.i = Last /\ Replaced(Last)
        /\ UNCHANGED <<marked, config>> /\ ~marked
    BY <1>5 DEF UpgradeStarts, At, InStage, Upgrading, Waiting, Deleting, data
  <2>2. ServiceFile \in Files
    BY FilesAreInstalled
  <2>3. ~spoilt /\ service # "absent" /\ "service" \notin undeleted => inplace[ServiceFile] # 0
    BY <1>5, <2>1, <2>2 DEF Serving, Replaced
  <2>4. CASE Goes("clean") /\ service' = IF proc.was THEN AfterStart ELSE service
    <3>1. UNCHANGED <<spoilt, undeleted>> /\ proc'.at = "clean" /\ proc'.was = proc.was
      BY <2>4, Fields DEF Goes, history, Is, Is3
    <3>2. /\ proc.was /\ ~spoilt /\ service' # "absent" /\ "service" \notin undeleted => service' = "running"
          /\ service' # "stopping"
      BY <2>1, <2>3, <2>4 DEF AfterStart
    <3> QED
      BY <1>5, <2>1, <3>1, <3>2 DEF Waiting
  <2>5. CASE FailsTo("undo") /\ UNCHANGED service
    BY <1>5, <2>1, <2>5, Fields DEF Waiting, Is, Is3
  <2> QED
    BY <1>5, <2>4, <2>5 DEF UpgradeStarts
<1>6. CASE proc.op = "repair" /\ proc'.op = proc.op /\ (RepairCopies \/ RepairRegisters)
  BY <1>6 DEF RepairCopies, RepairRegisters, At, Waiting, scm
<1>7. CASE proc.op = "uninstall" /\ proc'.op = proc.op /\ UninstallStops
  <2>1. service' = "absent" \/ marked' \/ "service" \in undeleted'
    BY <1>7, Removed DEF UninstallStops
  <2> QED
    BY <1>7, <2>1 DEF Waiting
<1>8. CASE proc.op = "uninstall" /\ proc'.op = proc.op /\ UninstallForgets
  BY <1>8 DEF UninstallForgets, At, Waiting, scm
<1>9. CASE UninstallUnregisters
  BY <1>9, Fields DEF UninstallUnregisters, At, Waiting, Is, Is3
<1>10. CASE UninstallBegins
  BY <1>10, BeginFields DEF UninstallBegins, Waiting
<1> QED
  BY GoesOn, BeginFields, <1>1, <1>2, <1>3, <1>4, <1>5, <1>6, <1>7, <1>8, <1>9, <1>10
  DEF InstallBegins, UpgradeBegins, RepairBegins, EnableBegins, UninstallBegins, Idle

LEMMA ServingStep ==
  ASSUME Typed, InStage, Upgrading, Spoiling, Deleting, Installed, Waiting, Serving, [Next]_vars
  PROVE  Serving'
<1>0. /\ ServiceFile \in Files /\ inplace \in [Files -> Releases] /\ proc.src \in Releases
      /\ First(0) = {} /\ proc.faults \in Nat
  BY FilesAreInstalled, ListFacts DEF Typed, Procs, Disk
<1> DEFINE Awaited == service # "absent" /\ ~marked /\ ~spoilt /\ "service" \notin undeleted
           Has == IF proc.op = "upgrade" THEN proc.before[ServiceFile] # 0 ELSE inplace[ServiceFile] # 0
<1>1. ASSUME Awaited' => Awaited, Awaited /\ Has => Has' PROVE Serving'
  BY <1>1 DEF Serving
<1>2. CASE Awaited' => FALSE
  BY <1>2 DEF Serving
<1> HIDE DEF Awaited, Has
<1>3. CASE Beside
  BY <1>1, <1>3, BesideKeeps
  DEF Beside, vars, scm, Initialize, Pair, SavesLate, ConfigSpoils, ServiceStops, ServiceFails, Disable, Recover,
      AfterStop, Awaited, Has, disk
<1>4. CASE SetupIsKilled
  <2>1. UNCHANGED <<scm, disk, undeleted>> /\ (spoilt \/ proc.op = "upgrade" => spoilt') /\ proc'.op = "none"
    BY <1>4 DEF SetupIsKilled, Idle
  <2> QED
    BY <1>1, <1>2, <2>1 DEF scm, disk, Awaited, Has
<1>5. CASE Reboot
  <2>1. CASE \/ proc.op = "upgrade" \/ marked \/ service = "absent" \/ spoilt \/ ServiceFile \in doomed
             \/ "service" \in undeleted
    BY <1>2, <1>5, <2>1 DEF Reboot, Awaited
  <2>2. CASE ~ (\/ proc.op = "upgrade" \/ marked \/ service = "absent" \/ spoilt \/ ServiceFile \in doomed
                \/ "service" \in undeleted)
    <3>1. Awaited
      BY <2>2 DEF Awaited
    <3>2. proc'.op = "none" /\ inplace'[ServiceFile] = inplace[ServiceFile]
      BY <1>0, <1>5, <2>2 DEF Reboot, Idle
    <3> QED
      BY <1>1, <2>2, <3>1, <3>2 DEF Has
  <2> QED
    BY <2>1, <2>2
<1>6. CASE InstallBegins \/ RepairBegins \/ EnableBegins \/ UninstallBegins \/ UpgradeBegins
  <2>1. UNCHANGED <<disk, scm, spoilt, undeleted>> /\ proc = Idle
    BY <1>6, BeginFields DEF InstallBegins, RepairBegins, EnableBegins, UninstallBegins, UpgradeBegins, Begins
  <2>2. proc'.op = "upgrade" => proc'.before = inplace
    BY <1>6, BeginFields DEF InstallBegins, RepairBegins, EnableBegins, UninstallBegins, UpgradeBegins
  <2> QED
    BY <1>1, <2>1, <2>2 DEF Idle, scm, disk, Awaited, Has
<1>7. CASE InstallCopies \/ RepairCopies
  <2>0. UNCHANGED undeleted
    BY <1>7 DEF InstallCopies, RepairCopies, FailsTo, FailsAgain, history
  <2>1. UNCHANGED scm /\ proc.op # "upgrade" /\ proc'.op = proc.op
    BY <1>7, Fields, ActionFields DEF InstallCopies, RepairCopies, At, Is, Is3
  <2>2. inplace[ServiceFile] # 0 => inplace'[ServiceFile] # 0
    BY <1>0, <1>7 DEF InstallCopies, RepairCopies, At, InStage
  <2> QED
    BY <1>1, <2>0, <2>1, <2>2, SpoiltStays DEF scm, Awaited, Has
<1>8. CASE InstallService
  <2>1. inplace[ServiceFile] # 0 /\ UNCHANGED inplace
    BY <1>0, <1>8 DEF InstallService, At, Installed, disk
  <2>2. proc'.op # "upgrade"
    BY <1>8, Fields DEF InstallService, At, Is, Is3
  <2> QED
    BY <2>1, <2>2 DEF Serving
<1>9. CASE \/ InstallSetsRun \/ RepairRegisters \/ EnableCopies \/ EnableRegisters
           \/ UninstallUnregisters \/ UninstallForgets
  <2>1. UNCHANGED <<scm, disk>> /\ proc.op # "upgrade"
    BY <1>9 DEF InstallSetsRun, RepairRegisters, EnableCopies, EnableRegisters, UninstallUnregisters,
       UninstallForgets, At
  <2>3. "service" \in undeleted' <=> "service" \in undeleted
    BY <1>9 DEF InstallSetsRun, RepairRegisters, EnableCopies, EnableRegisters, UninstallUnregisters,
       UninstallForgets, UnregisterProvider, Unregister, FailsTo, FailsAgain, Goes, Ends, history
  <2>2. proc'.op # "upgrade"
    <3>1. CASE InstallSetsRun \/ RepairRegisters \/ EnableCopies
      BY <2>1, <3>1, Fields, EndFields DEF InstallSetsRun, RepairRegisters, EnableCopies, Is, Is3
    <3>2. CASE EnableRegisters
      BY <3>2 DEF EnableRegisters, Idle
    <3>3. CASE UninstallUnregisters \/ UninstallForgets
      BY <2>1, <3>3, Fields, ActionFields DEF UninstallUnregisters, Is, Is3
    <3> QED
      BY <1>9, <3>1, <3>2, <3>3
  <2> QED
    BY <1>1, <2>1, <2>2, <2>3, SpoiltStays DEF scm, disk, Awaited, Has
<1>10. CASE InstallUndo \/ UninstallStops
  BY <1>2, <1>10, Removed DEF InstallUndo, UninstallStops, Awaited
<1>11. CASE StopService \/ WaitForStop
  <2>1. UNCHANGED <<disk, marked, spoilt, undeleted>> /\ (service' = service \/ service = "running") /\ proc.at = "stop"
    BY <1>11 DEF StopService, WaitForStop, scm, Ends, Goes, history
  <2>2. CASE proc'.op = proc.op /\ proc'.before = proc.before
    BY <1>1, <2>1, <2>2 DEF Awaited, Has, disk
  <2>3. CASE proc'.op = "none"
    <3>1. proc.op = "upgrade" => inplace[ServiceFile] = proc.before[ServiceFile]
      BY <1>0, <2>1 DEF Upgrading, Replaced
    <3> QED
      BY <1>1, <2>1, <2>3, <3>1 DEF Awaited, Has, disk
  <2> QED
    BY <1>11, <2>2, <2>3, Fields, ActionFields, EndFields DEF WaitForStop, Is, Is3
<1>12. CASE Backup \/ UpgradeCopies \/ UpgradeSetsRun \/ UpgradeStarts \/ UndoRemoves \/ UndoRestores
  <2>1. proc.op = "upgrade" /\ UNCHANGED marked /\ (service' = service \/ service = "stopped")
    BY <1>12 DEF Backup, UpgradeCopies, UpgradeSetsRun, UpgradeStarts, UndoRemoves, UndoRestores, At, scm, AfterStart
  <2>3. UNCHANGED undeleted
    BY <1>12 DEF Backup, UpgradeCopies, UpgradeSetsRun, UpgradeStarts, UndoRemoves, UndoRestores, Goes, FailsTo,
       FailsAgain, history
  <2>2. proc'.op = proc.op /\ proc'.before = proc.before
    BY <1>12, Fields, ActionFields DEF UpgradeSetsRun, UpgradeStarts, UndoRemoves, Is, Is3
  <2> QED
    BY <1>1, <2>1, <2>2, <2>3, SpoiltStays DEF Awaited, Has
<1>13. CASE UpgradeEnds
  BY <1>0, <1>1, <1>13, EndFields DEF UpgradeEnds, Ends, history, At, Upgrading, Replaced, scm, Awaited, Has
<1>14. CASE UndoEnds
  <2>1. CASE spoilt \/ NotStarted
    BY <1>2, <2>1, SpoiltStays DEF NotStarted, FailsAgain, Awaited
  <2>2. CASE ~spoilt /\ Ends
    <3>1. inplace[ServiceFile] = proc.before[ServiceFile] /\ proc.op = "upgrade"
      BY <1>0, <1>14, <2>2 DEF UndoEnds, At, Spoiling, Upgrading, Undone
    <3>2. UNCHANGED <<disk, marked>> /\ (service' = "absent" <=> service = "absent")
      BY <1>14, <2>2 DEF UndoEnds, AfterUndo, AfterStart, NotStarted
    <3>3. Has => Has'
      BY <2>2, <3>1, <3>2, EndFields DEF disk, Has
    <3>4. Awaited' => Awaited
      BY <2>2, <3>2 DEF Awaited, Ends, history
    <3> QED
      BY <1>1, <3>3, <3>4
  <2> QED
    BY <1>14, <2>1, <2>2 DEF UndoEnds
<1>15. CASE RepairEnds
  <2>1. CASE NotStarted
    BY <1>2, <2>1 DEF NotStarted, FailsAgain, Awaited
  <2> QED
    BY <1>1, <1>15, <2>1, EndFields DEF RepairEnds, Ends, history, At, AfterStart, disk, Awaited, Has
<1>16. CASE UninstallEnds
  BY <1>2, <1>16 DEF UninstallEnds, At, Waiting, scm, Awaited
<1> QED
  BY <1>3, <1>4, <1>5, <1>6, <1>7, <1>8, <1>9, <1>10, <1>11, <1>12, <1>13, <1>14, <1>15, <1>16 DEF Next, Beside

LEMMA ClearingStep == Typed /\ InStage /\ Clearing /\ UninstallClears /\ [Next]_vars => Clearing'
<1> SUFFICES ASSUME Typed, InStage, Clearing, UninstallClears, [Next]_vars PROVE Clearing'
  OBVIOUS
<1>0. proc.faults \in Nat
  BY PlaceTyped
<1>1. CASE Beside
  <2>1. UNCHANGED proc /\ ("service" \in undeleted' <=> "service" \in undeleted) /\ after' \in {after, "no"}
    BY <1>1, BesideKeeps DEF Beside, vars, history, Initialize, Pair, SavesLate, ConfigSpoils, ServiceStops,
       ServiceFails, Disable, Recover
  <2>2. CASE proc = Idle
    BY <2>1, <2>2 DEF Clearing, Idle
  <2>3. CASE UNCHANGED provider
    BY <2>1, <2>3 DEF Clearing, provider
  <2> QED
    BY <1>1, <2>2, <2>3
    DEF Beside, vars, Initialize, Pair, SavesLate, ConfigSpoils, ServiceStops, ServiceFails, Disable, Recover
<1>2. CASE proc' = Idle
  BY <1>2 DEF Clearing, Idle
<1>3. CASE InstallBegins \/ UpgradeBegins \/ RepairBegins \/ EnableBegins \/ UninstallBegins
  <2>1. CASE InstallBegins \/ UpgradeBegins \/ RepairBegins \/ EnableBegins
    <3>1. after' = "no"
      BY <2>1 DEF InstallBegins, UpgradeBegins, RepairBegins, EnableBegins, Begins
    <3>2. proc'.op # "uninstall"
      BY <2>1, BeginFields DEF InstallBegins, UpgradeBegins, RepairBegins, EnableBegins
    <3> QED
      BY <3>1, <3>2 DEF Clearing
  <2>2. CASE UninstallBegins
    BY <2>2, BeginFields DEF UninstallBegins, Clearing
  <2> QED
    BY <1>3, <2>1, <2>2
<1>4. CASE proc'.op = proc.op /\ proc.op # "uninstall" /\ after' = after
  BY <1>4 DEF Clearing
<1>5. CASE proc'.op = proc.op /\ proc.op = "install" /\ (InstallCopies \/ InstallService \/ InstallSetsRun)
  BY <1>4, <1>5, <1>2 DEF InstallCopies, InstallService, InstallSetsRun, Goes, Ends, FailsTo, FailsAgain, history
<1>6. CASE /\ proc'.op = proc.op /\ proc.op \in {"upgrade", "repair", "enable"}
           /\ \/ StopService \/ WaitForStop \/ Backup \/ UpgradeCopies \/ UpgradeSetsRun \/ UpgradeStarts
              \/ UndoRemoves \/ UndoRestores \/ RepairCopies \/ RepairRegisters \/ EnableCopies
  BY <1>4, <1>6, <1>2
  DEF StopService, WaitForStop, Backup, UpgradeCopies, UpgradeSetsRun, UpgradeStarts, UndoRemoves, UndoRestores,
      RepairCopies, RepairRegisters, EnableCopies, Goes, Ends, FailsTo, FailsAgain, history
<1>7. CASE UninstallUnregisters
  <2>1. proc.op = "uninstall" /\ Is3("stop", proc.i, proc'.faults)
    BY <1>7, Fields DEF UninstallUnregisters, At, Is, Is3
  <2>2. proc'.faults = 0 => (system32' => "System32" \in doomed')
    <3>1. proc'.faults = IF "provider" \in undeleted' \/ (system32' /\ "System32" \notin doomed') THEN 1
                         ELSE proc.faults
      BY <1>7, Fields DEF UninstallUnregisters, Is, Is3
    <3> QED
      BY <3>1
  <2> QED
    BY <2>1, <2>2 DEF Clearing, Is, Is3
<1>8. CASE UninstallStops
  <2>1. proc.op = "uninstall" /\ proc.at = "stop" /\ Is3("forget", proc.i, proc'.faults) /\ UNCHANGED provider
    BY <1>8, Fields DEF UninstallStops, At, Is, Is3
  <2>2. proc'.faults = 0 => proc.faults = 0 /\ "service" \notin undeleted'
    <3>1. proc'.faults = IF service' = "running" \/ "service" \in undeleted' THEN 1 ELSE proc.faults
      BY <1>8, Fields DEF UninstallStops, Is, Is3
    <3> QED
      BY <3>1
  <2> QED
    BY <2>1, <2>2 DEF Clearing, provider, Is, Is3
<1>9. CASE UninstallForgets
  <2>1. /\ proc.op = "uninstall" /\ proc.at = "forget" /\ UNCHANGED <<provider, undeleted>>
        /\ Is("remove", proc.i, config = "good", proc.existed, proc'.faults)
    BY <1>9, ActionFields DEF UninstallForgets, At
  <2>2. proc'.faults = 0 => proc.faults = 0
    BY <1>0, <1>9 DEF UninstallForgets, Typed, Procs
  <2> QED
    BY <2>1, <2>2 DEF Clearing, provider, Is
<1> QED
  BY GoesOn, <1>1, <1>2, <1>3, <1>5, <1>6, <1>7, <1>8, <1>9

(* What an uninstallation leaves stays as it is until something is         *)
(* initialized or begun again. *)
LEMMA ClearsStep ==
  ASSUME Typed, InStage, Deleting, Waiting, Clearing, UninstallClears, [Next]_vars
  PROVE  UninstallClears'
<1>0. inplace \in [Files -> Releases] /\ inplace' \in [Files -> Releases] /\ proc.faults \in Nat
  BY DiskTypedStep, PlaceTyped DEF Typed, Disk
<1>1. CASE after' = "no"
  BY <1>1 DEF UninstallClears
<1>2. ASSUME after' = after, after # "no",
             secrets' \subseteq secrets, autorun' => autorun, config' = config,
             service = "absent" \/ marked => service' = "absent" \/ marked',
             service = "absent" => service' = "absent",
             system32' => system32, doomed \subseteq doomed',
             backup = Nothing => backup' = Nothing,
             \A f \in Files : inplace[f] = 0 => inplace'[f] = 0
      PROVE  UninstallClears'
  <2>1. inplace = Nothing => inplace' = Nothing
    BY <1>0, <1>2 DEF Nothing
  <2> QED
    BY <1>2, <2>1 DEF UninstallClears
<1>3. ASSUME after # "no" PROVE /\ config = "absent" /\ ~autorun /\ secrets \subseteq {"orphan"}
                                /\ service = "absent" \/ marked
                                /\ proc.op \in {"none", "uninstall"}
  BY <1>3 DEF UninstallClears, Clearing
<1>4. CASE UNCHANGED vars
  BY <1>1, <1>2, <1>4 DEF vars, disk, provider, scm, data, history
<1>5. CASE Initialize \/ Pair \/ SavesLate \/ ConfigSpoils
  BY <1>1, <1>3, <1>5 DEF Initialize, Pair, SavesLate, ConfigSpoils, history, UninstallClears
<1>6. CASE ServiceStops \/ ServiceFails
  BY <1>1, <1>2, <1>3, <1>6
  DEF ServiceStops, ServiceFails, Deleting, disk, provider, data, history, UninstallClears
<1>7. CASE Disable \/ Recover
  BY <1>1, <1>2, <1>3, <1>7
  DEF Disable, Recover, UnregisterProvider, RemoveOrSchedule, AfterStop, disk, provider, scm, data
<1>8. CASE SetupIsKilled
  BY <1>1, <1>2, <1>8 DEF SetupIsKilled, disk, provider, scm, data
<1>9. CASE Reboot
  <2> SUFFICES ASSUME after # "no" PROVE UninstallClears'
    BY <1>1, <1>9 DEF Reboot
  <2>1. /\ UNCHANGED <<secrets, autorun, config, backup>> /\ service' = "absent"
        /\ after' = IF after = "ended" THEN "restarted" ELSE after
    BY <1>3, <1>9 DEF Reboot, data
  <2>2. ~system32'
    BY <1>9 DEF Reboot, UninstallClears
  <2>3. after \in {"ended", "restarted"} => backup = Nothing /\ \A f \in Files : inplace'[f] = 0
    BY <1>0, <1>9 DEF Reboot, UninstallClears
  <2>4. after \in {"ended", "restarted"} => inplace' = Nothing
    BY <1>0, <2>3 DEF Nothing
  <2> QED
    BY <1>3, <2>1, <2>2, <2>3, <2>4 DEF UninstallClears
<1>10. CASE InstallBegins \/ UpgradeBegins \/ RepairBegins \/ EnableBegins \/ UninstallBegins
  BY <1>1, <1>2, <1>10
  DEF InstallBegins, UpgradeBegins, RepairBegins, EnableBegins, UninstallBegins, Begins, disk, provider, scm, data
<1>11. CASE /\ proc.op \in {"install", "upgrade", "repair", "enable"}
            /\ after' = after
  BY <1>1, <1>3, <1>11
<1>12. CASE UninstallUnregisters
  BY <1>1, <1>2, <1>12 DEF UninstallUnregisters, UnregisterProvider, RemoveOrSchedule, disk, provider, scm, data
<1>13. CASE UninstallStops
  <2>1. service = "absent" \/ marked => service' = "absent" \/ marked'
    BY <1>13 DEF UninstallStops, StopAndDelete, AfterStop, Deleting
  <2>2. service = "absent" => service' = "absent"
    BY <1>13 DEF UninstallStops, StopAndDelete, AfterStop
  <2> QED
    BY <1>1, <1>2, <1>13, <2>1, <2>2 DEF UninstallStops, disk, provider, data
<1>14. CASE UninstallForgets
  <2>1. CASE config = "good" /\ proc'.faults = 0
    <3>1. proc.op = "uninstall" /\ proc.at = "forget" /\ after' = "cleared" /\ UNCHANGED <<provider, scm>>
      BY <1>14, <2>1 DEF UninstallForgets, At
    <3>2. proc.faults = 0 /\ secrets' \cap Named = {} /\ ~autorun' /\ config' = "absent"
      BY <1>0, <1>14, <2>1 DEF UninstallForgets, Typed, Procs
    <3>3. secrets' \subseteq {"orphan"}
      BY <1>14, <2>1, <3>2 DEF UninstallForgets, Named, Typed
    <3>4. (service = "absent" \/ marked) /\ (system32 => "System32" \in doomed)
      BY <3>1, <3>2 DEF Waiting, Clearing
    <3> QED
      BY <3>1, <3>2, <3>3, <3>4 DEF UninstallClears, provider, scm
  <2>2. CASE ~(config = "good" /\ proc'.faults = 0)
    BY <1>1, <1>2, <1>3, <1>14, <2>2 DEF UninstallForgets, Named, disk, provider, scm
  <2> QED
    BY <2>1, <2>2
<1>15. CASE UninstallEnds
  <2>0. UNCHANGED <<system32, scm, autorun, data>>
    BY <1>15 DEF UninstallEnds
  <2>1. CASE UNCHANGED <<disk, doomed, after>>
    BY <1>1, <1>2, <2>0, <2>1 DEF disk, scm, data
  <2>2. ASSUME NEW open \in Unremoved, NEW lost \in SUBSET open,
               inplace' = [f \in Files |-> IF f \in open THEN inplace[f] ELSE 0],
               doomed' = doomed \cup (open \ lost), backup' = Nothing,
               after' = IF after = "cleared" /\ lost = {} THEN "ended" ELSE after
        PROVE  UninstallClears'
    <3>1. \A f \in Files : inplace[f] = 0 => inplace'[f] = 0
      BY <2>2
    <3>2. CASE after = "cleared" /\ lost = {}
      <4>1. \A f \in Files : inplace'[f] = 0 \/ f \in doomed'
        BY <2>2, <3>2
      <4> QED
        BY <2>0, <2>2, <3>2, <4>1 DEF UninstallClears, scm, data
    <3>3. CASE after' = after
      BY <1>1, <1>2, <2>0, <2>2, <3>1, <3>3 DEF scm, data
    <3> QED
      BY <2>2, <3>2, <3>3
  <2> QED
    BY <1>15, <2>1, <2>2 DEF UninstallEnds
<1>16. CASE InstallCopies \/ InstallService \/ InstallSetsRun \/ InstallUndo
  BY <1>11, <1>16
  DEF InstallCopies, InstallService, InstallSetsRun, InstallUndo, At, Goes, Ends, FailsTo, FailsAgain, history
<1>17. CASE StopService \/ WaitForStop
  <2>1. proc.op \in {"upgrade", "repair"}
    <3>1. proc.at = "stop" /\ (proc.op = "uninstall" => StopService \/ proc.was)
      BY <1>17 DEF StopService, WaitForStop
    <3>2. proc.op \in Ops /\ proc.op # "none" /\ proc.op # "uninstall"
      BY <1>17, <3>1 DEF Typed, Procs, Ops, StopService, InStage, Idle
    <3> QED
      BY <3>1, <3>2 DEF Ops, InStage
  <2> QED
    BY <1>11, <1>17, <2>1 DEF StopService, WaitForStop, Goes, Ends, history
<1>18. CASE \/ Backup \/ UpgradeCopies \/ UpgradeSetsRun \/ UpgradeStarts \/ UpgradeEnds
            \/ UndoRemoves \/ UndoRestores \/ UndoEnds
  BY <1>11, <1>18
  DEF Backup, UpgradeCopies, UpgradeSetsRun, UpgradeStarts, UpgradeEnds, UndoRemoves, UndoRestores, UndoEnds,
      NotStarted, At, Goes, Ends, FailsTo, FailsAgain, history
<1>19. CASE RepairCopies \/ RepairRegisters \/ RepairEnds \/ EnableCopies \/ EnableRegisters
  BY <1>11, <1>19
  DEF RepairCopies, RepairRegisters, RepairEnds, EnableCopies, EnableRegisters, NotStarted, At, Goes, Ends,
      FailsTo, FailsAgain, history
<1> QED
  BY <1>4, <1>5, <1>6, <1>7, <1>8, <1>9, <1>10, <1>12, <1>13, <1>14, <1>15, <1>16, <1>17, <1>18, <1>19 DEF Next

-----------------------------------------------------------------------------
(* Theorems                                                                *)

SetupInv == /\ Typed /\ InStage /\ Upgrading /\ Spoiling
            /\ Deleting /\ Installed /\ Waiting /\ Serving /\ Clearing /\ UninstallClears

(* The machine the program has not been installed on yet is in order.      *)
LEMMA InitInv == Init => SetupInv
<1> SUFFICES ASSUME Init PROVE SetupInv
  OBVIOUS
<1>1. Typed
  BY InitTyped
<1>2. proc = Idle /\ proc.op = "none" /\ service = "absent" /\ ~marked
  BY DEF Init, Idle
<1> QED
  BY <1>1, <1>2
  DEF SetupInv, InStage, Upgrading, Spoiling, Deleting, Installed, Waiting, Serving, Clearing, UninstallClears,
      Init

(* The invariant the theorems below rest on: where an operation is, what   *)
(* an upgrade has done by then, and what of it the service depends on.     *)
THEOREM InvAlways == Spec => []SetupInv
<1>1. ASSUME SetupInv, [Next]_vars PROVE SetupInv'
  BY <1>1, TypedStep, InStageStep, UpgradingStep, SpoilingStep, DeletingStep, InstalledStep, WaitingStep,
     ServingStep, ClearingStep, ClearsStep
  DEF SetupInv
<1> QED
  BY InitInv, <1>1, PTL DEF Spec

(* Wherever an upgrade is killed, no file that was installed is lost: its  *)
(* copy, the roll-back and the failure of one step, any of them, leave it  *)
(* in its place or in its backup (NothingIsLost). *)
THEOREM NothingIsLostAlways == Spec => []NothingIsLost
<1>1. ASSUME SetupInv PROVE NothingIsLost
  <2> SUFFICES ASSUME proc.op = "upgrade", proc.faults <= 1, NEW f \in Files, proc.before[f] # 0
               PROVE  inplace[f] # 0 \/ backup[f] = proc.before[f]
    BY DEF NothingIsLost
  <2>1. proc.at \in {"stop", "backup", "copy", "autorun", "start", "clean", "undo", "restore"}
    BY <1>1 DEF SetupInv, InStage
  <2>2. CASE proc.at \in {"stop", "backup", "copy", "autorun", "start", "clean"}
    BY <1>1, <2>2 DEF SetupInv, Upgrading, Replaced
  <2>3. CASE proc.at = "undo"
    BY <1>1, <2>3 DEF SetupInv, Upgrading, Undone
  <2>4. CASE proc.at = "restore"
    <3>1. proc.i \in 1 .. Last
      BY <1>1, <2>4 DEF SetupInv, InStage
    <3>2. File \in First(proc.i)
      BY <3>1, ListFacts DEF File
    <3> QED
      BY <1>1, <2>4, <3>2 DEF SetupInv, Upgrading, Kept
  <2> QED
    BY <2>1, <2>2, <2>3, <2>4
<1> QED
  BY InvAlways, <1>1, PTL

(* A service that Windows would start has its program, whatever operation  *)
(* was killed or failed half way, unless a removal failed to delete it     *)
(* (ServiceHasItsFile). *)
THEOREM ServiceHasItsFileAlways == Spec => []ServiceHasItsFile
<1>1. ASSUME SetupInv, NothingIsLost PROVE ServiceHasItsFile
  <2> SUFFICES ASSUME service # "absent", ~marked, ~spoilt, "service" \notin undeleted
               PROVE  inplace[ServiceFile] # 0 \/ backup[ServiceFile] # 0
    BY DEF ServiceHasItsFile
  <2>1. CASE proc.op # "upgrade"
    BY <1>1, <2>1 DEF SetupInv, Serving
  <2>2. CASE proc.op = "upgrade"
    <3>1. proc.faults <= 1 /\ proc.before[ServiceFile] # 0 /\ ServiceFile \in Files
      BY <1>1, <2>2, FilesAreInstalled DEF SetupInv, Serving, Spoiling, Typed, Procs
    <3> QED
      BY <1>1, <2>2, <3>1 DEF NothingIsLost
  <2> QED
    BY <2>1, <2>2
<1> QED
  BY InvAlways, NothingIsLostAlways, <1>1, PTL

(* upgradeUI replaces all of its files, or a roll-back puts every file     *)
(* back, whichever one step failed (UpgradeIsWhole). *)
THEOREM UpgradeIsWholeAlways == Spec => UpgradeIsWhole
<1>1. ASSUME SetupInv, UndoEnds, ~spoilt PROVE inplace = proc.before
  <2>1. proc.op = "upgrade" /\ proc.at = "undo" /\ proc.i = 0
    BY <1>1 DEF UndoEnds, At
  <2>2. proc.faults <= 1
    BY <1>1, <2>1 DEF SetupInv, Spoiling, Typed, Procs
  <2>3. \A f \in Files : inplace[f] = proc.before[f]
    BY <1>1, <2>1, <2>2, ListFacts DEF SetupInv, Upgrading, Undone
  <2>4. inplace \in [Files -> Releases] /\ proc.before \in [Files -> Releases]
    BY <1>1 DEF SetupInv, Typed, Procs, Disk
  <2> QED
    BY <2>3, <2>4
<1>2. ASSUME SetupInv, UpgradeEnds PROVE \A i \in DOMAIN UpgradeFiles : inplace[UpgradeFiles[i]] = proc.src
  <2>1. proc.op = "upgrade" /\ proc.at = "clean"
    BY <1>2 DEF UpgradeEnds, At
  <2>2. Replaced(Last) /\ proc.src = 2
    BY <1>2, <2>1 DEF SetupInv, Upgrading, InStage
  <2>3. \A i \in DOMAIN UpgradeFiles : UpgradeFiles[i] \in First(Last) /\ UpgradeFiles[i] \in Files
    BY ListFacts, FilesAreInstalled
  <2> QED
    BY <2>2, <2>3 DEF Replaced
<1> QED
  BY InvAlways, <1>1, <1>2, PTL DEF UpgradeIsWhole

(* An upgrade or a repair that stopped the service ends with the service   *)
(* running, whichever one step failed, unless a removal deletes or was to  *)
(* delete it (ServiceComesBack). *)
THEOREM ServiceComesBackAlways == Spec => ServiceComesBack
<1>1. ASSUME SetupInv, UndoEnds \/ UpgradeEnds \/ RepairEnds, proc.was, ~spoilt', config = "good",
             service # "absent", "service" \notin undeleted, [Next]_vars
      PROVE  service' = "running"
  <2>1. ~spoilt
    BY <1>1, SpoiltStays
  <2>2. ServiceFile \in Files
    BY FilesAreInstalled
  <2>3. CASE UpgradeEnds
    BY <1>1, <2>1, <2>3 DEF UpgradeEnds, At, SetupInv, Waiting, scm
  <2>4. CASE UndoEnds
    <3>1. proc.op = "upgrade" /\ proc.at = "undo" /\ proc.i = 0
      BY <2>4 DEF UndoEnds, At
    <3>2. service = "stopped" /\ ~marked /\ proc.faults <= 1
      BY <1>1, <2>1, <3>1 DEF SetupInv, Waiting, Deleting, Spoiling, Typed, Procs
    <3>3. proc.before[ServiceFile] # 0
      BY <1>1, <2>1, <3>1, <3>2 DEF SetupInv, Serving
    <3>4. inplace[ServiceFile] # 0
      BY <1>1, <2>2, <3>1, <3>2, <3>3, ListFacts DEF SetupInv, Upgrading, Undone
    <3> QED
      BY <1>1, <2>4, <3>2, <3>4 DEF UndoEnds, NotStarted, FailsAgain, AfterUndo, AfterStart
  <2>5. CASE RepairEnds
    <3>1. proc.op = "repair" /\ proc.at = "end"
      BY <2>5 DEF RepairEnds, At
    <3>2. service = "stopped" /\ ~marked
      BY <1>1, <3>1 DEF SetupInv, Waiting, Deleting
    <3>3. inplace[ServiceFile] # 0
      BY <1>1, <2>1, <3>1, <3>2 DEF SetupInv, Serving
    <3> QED
      BY <1>1, <2>5, <3>2, <3>3 DEF RepairEnds, NotStarted, FailsAgain, AfterStart
  <2> QED
    BY <1>1, <2>3, <2>4, <2>5
<1> QED
  BY InvAlways, <1>1, PTL DEF Spec, ServiceComesBack

(* uninstall, when it has read the configuration and no deletion has       *)
(* failed, leaves nothing but the presence keys of earlier pairings and    *)
(* what Windows deletes when it starts, and nothing of the files and the   *)
(* service after that, whatever the service and setup do in between        *)
(* (UninstallClears). *)
THEOREM UninstallClearsAlways == Spec => []UninstallClears
BY InvAlways, PTL DEF SetupInv

-----------------------------------------------------------------------------
(* The credential provider                                                 *)

(* The copy in System32 that is about to be registered is there. *)
Provided == ProviderHasItsFile /\ (At("enable", "register") => system32)

(* Unregistering comes before removing, and what it could not unregister is *)
(* in undeleted. *)
LEMMA UnregisterKeeps ==
  /\ \A may \in BOOLEAN : Unregister(may) /\ registered' => "provider" \in undeleted'
  /\ ProviderHasItsFile /\ UnregisterProvider => ProviderHasItsFile'
<1>1. ASSUME NEW may \in BOOLEAN, Unregister(may), registered' PROVE "provider" \in undeleted'
  BY <1>1 DEF Unregister
<1>2. ASSUME ProviderHasItsFile, UnregisterProvider PROVE ProviderHasItsFile'
  <2>1. CASE UNCHANGED <<provider, undeleted>>
    BY <1>2, <2>1 DEF provider, ProviderHasItsFile
  <2>2. CASE Unregister(registered)
    BY <2>2 DEF Unregister, ProviderHasItsFile
  <2> QED
    BY <1>2, <2>1, <2>2 DEF UnregisterProvider
<1> QED
  BY <1>1, <1>2

(* The other steps leave the provider alone. *)
ProviderSteps == \/ RepairRegisters \/ EnableCopies \/ EnableRegisters \/ Disable \/ Recover
                 \/ UninstallUnregisters \/ Reboot
ProviderLeft == UNCHANGED <<system32, registered>> /\ ("provider" \in undeleted' <=> "provider" \in undeleted)

LEMMA ProviderAlone == [Next]_vars => ProviderSteps \/ ProviderLeft
<1> SUFFICES ASSUME [Next]_vars, ~ProviderSteps PROVE ProviderLeft
  OBVIOUS
<1> USE DEF ProviderLeft, provider, history
<1>1. CASE UNCHANGED vars \/ Initialize \/ Pair \/ SavesLate \/ ConfigSpoils \/ ServiceStops \/ ServiceFails
  BY <1>1 DEF vars, Initialize, Pair, SavesLate, ConfigSpoils, ServiceStops, ServiceFails
<1>2. CASE InstallBegins \/ UpgradeBegins \/ RepairBegins \/ EnableBegins \/ UninstallBegins \/ SetupIsKilled
  BY <1>2 DEF InstallBegins, UpgradeBegins, RepairBegins, EnableBegins, UninstallBegins, SetupIsKilled, Begins
<1>3. CASE InstallCopies \/ InstallService \/ InstallSetsRun
  BY <1>3 DEF InstallCopies, InstallService, InstallSetsRun, Goes, Ends, FailsTo, FailsAgain
<1>4. CASE InstallUndo \/ UninstallStops
  <2>1. StopAndDelete /\ UNCHANGED provider
    BY <1>4 DEF InstallUndo, UninstallStops
  <2> QED
    BY <2>1 DEF StopAndDelete
<1>5. CASE \/ StopService \/ WaitForStop \/ Backup \/ UpgradeCopies \/ UpgradeSetsRun \/ UpgradeStarts
           \/ UpgradeEnds \/ UndoRemoves \/ UndoRestores \/ UndoEnds
  BY <1>5 DEF StopService, WaitForStop, Backup, UpgradeCopies, UpgradeSetsRun, UpgradeStarts, UpgradeEnds,
     UndoRemoves, UndoRestores, UndoEnds, NotStarted, Goes, Ends, FailsTo, FailsAgain
<1>6. CASE RepairCopies \/ RepairEnds \/ UninstallForgets \/ UninstallEnds
  BY <1>6 DEF RepairCopies, RepairEnds, UninstallForgets, UninstallEnds, NotStarted, Ends, FailsTo, FailsAgain
<1> QED
  BY <1>1, <1>2, <1>3, <1>4, <1>5, <1>6 DEF Next, ProviderSteps

(* Enabling comes to its registration from its copy only. *)
LEMMA Registers ==
  Typed /\ InStage /\ [Next]_vars /\ At("enable", "register")' =>
    EnableCopies \/ (At("enable", "register") /\ ~ProviderSteps)
<1> SUFFICES ASSUME Typed, InStage, [Next]_vars, At("enable", "register")', ~EnableCopies
             PROVE  At("enable", "register") /\ ~ProviderSteps
  OBVIOUS
<1>0. proc'.op = "enable" /\ proc'.at = "register"
  BY DEF At
<1>1. ~(InstallBegins \/ UpgradeBegins \/ RepairBegins \/ EnableBegins \/ UninstallBegins) /\ proc' # Idle
  BY <1>0, BeginFields DEF InstallBegins, UpgradeBegins, RepairBegins, EnableBegins, UninstallBegins, Idle
<1>2. Beside
  BY <1>0, <1>1, GoesOn
<1>3. UNCHANGED proc
  BY <1>2, BesideKeeps
<1>4. At("enable", "register")
  BY <1>0, <1>3 DEF At
<1>5. ~ProviderSteps
  BY <1>0, <1>1, <1>3, <1>4
  DEF ProviderSteps, At, RepairRegisters, EnableRegisters, Disable, Recover, UninstallUnregisters, Reboot
<1> QED
  BY <1>4, <1>5

LEMMA ProvidedStep == Typed /\ InStage /\ Provided /\ [Next]_vars => Provided'
<1> SUFFICES ASSUME Typed, InStage, Provided, [Next]_vars PROVE Provided'
  OBVIOUS
<1>1. At("enable", "register")' => system32' \/ EnableCopies
  BY Registers, ProviderAlone DEF Provided, ProviderLeft
<1>2. CASE ProviderLeft
  BY <1>1, <1>2, Registers DEF Provided, ProviderHasItsFile, ProviderLeft, EnableCopies, Ends, Idle, At
<1>3. CASE RepairRegisters
  <2>1. (registered' => registered \/ system32') /\ (system32 => system32')
    <3>1. system32' = system32 \/ system32' = TRUE
      BY <1>3 DEF RepairRegisters
    <3>2. \/ registered' = TRUE /\ system32' = TRUE
          \/ registered' = registered
          \/ registered' = (registered \/ system32')
      BY <1>3 DEF RepairRegisters
    <3>3. system32 => system32'
      <4>1. CASE system32' = system32
        BY <4>1, Zenon
      <4>2. CASE system32' = TRUE
        BY <4>2, Zenon
      <4> QED
        BY <3>1, <4>1, <4>2, Zenon
    <3>4. registered' => registered \/ system32'
      <4>1. CASE registered' = TRUE /\ system32' = TRUE
        BY <4>1, Zenon
      <4>2. CASE registered' = registered
        BY <4>2, Zenon
      <4>3. CASE registered' = (registered \/ system32')
        BY <4>3, Zenon
      <4> QED
        BY <3>2, <4>1, <4>2, <4>3, Zenon
    <3> QED
      BY <3>3, <3>4
  <2>2. system32' \/ "provider" \in undeleted' \/ ~registered'
    BY <1>3, <2>1 DEF RepairRegisters, FailsTo, FailsAgain, Provided, ProviderHasItsFile
  <2>3. ~EnableCopies
    BY <1>3 DEF RepairRegisters, EnableCopies, At
  <2> QED
    BY <1>1, <2>2, <2>3 DEF Provided, ProviderHasItsFile
<1>4. CASE EnableCopies
  <2>1. system32' = TRUE \/ (UNCHANGED <<system32, registered, undeleted>> /\ proc'.op = "none")
    BY <1>4 DEF EnableCopies, Ends, Idle, history
  <2> QED
    BY <2>1 DEF Provided, ProviderHasItsFile, At
<1>5. CASE EnableRegisters
  <2>1. proc'.op = "none"
    BY <1>5 DEF EnableRegisters, Idle
  <2>2. (system32 /\ UNCHANGED system32) \/ Unregister(TRUE)
    BY <1>5 DEF EnableRegisters, Provided
  <2> QED
    BY <2>1, <2>2, UnregisterKeeps DEF Provided, ProviderHasItsFile, At
<1>6. CASE Disable \/ Recover \/ UninstallUnregisters
  <2>1. UnregisterProvider
    BY <1>6 DEF Disable, Recover, UninstallUnregisters
  <2>2. proc.op # "enable"
    BY <1>6 DEF Disable, Recover, UninstallUnregisters, At, Idle
  <2>3. ~At("enable", "register")'
    BY <2>2, Registers DEF EnableCopies, At
  <2> QED
    BY <2>1, <2>3, UnregisterKeeps DEF Provided
<1>7. CASE Reboot
  <2>1. proc'.op = "none"
    BY <1>7 DEF Reboot, Idle
  <2>2. registered' /\ "provider" \notin undeleted'
          => registered /\ "provider" \notin undeleted /\ "System32" \notin doomed
    BY <1>7 DEF Reboot
  <2>3. system32 /\ "System32" \notin doomed => system32'
    BY <1>7 DEF Reboot
  <2> QED
    BY <2>1, <2>2, <2>3 DEF Provided, ProviderHasItsFile, At
<1> QED
  BY <1>2, <1>3, <1>4, <1>5, <1>6, <1>7, ProviderAlone DEF ProviderSteps

(* The provider LogonUI finds registered is in System32, however setup     *)
(* fails or is killed, unless unregistering it failed or Windows deleted   *)
(* what was left to it (ProviderHasItsFile). *)
THEOREM ProviderHasItsFileAlways == Spec => []ProviderHasItsFile
<1>1. Init => Provided
  BY DEF Init, Provided, ProviderHasItsFile, At, Idle
<1>2. SetupInv /\ Provided /\ [Next]_vars => Provided'
  BY ProvidedStep DEF SetupInv
<1>3. Provided => ProviderHasItsFile
  BY DEF Provided
<1> QED
  BY <1>1, <1>2, <1>3, InvAlways, PTL DEF Spec

=============================================================================
