------------------------------- MODULE Setup -------------------------------
(***************************************************************************)
(* setup.exe: install, upgrade-ui, repair-management, enable- and          *)
(* disable-credential-provider, recover and uninstall.  One of them runs   *)
(* at a time, beside the service, which stops when it gets round to it.    *)
(* A step may fail, setup may be killed between two steps, and the machine *)
(* may be started again.  copyFile writes beside the target and renames,   *)
(* so a copy is there or is not; the file of a service that has not        *)
(* stopped can be neither replaced nor removed.                            *)
(*                                                                         *)
(* A file is the number of the release it is from, or 0: release 1 is      *)
(* installed, release 2 is at hand for upgrades and repairs.  set-password *)
(* is in Settings.  What only shows a window or a message is left out.     *)
(***************************************************************************)
EXTENDS Integers, Sequences

CONSTANTS
  InstallFiles,     \* files, and the names upgradeUI
  UpgradeFiles,     \* and repairManagementBinaries copy,
  RepairFiles,      \* in their order
  ServiceFile,      \* ProximityUnlockSvc.exe
  ProviderFile,     \* ProximityUnlockCredentialProvider.dll
  OpenFiles,        \* files that may be open when they are removed
  MaxBegun,         \* bound: operations somebody asks for
  MaxFaults         \* bound: steps of one operation that fail, but of uninstall

Files == {InstallFiles[i] : i \in DOMAIN InstallFiles}

ASSUME FilesAreInstalled ==
  /\ {UpgradeFiles[i] : i \in DOMAIN UpgradeFiles} \cup {RepairFiles[i] : i \in DOMAIN RepairFiles}
       \cup OpenFiles \cup {ServiceFile, ProviderFile} \subseteq Files
  /\ "System32" \notin Files /\ MaxFaults \in Nat /\ MaxBegun \in Nat

(* The lists are written out in the code, and name no file twice. *)
ASSUME FilesAreListed ==
  /\ \A list \in {InstallFiles, UpgradeFiles, RepairFiles} : list \in Seq(Files) /\ list # <<>>
  /\ \A i, j \in DOMAIN UpgradeFiles : UpgradeFiles[i] = UpgradeFiles[j] => i = j

VARIABLES
  inplace,      \* the installation directory
  backup,       \* its .ui-upgrade-backup files
  system32,     \* the provider is in System32
  registered,   \* the provider is registered
  doomed,       \* what Windows deletes when it starts
  service,      \* "absent", "stopped", "running" or "stopping"
  marked,       \* the service is deleted once it has stopped
  autorun,      \* the entry of the tray in the Run key
  config,       \* config.json: "absent", "good" or "unreadable"
  secrets,      \* what is stored, of "password", "identity", the configured
                \* "presence" key, and "orphan", one of an earlier pairing
  proc,         \* the operation under way: its step, file and release, the
                \* service was running, files backed up, directory before, faults
  spoilt,       \* history: an upgrade was killed or failed twice; the service,
                \* stopped for an upgrade or a repair, could not be started; its
                \* program, doomed by an uninstallation, was installed again and
                \* deleted by Windows
  undeleted,    \* history: of "service" and "provider", what a removal failed to
                \* delete or to unregister, or what Windows deleted the DLL of, and
                \* nothing has installed, registered or removed since
  begun,        \* history: how many operations there were
  after         \* history: "no", "cleared" after an uninstallation that read the
                \* configuration and failed to delete nothing but files yet,
                \* "ended" after one that has removed the files as well, and
                \* "restarted" once Windows has started since

disk == <<inplace, backup>>
provider == <<system32, registered, doomed>>
scm == <<service, marked>>
data == <<config, secrets>>
history == <<spoilt, undeleted, begun, after>>
vars == <<disk, provider, scm, autorun, data, proc, history>>

Nothing == [f \in Files |-> 0]
Idle == [op |-> "none", at |-> "idle", i |-> 1, src |-> 0, was |-> FALSE,
         existed |-> {}, before |-> Nothing, faults |-> 0]

Init ==
  /\ inplace = Nothing /\ backup = Nothing
  /\ system32 = FALSE /\ registered = FALSE /\ doomed = {}
  /\ service = "absent" /\ marked = FALSE /\ autorun = FALSE
  /\ config = "absent" /\ secrets = {}
  /\ proc = Idle /\ spoilt = FALSE /\ undeleted = {} /\ begun = 0 /\ after = "no"

At(op, at) == proc.op = op /\ proc.at = at
OneMore == begun < MaxBegun /\ begun' = begun + 1
Begins(op, at, v) ==
  /\ proc = Idle /\ OneMore /\ UNCHANGED <<spoilt, undeleted>>
  /\ after' = IF op = "uninstall" THEN after ELSE "no"
  /\ proc' = [Idle EXCEPT !.op = op, !.at = at, !.src = v,
                          !.before = IF op = "upgrade" THEN inplace ELSE Nothing]
Moves(at) == proc' = [proc EXCEPT !.at = at]
Goes(at) == Moves(at) /\ UNCHANGED history
Ends == proc' = Idle /\ UNCHANGED history
MayFail == proc.faults < MaxFaults
FailsAgain(first) == spoilt' = (spoilt \/ ~first) /\ UNCHANGED <<undeleted, begun, after>>
(* Mutant: the roll-back leaves out the file copied last. *)
FailsShort(at) ==
  /\ MayFail /\ FailsAgain(proc.op # "upgrade" \/ proc.faults = 0)
  /\ proc' = [proc EXCEPT !.at = at, !.i = IF at = "undo" THEN @ - 1 ELSE @, !.faults = @ + 1]
FailsTo(at) ==
  /\ MayFail /\ FailsAgain(proc.op # "upgrade" \/ proc.faults = 0)
  /\ proc' = [proc EXCEPT !.at = at, !.faults = @ + 1]

InUse(f) == f = ServiceFile /\ service \in {"running", "stopping"}
(* The files a removal may fail to remove: with those in use, some open ones. *)
Unremoved ==
  {stay \in SUBSET {f \in Files : inplace[f] # 0 /\ (f \in OpenFiles \/ InUse(f))} :
     \A f \in Files : inplace[f] # 0 /\ InUse(f) => f \in stay}
AfterStop == IF service = "running" THEN "stopping" ELSE service
(* A service whose file is there, and that is not running, can start. *)
AfterStart == IF service = "stopped" /\ inplace[ServiceFile] # 0 THEN "running" ELSE service

(* Mutant: the service is told to stop, and not deleted. *)
StopOnly == service' = AfterStop /\ UNCHANGED <<marked, undeleted>>
(* Stop, then Delete: what has not stopped is deleted later.  The service  *)
(* may be out of reach, Delete or Stop may fail, and no error is looked at.*)
StopAndDelete ==
  \/ /\ service' = IF service = "stopped" THEN "absent" ELSE AfterStop
     /\ marked' = (service \in {"running", "stopping"})
     /\ undeleted' = undeleted \ {"service"}
  \/ /\ service # "absent" /\ service' \in {service, AfterStop} /\ UNCHANGED marked
     /\ undeleted' = IF marked THEN undeleted ELSE undeleted \cup {"service"}
  \/ /\ service = "running" /\ UNCHANGED service
     /\ marked' = TRUE /\ undeleted' = undeleted \ {"service"}

-----------------------------------------------------------------------------
(* Around setup                                                            *)

(* proximityctl initialize, and a pairing: neither deletes the presence    *)
(* key of the pairing before.  What initialize has stored when it fails    *)
(* stays, but for the password, which it tries to delete.                  *)
Orphaned == IF "presence" \in secrets THEN (secrets \ {"presence"}) \cup {"orphan"} ELSE secrets

Initialize ==
  /\ proc = Idle /\ config = "absent"
  /\ \/ config' = "good" /\ secrets' = Orphaned \cup {"password", "identity"}
     \/ /\ UNCHANGED config
        /\ secrets' \in {secrets \cup {"identity"}, secrets \cup {"identity", "password"},
                         (secrets \ {"password"}) \cup {"identity"}}
  /\ after' = "no"
  /\ UNCHANGED <<disk, provider, scm, autorun, proc, spoilt, undeleted, begun>>

Pair ==
  /\ config = "good" /\ service \in {"running", "stopping"}
  /\ secrets' = Orphaned \cup {"presence"}
  /\ UNCHANGED <<disk, provider, scm, autorun, config, proc, history>>

(* A call the service still answers while it stops, a pairing or a change  *)
(* of a setting, saves its copy of the configuration whatever became of    *)
(* the file: uninstall does not wait. *)
SavesLate ==
  /\ config # "good" /\ (service = "stopping" \/ marked)
  /\ config' = "good" /\ secrets' \in {secrets, Orphaned \cup {"presence"}}
  /\ after' = "no"
  /\ UNCHANGED <<disk, provider, scm, autorun, proc, spoilt, undeleted, begun>>

ConfigSpoils ==
  /\ config = "good" /\ config' = "unreadable"
  /\ UNCHANGED <<disk, provider, scm, autorun, secrets, proc, history>>

ServiceStops ==
  /\ service = "stopping"
  /\ service' = IF marked THEN "absent" ELSE "stopped"
  /\ marked' = FALSE
  /\ UNCHANGED <<disk, provider, autorun, data, proc, history>>

(* Started without a configuration it can load, the service ends at once.  *)
ServiceFails ==
  /\ service = "running" /\ config # "good"
  /\ service' = IF marked THEN "absent" ELSE "stopped"
  /\ marked' = FALSE
  /\ UNCHANGED <<disk, provider, autorun, data, proc, history>>

SetupIsKilled ==
  /\ proc # Idle /\ proc' = Idle /\ spoilt' = (spoilt \/ proc.op = "upgrade")
  /\ UNCHANGED <<disk, provider, scm, autorun, data, undeleted, begun, after>>

(* What is doomed is deleted before any service is started. *)
Reboot ==
  /\ inplace' = [f \in Files |-> IF f \in doomed THEN 0 ELSE inplace[f]]
  /\ system32' = (system32 /\ "System32" \notin doomed)
  /\ doomed' = {} /\ marked' = FALSE
  /\ service' = IF marked \/ service = "absent" THEN "absent"
                ELSE IF inplace'[ServiceFile] # 0 THEN "running" ELSE "stopped"
  /\ proc' = Idle
  /\ spoilt' = \/ spoilt \/ proc.op = "upgrade"
               \/ ServiceFile \in doomed /\ service # "absent" /\ ~marked /\ "service" \notin undeleted
  /\ after' = IF after = "ended" THEN "restarted" ELSE after
  /\ undeleted' = IF registered /\ "System32" \in doomed THEN undeleted \cup {"provider"} ELSE undeleted
  /\ UNCHANGED <<backup, registered, autorun, data, begun>>

-----------------------------------------------------------------------------
(* installStageOne                                                         *)

InstallBegins ==
  /\ config = "good" /\ "password" \in secrets
  /\ inplace = Nothing /\ backup = Nothing
  /\ Begins("install", "copy", 1)
  /\ UNCHANGED <<disk, provider, scm, autorun, data>>

InstallCopies ==
  /\ At("install", "copy")
  /\ \/ /\ inplace' = [inplace EXCEPT ![InstallFiles[proc.i]] = proc.src]
        /\ proc' = IF proc.i < Len(InstallFiles) THEN [proc EXCEPT !.i = @ + 1]
                                                 ELSE [proc EXCEPT !.at = "service"]
        /\ UNCHANGED history
     \/ FailsTo("undo") /\ UNCHANGED inplace
  /\ UNCHANGED <<backup, provider, scm, autorun, data>>

(* installService.  A service that is still there is told to stop and then *)
(* to start, and for Start one that has not stopped yet runs already. *)
InstallService ==
  /\ At("install", "service")
  /\ \/ /\ ~marked /\ Moves("autorun")
        /\ service' = IF service \in {"absent", "stopped"} THEN "running" ELSE "stopping"
        /\ undeleted' = undeleted \ {"service"} /\ UNCHANGED <<spoilt, begun, after>>
     \/ marked /\ Goes("undo") /\ service' = AfterStop
     \/ FailsTo("undo") /\ service' \in {AfterStop, IF service = "absent" THEN "stopped" ELSE AfterStop}
  /\ UNCHANGED <<disk, provider, marked, autorun, data>>

InstallSetsRun ==
  /\ At("install", "autorun")
  /\ \/ autorun' = TRUE /\ Ends
     \/ FailsTo("undo") /\ UNCHANGED autorun
  /\ UNCHANGED <<disk, provider, scm, data>>

(* rollbackStageOne does not wait for the service to stop.  No error is    *)
(* looked at, and what stays is not taken up again. *)
InstallUndo ==
  /\ At("install", "undo") /\ proc' = Idle /\ UNCHANGED <<spoilt, begun, after>>
  /\ autorun' \in {FALSE, autorun} /\ StopAndDelete
  /\ \E stay \in Unremoved : inplace' = [f \in Files |-> IF f \in stay THEN inplace[f] ELSE 0]
  /\ UNCHANGED <<backup, provider, data>>

-----------------------------------------------------------------------------
(* upgradeUI and repairManagementBinaries                                  *)

UpgradeBegins ==
  /\ config = "good" /\ inplace # Nothing
  /\ Begins("upgrade", "stop", 2)
  /\ UNCHANGED <<disk, provider, scm, autorun, data>>

RepairBegins ==
  /\ service # "absent"
  /\ Begins("repair", "stop", 2)
  /\ UNCHANGED <<disk, provider, scm, autorun, data>>

(* Both stop the service and wait.  upgradeUI starts it again if it was    *)
(* running, and repair in any case; only upgradeUI waits for a service     *)
(* that is stopping already.                                               *)
StopService ==
  /\ proc.at = "stop" /\ proc.op # "uninstall" /\ ~proc.was
  /\ \/ service = "absent" /\ Ends /\ UNCHANGED service
     \/ service = "stopping" /\ proc.op = "repair" /\ Ends /\ UNCHANGED service
     \/ /\ service = "stopped" /\ UNCHANGED <<service, history>>
        /\ proc' = [proc EXCEPT !.at = IF proc.op = "repair" THEN "copy" ELSE "backup",
                                !.was = (proc.op = "repair")]
     \/ /\ service = "running" \/ (service = "stopping" /\ proc.op = "upgrade")
        /\ service' = "stopping" /\ proc' = [proc EXCEPT !.was = TRUE] /\ UNCHANGED history
     \/ MayFail /\ Ends /\ UNCHANGED service
  /\ UNCHANGED <<disk, provider, marked, autorun, data>>

(* A service that was to be deleted reads as stopped, and is gone then.    *)
WaitForStop ==
  /\ proc.at = "stop" /\ proc.was
  /\ \/ service \in {"stopped", "absent"} /\ Goes(IF proc.op = "repair" THEN "copy" ELSE "backup")
     \/ service \notin {"stopped", "absent"} /\ MayFail /\ Ends
  /\ UNCHANGED <<disk, provider, scm, autorun, data>>

File == UpgradeFiles[proc.i]

Backup ==
  /\ At("upgrade", "backup")
  /\ \/ /\ inplace[File] # 0 /\ UNCHANGED history
        /\ backup' = [backup EXCEPT ![File] = inplace[File]]
        /\ proc' = [proc EXCEPT !.at = "copy", !.existed = @ \cup {File}]
     \/ inplace[File] = 0 /\ Goes("copy") /\ UNCHANGED backup
     \/ /\ MayFail /\ UNCHANGED <<backup, history>>
        /\ proc' = [proc EXCEPT !.at = "undo", !.i = @ - 1, !.faults = @ + 1]
  /\ UNCHANGED <<inplace, provider, scm, autorun, data>>

UpgradeCopies ==
  /\ At("upgrade", "copy")
  /\ \/ /\ ~InUse(File) /\ UNCHANGED history
        /\ inplace' = [inplace EXCEPT ![File] = proc.src]
        /\ proc' = IF proc.i < Len(UpgradeFiles) THEN [proc EXCEPT !.at = "backup", !.i = @ + 1]
                                                 ELSE [proc EXCEPT !.at = "autorun"]
     \/ FailsTo("undo") /\ UNCHANGED inplace
  /\ UNCHANGED <<backup, provider, scm, autorun, data>>

UpgradeSetsRun ==
  /\ At("upgrade", "autorun")
  /\ \/ autorun' = TRUE /\ Goes("start")
     \/ FailsTo("undo") /\ UNCHANGED autorun
  /\ UNCHANGED <<disk, provider, scm, data>>

UpgradeStarts ==
  /\ At("upgrade", "start")
  /\ \/ /\ proc.was => service # "absent"
        /\ Goes("clean") /\ service' = IF proc.was THEN AfterStart ELSE service
     \/ proc.was /\ FailsTo("undo") /\ UNCHANGED service
  /\ UNCHANGED <<disk, provider, marked, autorun, data>>

UpgradeEnds ==
  /\ At("upgrade", "clean") /\ Ends
  /\ backup' = [f \in Files |-> IF \E i \in DOMAIN UpgradeFiles : UpgradeFiles[i] = f THEN 0 ELSE backup[f]]
  /\ UNCHANGED <<inplace, provider, scm, autorun, data>>

(* rollback, backwards from the last file taken up: Remove, copy back what *)
(* existed, Remove the backup.  No error is looked at. *)
UndoRemoves ==
  /\ At("upgrade", "undo") /\ proc.i > 0
  /\ \/ ~InUse(File) /\ Goes("restore") /\ inplace' = [inplace EXCEPT ![File] = 0]
     \/ FailsTo("restore") /\ UNCHANGED inplace
  /\ UNCHANGED <<backup, provider, scm, autorun, data>>

(* Mutant: the backup is deleted before it has been copied back. *)
CopiesBackLate == UNCHANGED inplace
CopiesBack == inplace' = IF File \in proc.existed THEN [inplace EXCEPT ![File] = backup[File]] ELSE inplace

UndoRestores ==
  /\ At("upgrade", "restore")
  /\ backup' = [backup EXCEPT ![File] = 0]
  /\ \/ /\ ~InUse(File) /\ CopiesBack /\ UNCHANGED history
        /\ proc' = [proc EXCEPT !.at = "undo", !.i = @ - 1]
     \/ /\ MayFail /\ UNCHANGED inplace /\ FailsAgain(proc.faults = 0)
        /\ proc' = [proc EXCEPT !.at = "undo", !.i = @ - 1, !.faults = @ + 1]
  /\ UNCHANGED <<provider, scm, autorun, data>>

(* What Start returns at the end is not looked at. *)
NotStarted == MayFail /\ proc' = Idle /\ FailsAgain(FALSE) /\ UNCHANGED service

(* Mutant: rollback does not start the service. *)
LeavesStopped == service
AfterUndo == IF proc.was THEN AfterStart ELSE service

UndoEnds ==
  /\ At("upgrade", "undo") /\ proc.i = 0
  /\ \/ Ends /\ service' = AfterUndo
     \/ NotStarted
  /\ UNCHANGED <<disk, provider, marked, autorun, data>>

RepairCopies ==
  /\ At("repair", "copy")
  /\ \/ /\ ~InUse(RepairFiles[proc.i]) /\ UNCHANGED history
        /\ inplace' = [inplace EXCEPT ![RepairFiles[proc.i]] = proc.src]
        /\ proc' = IF proc.i < Len(RepairFiles) THEN [proc EXCEPT !.i = @ + 1]
                                                ELSE [proc EXCEPT !.at = "register"]
     \/ FailsTo("end") /\ UNCHANGED inplace
  /\ UNCHANGED <<backup, provider, scm, autorun, data>>

(* DllRegisterServer writes several keys, and may fail after the first. *)
RepairRegisters ==
  /\ At("repair", "register")
  /\ \/ /\ Moves("end") /\ system32' = TRUE /\ registered' = TRUE
        /\ undeleted' = undeleted \ {"provider"} /\ UNCHANGED <<spoilt, begun, after>>
     \/ /\ FailsTo("end") /\ system32' \in {system32, TRUE}
        /\ registered' \in {registered, registered \/ system32'}
  /\ UNCHANGED <<disk, doomed, scm, autorun, data>>

(* The deferred Start. *)
RepairEnds ==
  /\ At("repair", "end")
  /\ \/ Ends /\ service' = AfterStart
     \/ NotStarted
  /\ UNCHANGED <<disk, provider, marked, autorun, data>>

-----------------------------------------------------------------------------
(* The credential provider                                                 *)

(* A provider some process has loaded is removed when Windows starts, if   *)
(* that could be arranged. *)
RemoveOrSchedule ==
  \/ system32' = FALSE /\ UNCHANGED doomed
  \/ system32 /\ UNCHANGED system32 /\ doomed' \in {doomed, doomed \cup {"System32"}}

(* DllUnregisterServer, when something may be registered. *)
Unregister(may) ==
  \/ registered' = FALSE /\ undeleted' = undeleted \ {"provider"}
  \/ may /\ registered' = TRUE /\ undeleted' = undeleted \cup {"provider"}

(* Mutant: the file is removed first, and cannot be called any more. *)
RemovesFirst ==
  IF ~system32 /\ inplace[ProviderFile] = 0
    THEN UNCHANGED <<provider, undeleted>>
    ELSE /\ RemoveOrSchedule
         /\ IF system32' THEN Unregister(registered) ELSE UNCHANGED <<registered, undeleted>>
(* unregisterCredentialProvider removes it even if it is registered still. *)
UnregisterProvider ==
  IF ~system32 /\ inplace[ProviderFile] = 0
    THEN UNCHANGED <<provider, undeleted>>
    ELSE Unregister(registered) /\ RemoveOrSchedule

(* The status of the service, and a proof of the phone not 30 seconds old. *)
EnableBegins ==
  /\ service = "running" /\ {"password", "presence"} \subseteq secrets
  /\ Begins("enable", "copy", 0)
  /\ UNCHANGED <<disk, provider, scm, autorun, data>>

EnableCopies ==
  /\ At("enable", "copy")
  /\ \/ inplace[ProviderFile] # 0 /\ system32' = TRUE /\ Goes("register")
     \/ inplace[ProviderFile] = 0 /\ Ends /\ UNCHANGED system32
     \/ MayFail /\ Ends /\ UNCHANGED system32
  /\ UNCHANGED <<disk, registered, doomed, scm, autorun, data>>

EnableRegisters ==
  /\ At("enable", "register") /\ proc' = Idle /\ UNCHANGED <<spoilt, begun, after>>
  /\ \/ registered' = TRUE /\ undeleted' = undeleted \ {"provider"} /\ UNCHANGED <<system32, doomed>>
     \/ MayFail /\ Unregister(TRUE) /\ RemoveOrSchedule
  /\ UNCHANGED <<disk, scm, autorun, data>>

Disable ==
  /\ proc = Idle /\ OneMore /\ UnregisterProvider
  /\ UNCHANGED <<disk, scm, autorun, data, proc, spoilt, after>>

Recover ==
  /\ proc = Idle /\ OneMore /\ UnregisterProvider /\ service' \in {AfterStop, service}
  /\ UNCHANGED <<disk, marked, autorun, data, proc, spoilt, after>>

-----------------------------------------------------------------------------
(* uninstall: no error ends it.  Any number of its deletions may fail, and *)
(* faults is 1 once one has. *)

Tried(at, failed) == proc' = [proc EXCEPT !.at = at, !.faults = IF failed THEN 1 ELSE @]

UninstallBegins ==
  /\ Begins("uninstall", "unregister", 0)
  /\ UNCHANGED <<disk, provider, scm, autorun, data>>

UninstallUnregisters ==
  /\ At("uninstall", "unregister") /\ UnregisterProvider
  /\ Tried("stop", "provider" \in undeleted' \/ (system32' /\ "System32" \notin doomed'))
  /\ UNCHANGED <<disk, scm, autorun, data, spoilt, begun, after>>

UninstallStops ==
  /\ At("uninstall", "stop") /\ StopAndDelete
  /\ Tried("forget", service' = "running" \/ "service" \in undeleted')
  /\ UNCHANGED <<disk, provider, autorun, data, spoilt, begun, after>>

(* Mutant: the secrets go only with the account's Run entry. *)
NamedByAutorun == IF config = "good" /\ autorun THEN {"password", "presence", "identity"} ELSE {"identity"}
(* The account and the presence key are those the configuration names.     *)
Named == IF config = "good" THEN {"password", "presence", "identity"} ELSE {"identity"}

UninstallForgets ==
  /\ At("uninstall", "forget")
  /\ \E kept \in SUBSET (Named \cap secrets) : secrets' = (secrets \ Named) \cup kept
  /\ autorun' \in {autorun /\ config # "good", autorun}
  /\ config' \in {"absent", config}
  /\ proc' = [proc EXCEPT !.at = "remove", !.was = (config = "good"),
                          !.faults = IF secrets' \cap Named # {} \/ autorun' \/ config' # "absent" THEN 1 ELSE @]
  /\ after' = IF config = "good" /\ proc'.faults = 0 THEN "cleared" ELSE after
  /\ UNCHANGED <<disk, provider, scm, spoilt, undeleted, begun>>

(* What cannot be removed, uninstall.exe itself for one, is deleted when   *)
(* Windows starts, but for what could not be marked for that. *)
UninstallEnds ==
  /\ At("uninstall", "remove") /\ proc' = Idle
  /\ \/ \E open \in Unremoved : \E lost \in SUBSET open :
          /\ inplace' = [f \in Files |-> IF f \in open THEN inplace[f] ELSE 0]
          /\ doomed' = doomed \cup (open \ lost) /\ backup' = Nothing
          /\ after' = IF after = "cleared" /\ lost = {} THEN "ended" ELSE after
     \/ UNCHANGED <<disk, doomed, after>>
  /\ UNCHANGED <<system32, registered, scm, autorun, data, spoilt, undeleted, begun>>

Next ==
  \/ Initialize \/ Pair \/ SavesLate \/ ConfigSpoils \/ ServiceStops \/ ServiceFails
  \/ InstallBegins \/ InstallCopies \/ InstallService \/ InstallSetsRun \/ InstallUndo
  \/ UpgradeBegins \/ RepairBegins \/ StopService \/ WaitForStop \/ Backup \/ UpgradeCopies
  \/ UpgradeSetsRun \/ UpgradeStarts \/ UpgradeEnds \/ UndoRemoves \/ UndoRestores \/ UndoEnds
  \/ RepairCopies \/ RepairRegisters \/ RepairEnds
  \/ EnableBegins \/ EnableCopies \/ EnableRegisters \/ Disable \/ Recover
  \/ UninstallBegins \/ UninstallUnregisters \/ UninstallStops \/ UninstallForgets \/ UninstallEnds
  \/ SetupIsKilled \/ Reboot

Spec == Init /\ [][Next]_vars

-----------------------------------------------------------------------------
(* Properties                                                              *)

(* An upgrade one step of which fails, whichever it is, leaves every file  *)
(* as it was; one that works replaces all of its files.                    *)
UpgradeIsWhole ==
  [][/\ UndoEnds /\ ~spoilt => inplace = proc.before
     /\ UpgradeEnds => \A i \in DOMAIN UpgradeFiles : inplace[UpgradeFiles[i]] = proc.src]_vars

(* An upgrade that found the service running, and a repair, end with it    *)
(* running once it has stopped, whichever other step fails, as long as the *)
(* configuration can be read, unless a removal is or was to delete it.     *)
ServiceComesBack ==
  [][/\ UndoEnds \/ UpgradeEnds \/ RepairEnds
     /\ proc.was /\ ~spoilt' /\ config = "good" /\ service # "absent" /\ "service" \notin undeleted
     => service' = "running"]_vars

(* Wherever an upgrade is killed, each file that was installed is there or *)
(* in its backup, unless a second step failed.                             *)
NothingIsLost ==
  proc.op = "upgrade" /\ proc.faults <= 1 =>
    \A f \in Files : proc.before[f] # 0 => inplace[f] # 0 \/ backup[f] = proc.before[f]

(* A service Windows would start has its program: over installations,      *)
(* roll-backs and uninstallations that fail or are killed half way, unless *)
(* a removal, whose errors are ignored, could not delete the service.      *)
ServiceHasItsFile ==
  service # "absent" /\ ~marked /\ ~spoilt /\ "service" \notin undeleted =>
    inplace[ServiceFile] # 0 \/ backup[ServiceFile] # 0

(* An uninstallation that read the configuration and failed to delete      *)
(* nothing leaves no secret but the presence keys of earlier pairings, no  *)
(* entry in the Run key, a service only until it stops and no file that    *)
(* Windows will not delete, and so it stays; once Windows has started,     *)
(* nothing is left of the files and of the service.                        *)
UninstallClears ==
  /\ after # "no" =>
       /\ secrets \subseteq {"orphan"} /\ ~autorun /\ config = "absent"
       /\ service = "absent" \/ marked
       /\ system32 => "System32" \in doomed
  /\ after \in {"ended", "restarted"} =>
       backup = Nothing /\ \A f \in Files : inplace[f] = 0 \/ f \in doomed
  /\ after = "restarted" => service = "absent" /\ inplace = Nothing /\ ~system32

(* A provider that is registered, which LogonUI loads, is in System32: over *)
(* failing and killed installations, repairs, enabling and disabling,      *)
(* unless unregistering it failed, or Windows has deleted what an earlier  *)
(* removal had left to it (removeOrSchedule). *)
ProviderHasItsFile == registered /\ "provider" \notin undeleted => system32

=============================================================================
