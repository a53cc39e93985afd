CONSTANTS
  InstallFiles <- Installed
  UpgradeFiles <- Upgraded
  RepairFiles <- Repaired
  ServiceFile = "service"
  ProviderFile = "provider"
  OpenFiles <- Open
  MaxBegun = 4
  MaxFaults = 1
SPECIFICATION Spec
INVARIANTS
  NothingIsLost
  ServiceHasItsFile
  ProviderHasItsFile
  UninstallClears
PROPERTIES
  UpgradeIsWhole
  ServiceComesBack
