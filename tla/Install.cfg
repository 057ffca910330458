SPECIFICATION Spec
CONSTANT Platforms = {"macos", "linux"}
INVARIANTS
  TypeOK
  SocketServed
PROPERTIES
  FaultFreeInstallUpgrades
  LinuxSuccessUpgrades
  FaultFreeUninstallCleans
