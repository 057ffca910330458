SPECIFICATION Spec
CONSTANT Platforms = {"macos"}
PROPERTY RerunUpgrades
