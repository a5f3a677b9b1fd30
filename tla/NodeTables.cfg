SPECIFICATION Spec
CONSTANTS
  Hooks <- HooksMC
  Others = {"other"}
  OptionSets <- OptionSetsMC
  BinaryLock = "lock16"
  None = None
  MaxFailures = 1
  MaxCrashes = 1
INVARIANTS TypeOK TablesConsistent LocksHeld FlannelExact CleanupComplete
PROPERTIES OthersKept PolicedAgain RestoreEnds
