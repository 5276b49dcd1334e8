SPECIFICATION Spec
CONSTANTS
  available = available
  enabled = enabled
  elsewhere = elsewhere
  old = old
  new = new
  mode644 = mode644
  mode600 = mode600
  Path <- MCPath
  ConfigPath <- MCConfigPath
  Content <- MCContent
  Mode <- MCMode
  DefaultMode = mode644
  MaxCalls = 3
SYMMETRY Symmetry
INVARIANTS
  TypeOK
  OriginalOnDisk
  DamageIsFlagged
  FailureLeavesNoTrace
  ModeKept
PROPERTY AbstractSpec
CHECK_DEADLOCK FALSE
