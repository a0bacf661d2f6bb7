SPECIFICATION LaunchSpec
CONSTANTS
  Scripted = {5, 6, 8}
  MaxObjects = 7
CHECK_DEADLOCK FALSE
INVARIANTS
  LauncherTypeOK
  OneObjectEach
  OnlyConfigUsedDead
  FailedLaunchLeavesNothing
