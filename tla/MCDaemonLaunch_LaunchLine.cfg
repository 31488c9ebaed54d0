CONSTANTS
  Procs <- MCProcs
  SpindleEnv <- MCSpindleOff
  DirOk = TRUE
  AppCmd <- MCAppCmd
  LaunchLines <- MCFeLines
SPECIFICATION Spec
INVARIANT RunsLaunchedApp
CHECK_DEADLOCK FALSE
