CONSTANTS
  Procs <- MCProcs
  SpindleEnv <- MCSpindleUnset
  DirOk = FALSE
  AppCmd <- MCAppCmd
  LaunchLines <- MCReadLines
SPECIFICATION Spec
PROPERTY EveryBootstrapperEnds
CHECK_DEADLOCK FALSE
