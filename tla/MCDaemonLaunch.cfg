CONSTANTS
  Procs <- MCProcs
  SpindleEnv <- MCSpindleUnset
  DirOk = TRUE
  AppCmd <- MCAppCmd
  LaunchLines <- MCReadLines
SPECIFICATION Spec
INVARIANTS
  TypeOK
  AtMostOneDaemon
  RunsLaunchedApp
PROPERTIES
  EveryBootstrapperEnds
CHECK_DEADLOCK FALSE
