CONSTANTS
  Unset = Unset
  NumVal <- MCNumVal
  ValueOne = OPT_ONE
  Ranks <- MCRanks
  SysConfs <- MCSysConfs
  UserConfs <- MCNoUserConf
  JobOpts <- MCJobOptsAbsent
SPECIFICATION Spec
INVARIANT NoShellCrash
CHECK_DEADLOCK FALSE
