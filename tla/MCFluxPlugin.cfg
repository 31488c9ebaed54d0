CONSTANTS
  Unset = Unset
  NumVal <- MCNumVal
  ValueOne = OPT_ONE
  Ranks <- MCRanks
  SysConfs <- MCSysConfs
  UserConfs <- MCUserConfs
  JobOpts <- MCJobOpts
SPECIFICATION Spec
INVARIANTS TypeOK OffStopsSpindle
PROPERTIES TasksFinish
CHECK_DEADLOCK FALSE
