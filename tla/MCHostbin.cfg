CONSTANTS
  W <- MCW
  Outputs <- MCOutputs
  HostbinSet = TRUE
  Apps <- MCApps
  NULL = NULL
  NoCall = NoCall
SPECIFICATION Spec
INVARIANTS
  TypeOK
  ProcessTableListsHostbinOutput
CHECK_DEADLOCK FALSE
