CONSTANTS
  N <- MCN
  Parent <- MCParent
SPECIFICATION MCSpec
INVARIANTS
  TypeOK
  TopoIsSpanningTree
  RanksAgree
PROPERTIES
  BootstrapCompletes
CHECK_DEADLOCK FALSE
