CONSTANTS
  HASH_TABLE_SIZE = 8
  MAX_BINDING_STR_SIZE = 2
  BindingCount = 4
  Names <- MCNames
SPECIFICATION Spec
INVARIANTS
  TypeOK
  ProbeChainsUnbroken
  LookupMatchesReference
CHECK_DEADLOCK FALSE
