CONSTANTS
  MAX_PATH_LEN = 3
  IncludeLists <- MCIncludeLists
  ExcludeLists <- MCExcludeLists
  FileNames <- MCFileNames
SPECIFICATION MCSpec
INVARIANT NumaReplicateAsDocumented
CHECK_DEADLOCK FALSE
