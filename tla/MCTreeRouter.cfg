CONSTANTS
  N <- MCN
  Parent <- MCParent
  Msgs <- MCMsgs
SPECIFICATION Spec
INVARIANTS
  TypeOK
  ProcessedOnceByRecipients
  InFlightOnTreePath
  SourceOrderKept
PROPERTIES
  DeliveryRefined
CHECK_DEADLOCK FALSE
