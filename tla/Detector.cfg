CONSTANTS
  Streams <- AllStreams
  MaxBytes = 16
SPECIFICATION Spec
CHECK_DEADLOCK FALSE
PROPERTY VerdictStableButPreface
