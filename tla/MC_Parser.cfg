CONSTANTS
  MaxItems <- MC_MaxItems
SPECIFICATION Spec
INVARIANTS
  TypeOK
  ParseMatchesReference
CHECK_DEADLOCK FALSE
