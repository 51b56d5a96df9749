CONSTANTS
  a = a
  b = b
  Names = {a, b}
  MaxSize <- MC_MaxSize
  MaxDepth <- MC_MaxDepth
  IntSize <- MC_IntSize
  MaxLen <- MC_MaxLen
SPECIFICATION Spec
INVARIANTS
  TupleFieldsPresent
CHECK_DEADLOCK FALSE
