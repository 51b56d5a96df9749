CONSTANTS
  a = a
  b = b
  m = m
  big = big
  other = other
  notatom = notatom
  Names = {a, b}
  NotAtom = notatom
  Maps <- MC_Maps
  OtherMaps <- MC_OtherMaps
  ArgTypes <- MC_ArgTypes
  MaxSize <- MC_MaxSize
  MaxDepth <- MC_MaxDepth
  IntSize <- MC_IntSize
  Limit <- MC_Limit
SPECIFICATION Spec
INVARIANTS
  TypeOK
  SetLookupsWithinDeclared
PROPERTIES
  CostChargedBeforeTypeError
CHECK_DEADLOCK FALSE
