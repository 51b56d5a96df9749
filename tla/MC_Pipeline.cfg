CONSTANTS
  Nil = Nil
  MaxChars <- MC_MaxChars
  Alphabet <- MC_Alphabet
  Limit <- MC_Limit
  Spent0 <- MC_Spent0
  MaxStackDepth <- MC_MaxStackDepth
SPECIFICATION Spec
INVARIANTS
  TypeOK
  SpansMonotone
CHECK_DEADLOCK FALSE
