CONSTANTS
  Nil = Nil
  MaxChars <- MC_MaxChars
  Alphabet <- MC_Alphabet
SPECIFICATION Spec
INVARIANT
  LexPositionsCorrect
CHECK_DEADLOCK FALSE
