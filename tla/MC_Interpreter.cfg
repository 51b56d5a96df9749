CONSTANTS
  fa = fa
  fb = fb
  plus = plus
  let = let
  nofn = nofn
  x = x
  y = y
  r = r
  t = t
  Vars = {x, y, r, t}
  Defined = {x}
  Reserved = {r}
  CallableContracts = {t}
  Funcs = {fa, fb}
  Natives = {plus}
  Specials = {let}
  Unbound = {nofn}
  Programs <- MC_Programs
  MaxStack <- MC_MaxStack
  Limit <- MC_Limit
SPECIFICATION Spec
INVARIANTS
  TypeOK
  ResultMatchesReference
  FirstErrorReturned
CHECK_DEADLOCK FALSE
