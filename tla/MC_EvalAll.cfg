CONSTANTS
  a = a
  b = b
  Names = {a, b}
  MaxForms <- MC_MaxForms
  Costs <- MC_Costs
  Limit <- MC_Limit
SPECIFICATION Spec
INVARIANTS
  TypeOK
  ResultMatchesReference
  ExecuteAtomic
CHECK_DEADLOCK FALSE
