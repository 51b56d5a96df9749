CONSTANTS
  a = a
  b = b
  k1 = k1
  k2 = k2
  v1 = v1
  Nil = Nil
  Keys <- MC_Keys
  Vals <- MC_Vals
  Contracts <- MC_Contracts
  Deps <- MC_Deps
  Limit <- MC_Limit
  MaxCost <- MC_MaxCost
SPECIFICATION Spec
INVARIANT
  CostTrackerHome
