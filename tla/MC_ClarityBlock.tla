--------------------------- MODULE MC_ClarityBlock ---------------------------
(***************************************************************************)
(* Model-checking instance of ClarityBlock: two contracts where b calls   *)
(* a with contract-call?, two data keys, one value, and a block budget    *)
(* large enough for a whole deploy-and-call flow but small enough that    *)
(* the budget is exceeded in other orders.                                *)
(***************************************************************************)
EXTENDS ClarityBlock, TLC

CONSTANTS a, b, k1, k2, v1

MC_Keys == {k1, k2}
MC_Vals == {v1}
MC_Contracts == {a, b}
MC_Deps == (a :> {}) @@ (b :> {a})
MC_Limit == 4
MC_MaxCost == MC_Limit + 2
=============================================================================
