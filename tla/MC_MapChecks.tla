---------------------------- MODULE MC_MapChecks ----------------------------
EXTENDS MapChecks

CONSTANTS a, b, m, big, other, notatom

\* m: {a: int} -> (optional {a: int}), so `none` is a value admitted with a
\* smaller type; big: {a: bool} -> (buff 8), a value type at MAX_VALUE_SIZE
\* (its optional is one over); other: a map of the deployed contract.
KeyA == TupleType(a :> IntType)
ValM == OptType(TupleType(a :> IntType))
MC_Maps == (m :> [key |-> KeyA, value |-> ValM])
           @@ (big :> [key |-> TupleType(a :> BoolType), value |-> BuffType(8)])
MC_OtherMaps == other :> [key |-> KeyA, value |-> OptType(IntType)]
\* Keys and values an argument expression may check to: the declared ones,
\* an ill-typed key, `none`, and an optional of a wider tuple.
MC_ArgTypes == {KeyA, TupleType(a :> BoolType), ValM, OptType(NoType),
                OptType(TupleType(a :> IntType @@ b :> IntType))}
MC_MaxSize == 8
MC_MaxDepth == 3
MC_IntSize == 2
MC_Limit == 12
=============================================================================
