--------------------------- MODULE MC_Interpreter ---------------------------
EXTENDS Interpreter

CONSTANTS fa, fb, plus, let, nofn, x, y, r, t

\* Every assignment of functions to a fixed shape of five call nodes:
\* main (1) has two argument calls (2 and 5); fa's body (3) has one
\* argument call (4), which is also fb's body; any call may name nofn,
\* which nothing defines.  This covers self and mutual recursion,
\* nesting of natives and specials in arguments and bodies, chains
\* deeper than the stack bound, and a fault in the first argument ahead
\* of one in the second.  The leaves 2 and 4 may instead be a bound
\* variable x, an unbound one y, a reserved one r or a callable contract
\* t; the second argument 5 a bound or unbound variable, an undefined
\* function, a native or a user function.
MC_Kids == (1 :> <<2, 5>>) @@ (2 :> <<>>) @@ (3 :> <<4>>) @@ (4 :> <<>>) @@ (5 :> <<>>)
MC_Programs ==
  {[callee |-> ci @@ cl @@ (5 :> c5), kids |-> MC_Kids, body |-> (fa :> 3) @@ (fb :> 4), main |-> 1] :
     ci \in [{1, 3} -> {fa, fb, plus, let, nofn}],
     cl \in [{2, 4} -> {fa, fb, plus, let, nofn, x, y, r, t}],
     c5 \in {x, y, nofn, plus, fa}}
MC_MaxStack == 3
MC_Limit == 6
=============================================================================
