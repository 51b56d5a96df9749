------------------------------ MODULE MC_EvalAll ------------------------------
EXTENDS EvalAll

CONSTANTS a, b

\* Programs of up to three forms over two names: a name defined twice, a
\* failing data var after a write, a budget run out by the third form.
MC_MaxForms == 3
MC_Costs == [BIND_NAME |-> 1, CREATE_VAR |-> 2, CREATE_MAP |-> 2, CREATE_FT |-> 1,
             CREATE_NFT |-> 2, EVAL |-> 1]
MC_Limit == 4
=============================================================================
