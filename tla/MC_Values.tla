----------------------------- MODULE MC_Values -----------------------------
EXTENDS Values

CONSTANTS a, b

\* MAX_VALUE_SIZE and MAX_TYPE_DEPTH scaled down with the int's size, so
\* that a few constructor calls reach each limit and both limits are hit
\* by wrappers, lists and tuples.
MC_MaxSize == 8
MC_MaxDepth == 3
MC_IntSize == 2
MC_MaxLen == 2
=============================================================================
