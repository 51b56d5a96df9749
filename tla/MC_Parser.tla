------------------------------ MODULE MC_Parser ------------------------------
EXTENDS Parser

\* Inputs of up to six items: enough for "{a:b,}", "{a:b}", "(()" and "{a)".
MC_MaxItems == 6
=============================================================================
