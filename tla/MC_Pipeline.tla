----------------------------- MODULE MC_Pipeline -----------------------------
EXTENDS Pipeline

\* Source texts of up to five characters over the classes the parser tells
\* apart: "{u:1}", "(u1)", "u\n{}" and "u1\nu" fit.  Whitespace is only
\* "\n", which both separates atoms and moves to a new line; "\r" has no
\* matcher.
MC_MaxChars == 5
MC_Alphabet == {"NL", "COMMA", "COLON", "LP", "RP", "LC", "RC", "DIGIT", "U", "CR"}
\* A budget the longest texts just fit from an empty tracker; from a
\* tracker already at 3 only texts of up to two characters are parsed.
\* One level of lists is allowed: "(())" is too deep, "({})" is not.
MC_Limit == 5
MC_Spent0 == {0, 3}
MC_MaxStackDepth == 1
=============================================================================
