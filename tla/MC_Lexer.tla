------------------------------ MODULE MC_Lexer ------------------------------
EXTENDS Lexer

\* Source texts of up to six characters: "\n\nab c" fits, as do "1a",
\* ")(" and "a\r".
MC_MaxChars == 6

\* The classes of the lexer runs; braces and "u" literals are lexed in the
\* Pipeline runs.
MC_Alphabet == {"NL", "SP", "COMMA", "COLON", "LP", "RP", "DIGIT", "LETTER", "CR"}
=============================================================================
