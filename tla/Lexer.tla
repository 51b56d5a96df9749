------------------------------- MODULE Lexer -------------------------------
(***************************************************************************)
(* lex of src/src/vm/ast/parser/mod.rs: the loop that munches the source  *)
(* with the first matching regex, checks the ExpectClosing context, and   *)
(* tags every item with the line and column kept by the line-break       *)
(* bookkeeping (get_lines_at and the check at the top of the loop).       *)
(*                                                                         *)
(* Characters are abstracted to classes; each class stands for the        *)
(* matcher that claims it first:                                          *)
(*   NL "\n" (the "[\n]+" whitespace), SP " " or tab ("[ \t]+"),          *)
(*   COMMA, COLON, LP "(", RP ")", DIGIT (IntLiteral "-?[0-9]+"),         *)
(*   LC "{", RC "}", U the letter "u" (UIntLiteral "u[0-9]+" when a digit *)
(*   follows, else a Variable), LETTER (Variable                          *)
(*   "([[:word:]]|[-!?+<>=/*])+", which also takes digits and "u"),       *)
(*   CR "\r" (no matcher: FailedParsingRemainder).                        *)
(***************************************************************************)
EXTENDS Naturals, FiniteSets, Sequences, SequencesExt

CONSTANTS
  MaxChars,  \* bound of the model: longest source text lexed
  Alphabet,  \* the character classes the source texts are made of
  Nil

Chars == {"NL", "SP", "COMMA", "COLON", "LP", "RP", "LC", "RC", "DIGIT", "U", "LETTER", "CR"}
ASSUME Alphabet \subseteq Chars

Inputs == UNION {[1 .. n -> Alphabet] : n \in 0 .. MaxChars}

VARIABLES
  input,           \* the source text
  munch,           \* munch_index: offset (from 0) of the next character
  lineIndices,     \* line_indices: offsets of the "\n"s not yet popped
  nextLineBreak,   \* next_line_break
  currentLine,     \* current_line
  columnPos,       \* column_pos
  context,         \* LexContext: "nothing" or "closing"
  items,           \* result: [kind, line, col, at, len]; `at` is the
                   \* offset, `len` the length the LexItem carries
  status           \* "running", "ok" or the ParseErrors kind returned

vars == <<input, munch, lineIndices, nextLineBreak, currentLine, columnPos,
          context, items, status>>

CharAt(i) == input[i + 1]      \* the character at offset i

\* get_lines_at: the offsets of "\n", popped smallest first.
LinesAt(s) == SetToSortSeq({i \in 0 .. Len(s) - 1 : s[i + 1] = "NL"}, <)

Init ==
  /\ input \in Inputs
  /\ munch = 0
  /\ lineIndices = IF LinesAt(input) = <<>> THEN <<>> ELSE Tail(LinesAt(input))
  /\ nextLineBreak = IF LinesAt(input) = <<>> THEN Nil ELSE Head(LinesAt(input))
  /\ currentLine = 1
  /\ columnPos = 1
  /\ context = "nothing"
  /\ items = <<>>
  /\ status = "running"

\* TokenType: the kinds of the matchers the character classes reach (the
\* string, hex, quote, principal, trait and identifier literals start with
\* characters the classes leave out).
TokenTypes == {"Whitespace", "Comma", "Colon", "LParens", "RParens", "LCurly", "RCurly",
               "UIntLiteral", "IntLiteral", "Variable"}

\* LexContext: ExpectNothing and ExpectClosing.
LexContexts == {"nothing", "closing"}

(***************************************************************************)
(* The token kind of the first matcher that matches at offset i, and the  *)
(* length of its (greedy) match.                                          *)
(***************************************************************************)
TokenOf(i) ==
  CASE CharAt(i) \in {"NL", "SP"} -> "Whitespace"
    [] CharAt(i) = "COMMA"  -> "Comma"
    [] CharAt(i) = "COLON"  -> "Colon"
    [] CharAt(i) = "LP"     -> "LParens"
    [] CharAt(i) = "RP"     -> "RParens"
    [] CharAt(i) = "LC"     -> "LCurly"
    [] CharAt(i) = "RC"     -> "RCurly"
    [] CharAt(i) = "U" /\ i + 1 < Len(input) /\ CharAt(i + 1) = "DIGIT" -> "UIntLiteral"
    [] CharAt(i) = "DIGIT"  -> "IntLiteral"
    [] CharAt(i) \in {"U", "LETTER"} -> "Variable"
    [] CharAt(i) = "CR"     -> Nil

\* The characters a match of the token at offset i goes on over.
RunOf(i) ==
  CASE TokenOf(i) = "Whitespace" -> {CharAt(i)}
    [] TokenOf(i) \in {"IntLiteral", "UIntLiteral"} -> {"DIGIT"}
    [] TokenOf(i) = "Variable" -> {"LETTER", "DIGIT", "U"}
    [] OTHER -> {}

\* The length a leaf item carries: the `value` capture's (the digits of a
\* "u" literal, without the "u"), or the name's.
ValueLen(tok, len) == IF tok = "UIntLiteral" THEN len - 1 ELSE len

MatchLen(i) ==
  LET ends == {e \in i + 1 .. Len(input) :
                 \A j \in i + 1 .. e - 1 : CharAt(j) \in RunOf(i)}
  IN  CHOOSE e \in ends : \A x \in ends : x <= e

\* Tokens allowed right after an atom (LexContext::ExpectClosing).
Closing == {"RParens", "RCurly", "Whitespace", "Comma", "Colon"}

\* Tokens after which nothing is expected; every other one expects closing.
OpensContext == {"LParens", "LCurly", "Whitespace", "Comma", "Colon"}

(***************************************************************************)
(* One iteration of the while loop.  At its top the line-break check: if  *)
(* munch_index is past the next "\n", pop the following one, reset the   *)
(* column and count a line -- once per iteration, whatever the number of  *)
(* "\n"s the previous match consumed.                                     *)
(***************************************************************************)
BreakPassed == nextLineBreak # Nil /\ munch > nextLineBreak

LineCheck ==
  IF BreakPassed
    THEN /\ nextLineBreak' = IF lineIndices = <<>> THEN Nil ELSE Head(lineIndices)
         /\ lineIndices' = IF lineIndices = <<>> THEN <<>> ELSE Tail(lineIndices)
    ELSE UNCHANGED <<nextLineBreak, lineIndices>>

\* Mutant: the column reset without counting the line.
LineAfterCheckStuck == currentLine

LineAfterCheck == IF BreakPassed THEN currentLine + 1 ELSE currentLine
ColumnAfterCheck == IF BreakPassed THEN 1 ELSE columnPos

\* The context after a token: "default to expect a closing".
NextContext(tok) == IF tok \in OpensContext THEN "nothing" ELSE "closing"

\* The first matcher matches: context check, then push the item at the
\* current line and column and advance the column by the match's length.
LexToken ==
  /\ status = "running" /\ munch < Len(input)
  /\ LineCheck
  /\ currentLine' = LineAfterCheck
  /\ LET tok == TokenOf(munch)
         len == MatchLen(munch) - munch
     IN  /\ tok # Nil
         /\ IF context = "closing" /\ tok \notin Closing
              THEN /\ status' = "SeparatorExpected"
                   /\ columnPos' = ColumnAfterCheck
                   /\ UNCHANGED <<munch, context, items>>
              ELSE /\ munch' = munch + len
                   /\ context' = NextContext(tok)
                   /\ items' = Append(items, [kind |-> tok, line |-> LineAfterCheck,
                                              col |-> ColumnAfterCheck, at |-> munch,
                                              len |-> ValueLen(tok, len)])
                   /\ columnPos' = ColumnAfterCheck + len
                   /\ UNCHANGED status
  /\ UNCHANGED input

\* No matcher matches: the loop stops and the remainder is reported.
LexNoMatch ==
  /\ status = "running" /\ munch < Len(input)
  /\ TokenOf(munch) = Nil
  /\ LineCheck
  /\ currentLine' = LineAfterCheck
  /\ columnPos' = ColumnAfterCheck
  /\ status' = "FailedParsingRemainder"
  /\ UNCHANGED <<input, munch, context, items>>

\* The whole input consumed: Ok(result).
LexEnd ==
  /\ status = "running" /\ munch = Len(input)
  /\ status' = "ok"
  /\ UNCHANGED <<input, munch, lineIndices, nextLineBreak, currentLine,
                 columnPos, context, items>>

Next == LexToken \/ LexNoMatch \/ LexEnd

Spec == Init /\ [][Next]_vars

Done == status # "running"

-----------------------------------------------------------------------------
(***************************************************************************)
(* Reference positions: the line of offset i is one more than the number  *)
(* of "\n"s before it; its column counts from the last "\n" before it.   *)
(***************************************************************************)
NewlinesBefore(i) == {j \in 0 .. i - 1 : CharAt(j) = "NL"}
LineOf(i) == 1 + Cardinality(NewlinesBefore(i))
ColumnOf(i) ==
  IF NewlinesBefore(i) = {} THEN i + 1
  ELSE i - Max(NewlinesBefore(i))

Atoms == {"IntLiteral", "UIntLiteral", "Variable"}

-----------------------------------------------------------------------------
\* Types of the variables.
TypeOK ==
  /\ munch \in 0 .. Len(input)
  /\ context \in LexContexts
  /\ status \in {"running", "ok", "SeparatorExpected", "FailedParsingRemainder"}
  /\ \A k \in 1 .. Len(items) :
       items[k].kind \in TokenTypes /\ items[k].at \in 0 .. Len(input) - 1

\* Spec 4.1: every item carries the line and column of its first
\* character; lines count "\n"s and the column restarts after each one.
LexPositionsCorrect ==
  \A k \in 1 .. Len(items) :
    items[k].line = LineOf(items[k].at) /\ items[k].col = ColumnOf(items[k].at)

=============================================================================
