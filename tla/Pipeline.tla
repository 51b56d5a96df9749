------------------------------ MODULE Pipeline ------------------------------
(***************************************************************************)
(* build_ast of src/src/vm/ast/mod.rs and parse of                        *)
(* src/src/vm/ast/parser/mod.rs: charge AST_PARSE for the source length,  *)
(* lex the source text, hand the items to parse_lexed, then run the AST  *)
(* passes over what it returns.  The lexer and the parser are the modules *)
(* Lexer and Parser, run one after the other; the parser's items are the  *)
(* lexer's, abstracted to their kind, and whitespace, which parse_lexed   *)
(* skips, is dropped.  Spans are read back in lines and columns from the *)
(* lexer items the parser's item positions stand for.                     *)
(*                                                                         *)
(* Of the passes, StackDepthChecker and ExpressionIdentifier are modelled *)
(* from the spec (section 4.3), as their code is not under src/; the     *)
(* cost function AST_PARSE is taken as the identity on the length.       *)
(* DefinitionSorter, TraitsResolver and SugarExpander act on define      *)
(* forms, trait references and sugared identifiers, which the texts of   *)
(* the model do not contain, and are left out.                           *)
(***************************************************************************)
EXTENDS Naturals, Sequences, SequencesExt

CONSTANTS
  MaxChars,       \* bound of the model: longest source text
  Alphabet,       \* the character classes of the source texts
  Nil,
  Limit,          \* the cost tracker's runtime budget
  Spent0,         \* the totals the tracker may hold when build_ast is called
  MaxStackDepth   \* StackDepthChecker's cap on list nesting

VARIABLES
  input, munch, lineIndices, nextLineBreak, currentLine, columnPos,
  context, items, status,                       \* the lexer's
  lexed, pos, stack, out, result,               \* the parser's
  spent,    \* cost_track's runtime total
  built,    \* build_ast: "idle", "parsing", "ok" or the error it returns
  exprs     \* contract_ast.expressions, with the ids of ExpressionIdentifier

lexVars == <<input, munch, lineIndices, nextLineBreak, currentLine, columnPos,
             context, items, status>>
parseVars == <<lexed, pos, stack, out, result>>
astVars == <<spent, built, exprs>>
vars == <<lexVars, parseVars, astVars>>

L == INSTANCE Lexer
P == INSTANCE Parser WITH MaxItems <- MaxChars

\* The items parse_lexed acts on, and the kind each stands for: a leaf for
\* every Variable or LiteralValue (names of the classes modelled are
\* valid ClarityNames, so BADNAME does not arise).
Toks == SelectSeq(items, LAMBDA it : it.kind # "Whitespace")

ItemKind(k) ==
  CASE k = "LParens" -> "LP" [] k = "RParens" -> "RP"
    [] k = "LCurly" -> "LC"  [] k = "RCurly" -> "RC"
    [] k = "Colon" -> "COLON" [] k = "Comma" -> "COMMA"
    [] OTHER -> "LEAF"

\* Before the lexer returns, the parser has nothing to do.
Init ==
  /\ L!Init
  /\ lexed = <<>> /\ pos = 1 /\ stack = <<>> /\ out = <<>> /\ result = "idle"
  /\ spent \in Spent0 /\ built = "idle" /\ exprs = <<>>

\* `runtime_cost!(AST_PARSE, cost_track, source_code.len())?`: add, then
\* fail if the total is over the budget; only then is the text parsed.
build_ast_charge ==
  /\ built = "idle"
  /\ spent' = spent + Len(input)
  /\ built' = IF spent + Len(input) > Limit THEN "CostBalanceExceeded" ELSE "parsing"
  /\ UNCHANGED <<lexVars, parseVars, exprs>>

LexStep == built = "parsing" /\ L!Next /\ UNCHANGED <<parseVars, astVars>>

\* Mutant: the lexer's error not propagated (`?` dropped); the items
\* lexed so far are parsed.
HandoffUnchecked ==
  /\ status # "running" /\ result = "idle"
  /\ lexed' = [k \in 1 .. Len(Toks) |-> ItemKind(Toks[k].kind)]
  /\ result' = "running"
  /\ UNCHANGED <<pos, stack, out, lexVars, astVars>>

\* `let lexed = lex(input)?; parse_lexed(lexed)`.
Handoff ==
  /\ status = "ok" /\ result = "idle"
  /\ lexed' = [k \in 1 .. Len(Toks) |-> ItemKind(Toks[k].kind)]
  /\ result' = "running"
  /\ UNCHANGED <<pos, stack, out, lexVars, astVars>>

ParseStep == P!Next /\ UNCHANGED <<lexVars, astVars>>

Done == P!Done /\ result # "idle"

(***************************************************************************)
(* The passes after parse.  StackDepthChecker rejects a forest with lists *)
(* nested deeper than the cap.  ExpressionIdentifier walks the forest in  *)
(* document order and gives each node the next id, from 1.               *)
(***************************************************************************)
RECURSIVE ListDepth(_)
ListDepth(n) ==
  (IF n.kind = "list" THEN 1 ELSE 0)
    + FoldLeft(LAMBDA d, c : IF ListDepth(c) > d THEN ListDepth(c) ELSE d, 0, n.items)

RECURSIVE NodeCount(_)
NodeCount(n) == 1 + FoldLeft(LAMBDA acc, c : acc + NodeCount(c), 0, n.items)

ForestCount(f) == FoldLeft(LAMBDA acc, c : acc + NodeCount(c), 0, f)

RECURSIVE Identify(_, _)
Identify(f, next) ==
  [k \in 1 .. Len(f) |->
     LET id == next + ForestCount(SubSeq(f, 1, k - 1)) IN
     [kind |-> f[k].kind, span |-> f[k].span, id |-> id,
      items |-> Identify(f[k].items, id + 1)]]

\* build_ast after parse returns: an error of lex or parse_lexed is
\* returned through `?`; otherwise ContractAST::new holds the forest and
\* the passes run in order.
build_ast_passes ==
  /\ built = "parsing"
  /\ \/ status \notin {"running", "ok"} /\ built' = status /\ UNCHANGED exprs
     \/ Done /\ result # "ok" /\ built' = result /\ UNCHANGED exprs
     \/ /\ Done /\ result = "ok"
        /\ \E k \in 1 .. Len(out) : ListDepth(out[k]) > MaxStackDepth
        /\ built' = "ExpressionStackDepthTooDeep" /\ UNCHANGED exprs
     \/ /\ Done /\ result = "ok"
        /\ \A k \in 1 .. Len(out) : ListDepth(out[k]) <= MaxStackDepth
        /\ built' = "ok" /\ exprs' = Identify(out, 1)
  /\ UNCHANGED <<spent, lexVars, parseVars>>

Next == build_ast_charge \/ LexStep \/ Handoff \/ ParseStep \/ build_ast_passes

Spec == Init /\ [][Next]_vars

-----------------------------------------------------------------------------
(***************************************************************************)
(* Spans in (line, column): set_span of a list or tuple takes the line    *)
(* and column of its opening and of its closing item; a leaf's ends at    *)
(* column + length - 1 on its own line, with the length its LexItem       *)
(* carries.                                                               *)
(***************************************************************************)
Start(n) == << Toks[n.span[1]].line, Toks[n.span[1]].col >>
End(n) ==
  IF n.kind = "atom"
    THEN << Toks[n.span[1]].line, Toks[n.span[1]].col + Toks[n.span[1]].len - 1 >>
    ELSE << Toks[n.span[2]].line, Toks[n.span[2]].col >>

Before(a, b) == a[1] < b[1] \/ (a[1] = b[1] /\ a[2] < b[2])
NotAfter(a, b) == a = b \/ Before(a, b)

SiblingsOrdered(s) == \A k \in 1 .. Len(s) - 1 : Before(End(s[k]), Start(s[k + 1]))

RECURSIVE SpansNest(_)
SpansNest(n) ==
  /\ NotAfter(Start(n), End(n))
  /\ SiblingsOrdered(n.items)
  /\ \A k \in 1 .. Len(n.items) :
       /\ Before(Start(n), Start(n.items[k])) /\ Before(End(n.items[k]), End(n))
       /\ SpansNest(n.items[k])

\* The characters of the token the k-th parser item came from: from its
\* offset to the next item's, or to the end of the text.
TokenLen(k) ==
  LET next == {it.at : it \in {items[j] : j \in 1 .. Len(items)}} \ (0 .. Toks[k].at)
  IN  IF next = {} THEN Len(input) - Toks[k].at ELSE Min(next) - Toks[k].at

-----------------------------------------------------------------------------
\* Types: the parser runs only on what the lexer returned.
TypeOK ==
  /\ L!TypeOK
  /\ result \in {"idle", "running", "ok"} \cup P!Errors
  /\ result # "idle" => status = "ok" /\ Len(lexed) = Len(Toks)
  /\ built \in {"idle", "parsing", "ok", "CostBalanceExceeded", "ExpressionStackDepthTooDeep",
                "SeparatorExpected", "FailedParsingRemainder"} \cup P!Errors
  /\ status # "running" \/ munch > 0 => built # "idle"

\* Spec section 9 ("spans monotonically cover s"): in what parse returns,
\* every node's span starts no later than it ends, the spans of siblings
\* follow each other without overlap, and a list or tuple's span strictly
\* contains its children's: the lexer's line and column bookkeeping and
\* parse_lexed's set_span calls agree on one order of the text.
SpansMonotone ==
  (Done /\ result = "ok") =>
    /\ SiblingsOrdered(out)
    /\ \A k \in 1 .. Len(out) : SpansNest(out[k])

\* Spec section 4.2: a leaf's span runs from (line, col) to
\* (line, col + token_len - 1), so it ends on the token's last character.
LeafSpansCoverTokens ==
  (Done /\ result = "ok") =>
    \A k \in 1 .. Len(Toks) :
      lexed[k] = "LEAF" => Toks[k].len = TokenLen(k)

=============================================================================
