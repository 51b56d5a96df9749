------------------------------- MODULE Parser -------------------------------
(***************************************************************************)
(* parse_lexed of src/src/vm/ast/parser/mod.rs: the loop that folds the   *)
(* lexer's items into pre-expressions with a stack of open frames, each   *)
(* a CollectList or a CollectTuple.  One step of the model is one         *)
(* iteration of the loop; the final step is the check of the unfinished  *)
(* stack.                                                                  *)
(*                                                                         *)
(* Items are abstracted to their kind: "(" ")" "{" "}" ":" ",", a leaf    *)
(* (a variable, literal value, sugared or qualified identifier or trait   *)
(* reference: they are all pushed the same way) and a leaf whose name     *)
(* fails the ClarityName conversion.  Whitespace items do nothing and are *)
(* left out.  A node records its kind, its children and its span as the   *)
(* positions of its first and last item.                                  *)
(***************************************************************************)
EXTENDS Naturals, FiniteSets, Sequences, SequencesExt

CONSTANTS
  MaxItems  \* bound of the model: longest item sequence parsed

Items == {"LP", "RP", "LC", "RC", "COLON", "COMMA", "LEAF", "BADNAME"}

\* Every lexer output of at most MaxItems items.
Inputs == UNION {[1 .. n -> Items] : n \in 0 .. MaxItems}

Errors == {"ClosingParenthesisUnexpected", "ClosingParenthesisExpected",
           "ClosingTupleLiteralUnexpected", "ClosingTupleLiteralExpected",
           "ColonSeparatorUnexpected", "CommaSeparatorUnexpected",
           "IllegalVariableName"}

VARIABLES
  lexed,   \* the input vector
  pos,     \* index of the next item (the drain iterator)
  stack,   \* parse_stack: frames [ctx, items, start]
  out,     \* output_list
  result   \* "running", "ok", or the ParseErrors kind returned

vars == <<lexed, pos, stack, out, result>>

Leaf(i) == [kind |-> "atom", items |-> <<>>, span |-> <<i, i>>]
Node(kind, items, s, e) == [kind |-> kind, items |-> items, span |-> <<s, e>>]

\* ParseContext: CollectList and CollectTuple.
ParseContexts == {"list", "tuple"}

Init ==
  /\ lexed \in Inputs
  /\ pos = 1
  /\ stack = <<>>
  /\ out = <<>>
  /\ result = "running"

Item == lexed[pos]
Reading == result = "running" /\ pos <= Len(lexed)

\* Push a finished node onto the open frame's items, or onto the output
\* when no frame is open (parse_stack.last_mut() is None).
EmitFrom(st, node) ==
  IF st = <<>>
    THEN /\ out' = Append(out, node) /\ stack' = st
    ELSE /\ stack' = [st EXCEPT ![Len(st)].items = Append(@, node)]
         /\ UNCHANGED out

Advance == pos' = pos + 1 /\ UNCHANGED <<lexed, result>>

Fail(e) == result' = e /\ UNCHANGED <<lexed, pos, stack, out>>

\* Mutant: the frame records the position after its opening item.
OpenFrameAfter(ctx) ==
  /\ stack' = Append(stack, [ctx |-> ctx, items |-> <<>>, start |-> pos + 1])
  /\ UNCHANGED out
  /\ Advance

OpenFrame(ctx) ==
  /\ stack' = Append(stack, [ctx |-> ctx, items |-> <<>>, start |-> pos])
  /\ UNCHANGED out
  /\ Advance

\* LexItem::LeftParen and LexItem::LeftCurly
LeftParen == Reading /\ Item = "LP" /\ OpenFrame("list")
LeftCurly == Reading /\ Item = "LC" /\ OpenFrame("tuple")

(***************************************************************************)
(* Closing a frame: pop it; if it has the expected context, make the node *)
(* with the span from the opening item to this one and push it; with the  *)
(* other context, fail with `mismatch`; with no frame, fail with `none`.  *)
(***************************************************************************)
CloseFrame(ctx, none, mismatch) ==
  IF stack = <<>> THEN Fail(none)
  ELSE LET top == Last(stack) IN
       IF top.ctx = ctx
         THEN /\ EmitFrom(Front(stack), Node(ctx, top.items, top.start, pos))
              /\ Advance
         ELSE Fail(mismatch)

\* LexItem::RightParen
RightParen ==
  /\ Reading /\ Item = "RP"
  /\ CloseFrame("list", "ClosingParenthesisUnexpected",
                "ClosingTupleLiteralExpected")

\* LexItem::RightCurly
RightCurly ==
  /\ Reading /\ Item = "RC"
  /\ CloseFrame("tuple", "ClosingTupleLiteralUnexpected",
                "ClosingParenthesisExpected")

\* LexItem::Variable, LiteralValue, Sugared*/FieldIdentifier, TraitReference:
\* the name conversion (try_into) may fail with IllegalVariableName.
LeafItem ==
  /\ Reading
  /\ \/ Item = "LEAF" /\ EmitFrom(stack, Leaf(pos)) /\ Advance
     \/ Item = "BADNAME" /\ Fail("IllegalVariableName")

(***************************************************************************)
(* Separators are legal only in a tuple frame: a colon after an odd       *)
(* number of items (after a key), a comma after a non-zero even number    *)
(* (after a value).  A legal separator changes nothing.                   *)
(***************************************************************************)
\* Mutant: the parity test of the colon inverted.
ColonAllowedEven(st) == st # <<>> /\ Last(st).ctx = "tuple" /\ Len(Last(st).items) % 2 = 0
ColonAllowed(st) == st # <<>> /\ Last(st).ctx = "tuple" /\ Len(Last(st).items) % 2 = 1
CommaAllowed(st) ==
  /\ st # <<>> /\ Last(st).ctx = "tuple"
  /\ Len(Last(st).items) # 0 /\ Len(Last(st).items) % 2 = 0

ColonSeparator ==
  /\ Reading /\ Item = "COLON"
  /\ IF ColonAllowed(stack) THEN UNCHANGED <<stack, out>> /\ Advance
                            ELSE Fail("ColonSeparatorUnexpected")

CommaSeparator ==
  /\ Reading /\ Item = "COMMA"
  /\ IF CommaAllowed(stack) THEN UNCHANGED <<stack, out>> /\ Advance
                            ELSE Fail("CommaSeparatorUnexpected")

\* After the loop: an unfinished stack is ClosingParenthesisExpected.
Finish ==
  /\ result = "running" /\ pos > Len(lexed)
  /\ result' = IF stack = <<>> THEN "ok" ELSE "ClosingParenthesisExpected"
  /\ UNCHANGED <<lexed, pos, stack, out>>

Next ==
  \/ LeftParen \/ RightParen \/ LeftCurly \/ RightCurly
  \/ LeafItem \/ ColonSeparator \/ CommaSeparator \/ Finish

Spec == Init /\ [][Next]_vars

Done == result # "running"

-----------------------------------------------------------------------------
(***************************************************************************)
(* Reference definition of what parse_lexed accepts and builds, stated    *)
(* over the whole input rather than step by step: nesting depth after     *)
(* each item, the opening item each closing item or separator belongs to, *)
(* and the trees read off the matched brackets.                           *)
(***************************************************************************)
Openers == {"LP", "LC"}
Closers == {"RP", "RC"}
CtxOf(it) == IF it \in {"LP", "RP"} THEN "list" ELSE "tuple"

\* Depth after item i (Depth(0) = 0).
Depth(i) == Cardinality({m \in 1 .. i : lexed[m] \in Openers})
            - Cardinality({m \in 1 .. i : lexed[m] \in Closers})

\* The innermost opening item still open just before item i.
Enclosing(i) ==
  LET cand == {j \in 1 .. i - 1 : lexed[j] \in Openers /\ Depth(j) = Depth(i - 1)}
  IN  IF cand = {} THEN 0 ELSE CHOOSE j \in cand : \A x \in cand : x <= j

\* The items between positions o and e that are direct children of the
\* frame opened at o: leaves and closing items at the frame's own depth.
ChildPositions(o, e) ==
  {m \in o + 1 .. e - 1 : Depth(m) = Depth(o) /\ lexed[m] \in Closers \cup {"LEAF"}}

SeparatorOk(i) ==
  LET o == Enclosing(i)
      n == Cardinality(ChildPositions(o, i))
  IN  /\ o # 0 /\ lexed[o] = "LC"
      /\ IF lexed[i] = "COLON" THEN n % 2 = 1 ELSE n # 0 /\ n % 2 = 0

WellFormed ==
  LET N == Len(lexed) IN
  /\ \A i \in 1 .. N : lexed[i] # "BADNAME"
  /\ \A i \in 1 .. N : Depth(i) >= 0
  /\ Depth(N) = 0
  /\ \A i \in 1 .. N : lexed[i] \in Closers => CtxOf(lexed[Enclosing(i)]) = CtxOf(lexed[i])
  /\ \A i \in 1 .. N : lexed[i] \in {"COLON", "COMMA"} => SeparatorOk(i)

RECURSIVE TreeAt(_), Children(_, _)
TreeAt(m) ==
  IF lexed[m] = "LEAF" THEN Leaf(m)
  ELSE LET o == Enclosing(m) IN Node(CtxOf(lexed[m]), Children(o, m), o, m)
Children(o, e) ==
  LET ps == SetToSortSeq(ChildPositions(o, e), <)
  IN  [x \in 1 .. Len(ps) |-> TreeAt(ps[x])]

\* The top-level pre-expressions of a well-formed input.
Forest == Children(0, Len(lexed) + 1)


-----------------------------------------------------------------------------
(***************************************************************************)
(* Properties.                                                            *)
(***************************************************************************)

\* Types; every open frame's start is the position of the "(" or "{" that
\* opened it, so the span set on the node it becomes starts there.
TypeOK ==
  /\ lexed \in Inputs
  /\ pos \in 1 .. Len(lexed) + 1
  /\ result \in {"running", "ok"} \cup Errors
  /\ \A f \in Range(stack) :
        /\ f.ctx \in ParseContexts
        /\ f.start \in 1 .. Len(lexed)
        /\ CtxOf(lexed[f.start]) = f.ctx /\ lexed[f.start] \in Openers

\* parse_lexed returns Ok exactly for the inputs the reference calls well
\* formed (balanced, matching brackets, separators only at legal places of
\* a tuple, no illegal name), and then its output list is the reference
\* forest: same nesting, same kinds, spans from opening to closing item.
ParseMatchesReference ==
  Done => /\ (result = "ok") <=> WellFormed
          /\ result = "ok" => out = Forest

=============================================================================
