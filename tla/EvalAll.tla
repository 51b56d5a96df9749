------------------------------- MODULE EvalAll -------------------------------
(***************************************************************************)
(* eval_all and execute of src/src/vm/mod.rs: the top-level forms of a    *)
(* program evaluated in order against one contract context, inside the   *)
(* transaction execute opens on a fresh, empty store.  One step is one    *)
(* iteration of eval_all's loop: evaluate_define in a nested              *)
(* global_context.execute, then the arm of its DefineResult; or the last  *)
(* step, execute committing or rolling back its transaction.              *)
(*                                                                         *)
(* Modelled from the spec, as their code is not under src/: the nested    *)
(* transactions of GlobalContext::execute (begin; commit on Ok, roll back *)
(* on Err), the cost tracker (add then check; never rolled back), and     *)
(* evaluate_define, which fails with NameAlreadyUsed on a name the        *)
(* contract already binds (spec I3) or on an error in the defined value.  *)
(* A nested transaction opens and closes within one step, so its writes   *)
(* appear in the enclosing layer on Ok and nowhere on Err.                *)
(***************************************************************************)
EXTENDS Naturals, FiniteSets, Sequences, SequencesExt

CONSTANTS
  Names,    \* the names defined and the keys written
  Costs,    \* cost function -> runtime charged: BIND_NAME, CREATE_*, EVAL
  Limit,    \* the tracker's runtime budget
  MaxForms  \* bound of the model: longest program

\* The DefineResult kinds (the first nine) and top-level expressions that
\* are not defines: one without effect, one that writes a key, one that
\* fails.  "data-var-mismatch" is a define-data-var whose initial value
\* its declared type does not admit; "bad-define" a define that fails.
Kinds == {"constant", "private", "data-var", "data-var-mismatch", "map", "ft", "nft",
          "trait", "use-trait", "impl-trait", "bad-define", "pure", "write", "fail"}
Bound == {"constant", "private", "data-var", "data-var-mismatch", "map", "ft", "nft"}
Forms == [kind : Kinds, name : Names]
Programs == UNION {[1 .. n -> Forms] : n \in 1 .. MaxForms}

VARIABLES
  prog,    \* the parsed expressions
  pc,      \* index of the next expression
  ctx,     \* contract_context: <<slot, name>> for each entry of its maps and sets
  store,   \* the committed store: <<object, name>> facts
  txs,     \* open transactions, outermost first: the facts each has written
  spent,   \* the global cost tracker's runtime total
  result,  \* "running", "ok" or the error execute returns
  last     \* last_executed: index of the last expression evaluated, or 0

vars == <<prog, pc, ctx, store, txs, spent, result, last>>

Errors == {"CostBalanceExceeded", "NameAlreadyUsed", "DefineError", "TypeValueError",
           "RuntimeError"}

\* Mutant: eval_all called without execute's enclosing transaction.
InitWithoutOuterTx ==
  /\ prog \in Programs /\ pc = 1 /\ ctx = {} /\ store = {} /\ txs = <<>>
  /\ spent = 0 /\ result = "running" /\ last = 0

\* execute: a transient contract context and an empty store; the parsed
\* program evaluated inside global_context.execute.
Init ==
  /\ prog \in Programs /\ pc = 1 /\ ctx = {} /\ store = {} /\ txs = <<{}>>
  /\ spent = 0 /\ result = "running" /\ last = 0

Form == prog[pc]
Running == result = "running" /\ pc <= Len(prog)

\* Facts written to the innermost open transaction, or to the store.
Write(facts) ==
  IF txs = <<>> THEN store' = store \cup facts /\ UNCHANGED txs
  ELSE txs' = [txs EXCEPT ![Len(txs)] = @ \cup facts] /\ UNCHANGED store

\* An error returned through eval_all after `facts` were written: execute
\* rolls its transaction back, and with it the facts.
FailAfter(e, facts) ==
  /\ result' = e
  /\ IF txs = <<>> THEN store' = store \cup facts /\ txs' = <<>>
                   ELSE store' = store /\ txs' = Front(txs)
  /\ UNCHANGED <<prog, pc, last>>

Fail(e) == FailAfter(e, {}) /\ UNCHANGED ctx

\* runtime_cost!: add to the tracker, fail if the total is over the budget.
\* Mutant: the budget checked against the total before the charge.
OverBeforeCharge(f) == spent > Limit

Over(f) == spent + Costs[f] > Limit
Charge(f) == spent' = spent + Costs[f]

Next1 == pc' = pc + 1 /\ UNCHANGED <<prog, result>>

\* The name is not yet a variable, function or persisted name (I3).
Fresh == \A s \in {"variables", "functions", "persisted"} : <<s, Form.name>> \notin ctx

\* evaluate_define returns an error (its nested transaction rolls back).
eval_define_error ==
  /\ Running
  /\ \/ Form.kind = "bad-define" /\ UNCHANGED spent /\ Fail("DefineError")
     \/ Form.kind \in Bound /\ ~Fresh /\ UNCHANGED spent /\ Fail("NameAlreadyUsed")

\* DefineResult::Variable and ::Function: BIND_NAME, then the insert.
define_bind ==
  /\ Running /\ Form.kind \in {"constant", "private"} /\ Fresh
  /\ Charge("BIND_NAME")
  /\ IF Over("BIND_NAME") THEN Fail("CostBalanceExceeded")
     ELSE /\ ctx' = ctx \cup {<<IF Form.kind = "constant" THEN "variables" ELSE "functions",
                               Form.name>>}
          /\ UNCHANGED <<store, txs, last>> /\ Next1

\* The cost function and the store objects of each persisted define.
CreateCost(k) ==
  CASE k \in {"data-var", "data-var-mismatch"} -> "CREATE_VAR"
    [] k = "map" -> "CREATE_MAP" [] k = "ft" -> "CREATE_FT" [] k = "nft" -> "CREATE_NFT"
Created(k, n) ==
  CASE k \in {"data-var", "data-var-mismatch"} -> {<<"var", n>>}
    [] OTHER -> {<<k, n>>}

\* The store objects a persisted define creates: create_variable and
\* set_variable for a data var, create_map / create_fungible_token /
\* create_non_fungible_token otherwise.
Persisted(k, n) ==
  Created(k, n) \cup (IF k = "data-var" THEN {<<"varval", n>>} ELSE {})

\* Mutant: the fungible-token arm forgets persisted_names.insert.
PersistedNameMissingFt(k, n) == IF k = "ft" THEN {} ELSE {<<"persisted", n>>}

\* contract_context.persisted_names.insert(name).
PersistedName(k, n) == {<<"persisted", n>>}

\* DefineResult::PersistedVariable, ::Map, ::FungibleToken and
\* ::NonFungibleAsset: the CREATE_* charge, the persisted name, the store
\* object; a data var is then set, which fails (with the object already
\* created) when its type does not admit the initial value.
define_persisted ==
  /\ Running /\ Form.kind \in {"data-var", "data-var-mismatch", "map", "ft", "nft"} /\ Fresh
  /\ Charge(CreateCost(Form.kind))
  /\ CASE Over(CreateCost(Form.kind)) -> Fail("CostBalanceExceeded")
       [] Form.kind = "data-var-mismatch" ->
            /\ ctx' = ctx \cup PersistedName(Form.kind, Form.name)
            /\ FailAfter("TypeValueError", Created(Form.kind, Form.name))
       [] OTHER ->
            /\ ctx' = ctx \cup PersistedName(Form.kind, Form.name)
            /\ Write(Persisted(Form.kind, Form.name))
            /\ UNCHANGED last /\ Next1

\* DefineResult::Trait, ::UseTrait and ::ImplTrait: no charge.
define_trait ==
  /\ Running /\ Form.kind \in {"trait", "use-trait", "impl-trait"}
  /\ ctx' = CASE Form.kind = "trait" -> ctx \cup {<<"traits", Form.name>>}
              [] Form.kind = "impl-trait" -> ctx \cup {<<"implemented", Form.name>>}
              [] OTHER -> ctx
  /\ UNCHANGED <<store, txs, spent, last>> /\ Next1

\* DefineResult::NoDefine: eval in a nested transaction; its writes reach
\* the enclosing one on Ok, and last_executed is set.
eval_expression ==
  /\ Running /\ Form.kind \in {"pure", "write", "fail"}
  /\ Charge("EVAL")
  /\ CASE Over("EVAL") -> Fail("CostBalanceExceeded")
       [] Form.kind = "fail" -> Fail("RuntimeError")
       [] OTHER -> /\ Write(IF Form.kind = "write" THEN {<<"data", Form.name>>} ELSE {})
                   /\ last' = pc /\ UNCHANGED ctx /\ Next1

\* eval_all returns Ok(last_executed); execute commits its transaction.
finish ==
  /\ result = "running" /\ pc > Len(prog)
  /\ result' = "ok"
  /\ store' = IF txs = <<>> THEN store ELSE store \cup Last(txs)
  /\ txs' = IF txs = <<>> THEN <<>> ELSE Front(txs)
  /\ UNCHANGED <<prog, pc, ctx, spent, last>>

Next ==
  \/ eval_define_error \/ define_bind \/ define_persisted \/ define_trait
  \/ eval_expression \/ finish

Spec == Init /\ [][Next]_vars

Done == result # "running"

-----------------------------------------------------------------------------
(***************************************************************************)
(* Reference: what execute returns for a program, read off the forms in   *)
(* order -- the first failure decides, the budget is checked on the      *)
(* running total of the charges, and the value is that of the last        *)
(* expression that is not a define -- and what it leaves in the store.    *)
(***************************************************************************)
FormCost(k) ==
  CASE k \in {"constant", "private"} -> "BIND_NAME"
    [] k \in {"pure", "write", "fail"} -> "EVAL"
    [] OTHER -> CreateCost(k)

RECURSIVE Outcome(_, _, _, _)
Outcome(i, bound, cost, lst) ==
  IF i > Len(prog) THEN <<"ok", lst>>
  ELSE LET f == prog[i] IN
    CASE f.kind = "bad-define" -> <<"DefineError", lst>>
      [] f.kind \in Bound /\ f.name \in bound -> <<"NameAlreadyUsed", lst>>
      [] f.kind \in {"trait", "use-trait", "impl-trait"} -> Outcome(i + 1, bound, cost, lst)
      [] cost + Costs[FormCost(f.kind)] > Limit -> <<"CostBalanceExceeded", lst>>
      [] f.kind = "data-var-mismatch" -> <<"TypeValueError", lst>>
      [] f.kind = "fail" -> <<"RuntimeError", lst>>
      [] f.kind \in {"pure", "write"} -> Outcome(i + 1, bound, cost + Costs["EVAL"], i)
      [] OTHER -> Outcome(i + 1, bound \cup {f.name}, cost + Costs[FormCost(f.kind)], lst)

Effect(f) ==
  CASE f.kind \in {"data-var", "map", "ft", "nft"} -> Persisted(f.kind, f.name)
    [] f.kind = "write" -> {<<"data", f.name>>}
    [] OTHER -> {}

-----------------------------------------------------------------------------
\* Types; execute returns Ok only within the budget.
TypeOK ==
  /\ result \in {"running", "ok"} \cup Errors
  /\ pc \in 1 .. Len(prog) + 1 /\ last \in 0 .. Len(prog)
  /\ Len(txs) <= 1
  /\ result = "ok" => spent <= Limit

\* eval_all's result and last_executed are those of the reference: the
\* define errors, the order of each arm's charge and its own failure, and
\* the names bound so far (so a persisted name can never be defined twice).
ResultMatchesReference ==
  Done => <<result, last>> = Outcome(1, {}, 0, 0)

\* Spec I5 and section 4.6: execute is all or nothing.  The define arms
\* create store objects outside eval_all's nested transactions, between
\* a charge and a set_variable that may fail; execute's transaction makes
\* an error leave the store as it was, and Ok leave every form's effect.
ExecuteAtomic ==
  Done =>
    /\ txs = <<>>
    /\ store = IF result = "ok" THEN UNION {Effect(prog[i]) : i \in 1 .. Len(prog)} ELSE {}

=============================================================================
