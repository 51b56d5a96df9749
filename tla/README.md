# TLA+ models of the Clarity VM core (blockstack-core, `src/src/vm`)

This directory holds TLA+ models of the parts of the Clarity VM whose
correctness depends on the order of steps. Each is checked with TLC.

## The system and its parts

| Part | Source | What it does |
|---|---|---|
| Lexer | `ast/parser/mod.rs` `lex` | Munches the source with the first matching regex. It enforces the ExpectClosing context and tags each item with a line and column. |
| Parser | `ast/parser/mod.rs` `parse_lexed` | Folds items into pre-expressions using a stack of list and tuple frames. |
| Parse | `ast/parser/mod.rs` `parse` | Lexes, then hands the items to `parse_lexed`. The spans of the returned nodes come from the lexer's lines and columns. |
| AST build | `ast/mod.rs` `build_ast` | Charges `AST_PARSE`, then runs the parser and the AST passes. |
| Analysis | `analysis/mod.rs` `run_analysis` | Runs the ReadOnly, Type and Trait passes inside an analysis-db transaction. It owns the cost tracker while it runs. |
| Top-level evaluation | `mod.rs` `eval_all`, `execute` | Evaluates the top-level forms in order. Each define's result is charged, bound in the contract context and, if persisted, created in the store. Other forms are evaluated in nested transactions. `execute` encloses it all in one transaction. |
| Interpreter | `mod.rs` `eval`, `lookup_function`, `apply` | Looks up the function (metered), checks recursion and depth against the call stack, evaluates the arguments, charges the native's cost, and removes the call-stack entry. |
| Block connection | `clarity.rs` | `ClarityInstance` owns the `MarfedKV` store. `begin_block` moves it into the single `ClarityBlockConnection`, which holds the block's `LimitedCostTracker`. Each operation opens a nested ClarityDatabase or AnalysisDatabase transaction. Commit or rollback gives the store back; `destroy` recovers it from the instance between blocks. |
| Values | `types/mod.rs` | Constructors that enforce the size and depth limits (`some`, `okay`, `error`, `list_with_type`, `list_from`, `buff_from`, `TupleData::from_data`, `from_data_typed`), and `TupleData::get`. |
| Map checks | `analysis/type_checker/natives/maps.rs` | The TypeChecker's checks of `fetch-entry`, `fetch-contract-entry`, `delete-entry`, `set-entry` and `insert-entry`: arity, map name, the map's declared types, cost charges, then admission. |

How the parts interact:
- The connection drives everything. `analyze_smart_contract` calls `build_ast` and
  then `run_analysis`. `initialize_smart_contract` and `run_contract_call` run the
  interpreter inside `with_abort_callback`.
- The cost tracker is moved, never shared:
  - from the connection into the analysis and back;
  - from the connection into the `OwnedEnvironment` and back.
- Stores nest. Block tip ⊃ nested transaction ⊃ the interpreter's writes.

### Hard behaviours (the hazards list in PROJECT.json gives each one at its line)

- The tracker is lost when an analysis fails (`clarity.rs:268`).
- `commit_block` panics on `unwrap` after the block is already committed
  (`clarity.rs:185`).
- A connection dropped without commit or rollback leaves the instance without
  its store, so the next `begin_block` panics (`clarity.rs:109`).
- `abort_call_back` returning `true` rolls back but still returns `Ok`
  (`clarity.rs:294`).
- `save_analysis` is a separate, unmetered step (`clarity.rs:312`).
- The budget is checked after the charge is added, and an exceeded total is kept.
- Recursion versus depth in `apply` (`mod.rs:100-106`).
- A native's cost error leaves its call-stack entry behind (`mod.rs:128`). Each
  caller's `CallStack::remove` then pops the entry above its own.
- `apply` evaluates its arguments left to right and `collect` stops at the
  first error (`mod.rs:117`): which error a call returns depends on that order.
  An earlier version of the Interpreter model moved a caller on twice per
  argument call, which skipped the next argument; with two-argument calls in
  the MC module, `ResultMatchesReference` now catches that.
- `from_data_typed` never checks that every field of the expected type is given
  (`types/mod.rs:520`).
- `From<InterpreterError>` promotes only the interpreter's cost errors to `CostError`
  (`clarity.rs:64`). A budget spent in `build_ast` or `run_analysis` comes back as
  Parse or Analysis, and a transaction entered over budget that fails before its
  first metered event comes back as Interpreter.
- `set-entry` charges its lookup with the value argument's type size, not with the
  map's declared type (`maps.rs:118`).
- A `define-data-var` creates its variable before `set_variable` can fail
  (`mod.rs:202`). Only the enclosing transaction undoes it.
- The lexer tracks lines wrongly across runs of newlines (`parser/mod.rs:127`).
- A `u` literal's span ends one column before its last character (`parser/mod.rs:216`).
  The literal carries the length of its digits only, not the `u`. String, hex, quote
  and principal literals do the same.

## Modules

| Module | Models | State (VARIABLES) and actions |
|---|---|---|
| `AtomicBlocks` | Spec section 5: what a block connection promises | `store`, `pending`. Actions: Open, Transact (contracts and analyses only grow), Commit, Abandon. |
| `ClarityBlock` | `clarity.rs` (the envelope), with `run_analysis` and the tracker as seen from it | `instHasStore` (the instance's `Option<MarfedKV>`), `connOpen`, `panicked`, `committed` (disk), `tip` (MARF tip), `costTrack` (the `Option<LimitedCostTracker>` total), `op` (the envelope in progress: its kind, nested writes, the environment's tracker), `spent` (history), `analyzed` and `initOk` (the caller's results), `abortCb`, `returned` (history: the `clarity::Error` class the last analysis or execution returned; `ErrorFrom` is `From<InterpreterError>`, which turns a cost error into `CostError(total, limit)`, while parse and analysis errors keep their class). There is one action per public method (`destroy` included, followed by `ClarityInstance::new` over the returned store), one entry and one exit action for each `with_*` envelope, and `db_write`, `runtime_cost` and `runtime_error` for the closure running inside. |
| `Parser` | `parse_lexed` | `lexed`, `pos`, `stack` (frames in a `ParseContext`), `out`, `result`. There is one action per `LexItem` arm, plus `Finish` for the unfinished-stack check. |
| `Lexer` | `lex`, `get_lines_at` | `input`, `munch`, `lineIndices`, `nextLineBreak`, `currentLine`, `columnPos`, `context`, `items`, `status`. `LexToken` is one loop iteration (line check, first matcher, context check, push). The other actions are `LexNoMatch` and `LexEnd`. Each item records the length its `LexItem` carries (`ValueLen`), and its kind is a `TokenType`; `context` is a `LexContext`. |
| `Pipeline` | `build_ast`, `parse` | The variables of `Lexer` and of `Parser`, composed with `INSTANCE`, and `spent`, `built` (what `build_ast` returns) and `exprs` (the identified forest). `build_ast_charge` is the `AST_PARSE` charge on the text's length, which must pass before the lexer starts. `LexStep` is a lexer step. `Handoff` is the `lex(input)?` returning `Ok`: it gives the parser the non-whitespace items, as kinds. `ParseStep` is a parser step. `build_ast_passes` returns a lex or parse error through `?`, or runs StackDepthChecker (`ListDepth` against `MaxStackDepth`) and ExpressionIdentifier (`Identify`: pre-order ids from 1), both modelled from spec 4.3. `Start` and `End` read a node's span in (line, column) from the items its positions name. |
| `Interpreter` | `eval`, `lookup_variable`, `lookup_function`, `apply` | `prog`, `callStack`, `frames` (the recursion of eval and apply as an explicit stack), `spent`, `result`. The actions are `lookup_variable` (an Atom: reserved, bound, a callable contract of `callable_contracts`, or unbound), `eval_call` (the LOOKUP_FUNCTION charge, `lookup_function` with its UndefinedFunction error, recursion check, depth check, insert), one action per callable kind when its arguments are done, and `apply_error_return`, one apply passing an error on. A frame's `next` is its argument being evaluated; it moves on only when that argument returns a value (`ReturnValue`), as `collect` takes one value per argument and stops at the first error. `CallStack::remove` pops (spec); with the apply's own entry on the stack it cannot fail. |
| `EvalAll` | `eval_all`, `execute` | `prog`, `pc`, `ctx` (the contract context's maps and sets as slot/name pairs), `store`, `txs` (open transactions and their writes), `spent`, `result`, `last` (`last_executed`). The actions are `eval_define_error`, `define_bind`, `define_persisted`, `define_trait` (one per group of `DefineResult` arms), `eval_expression` (`NoDefine`), and `finish` (execute's commit). `evaluate_define`, the transactions and the tracker follow the spec. |
| `TypeSignatures` | `types/signatures.rs` (not under `src/`, modelled from the spec) | No state. Operators: `Size` (a wrapper adds 1), `Depth`, `SignatureError` (the constructors' checks), `Admits`, `Compatible`/`Unify` (least supertype), `TypeSize`. |
| `Values` | `types/mod.rs` | `held` (the value the evaluation holds) and `status`. There is one action per constructor, plus `get`. The arguments are the held value and the literals, so chains of calls build nested values. |
| `MapChecks` | `maps.rs` | `spent` (the checker's tracker), `result`, `call` and `charged` (the last check and its charges). There is one action per check function. Each runs its guards and `runtime_cost!` charges in the code's order, and stops at the first failure. |

Each MC module instantiates a model with constants. Each has its own `.cfg`.

### Abstractions

- **Stores.** A store is the data keys written, the set of initialized contracts,
  and the set of saved analyses.
- **Costs.** Every metered event costs one runtime unit. This is enough to
  distinguish "under", "at" and "over" the limit.
- **Lexer input.** Characters are abstracted to classes. Each class names the
  matcher that claims it first.
- **Parser input.** Items are abstracted to their kind.
- **Interpreter programs.** A program is a small forest of call nodes.
- **Code outside `src/`.** The cost tracker, the nested transactions and the
  contract execution are modelled from the spec. They are marked
  `spec_modelled` in the map.

### The caller of ClarityBlock

The caller is any sequence of API calls. It saves an analysis only after
`analyze_smart_contract` returned it in the same block and
`initialize_smart_contract` returned `Ok`. That is the discipline the
repository's tests follow.

### Panics and restarts

A panic (`expect` or `unwrap`) ends the process. `new_instance` restarts it over
the persisted store. The uncommitted tip is gone; the committed blocks remain.

## Runs

| Run | Checks | Result |
|---|---|---|
| `block_envelope` (`MC_ClarityBlock.cfg`) | `TypeOK`, `CostAccounted`, `BudgetGatesExecution`, and `RefinesAtomicBlocks` (refinement of `AtomicBlocks`), and `CostErrorReported` (spec 5 and 6: an execution returns CostError exactly when it met a metered event with the block over budget, and reports the block's whole runtime as the total) | passes; 1,868,985 states |
| `tracker_lost` | `CostTrackerHome`: the idle connection holds its tracker | violated after a failed analysis (finding) |
| `aborted_init` | `AnalysisImpliesContract` | violated via an aborted init followed by `save_analysis` (finding) |
| `parser_reference` | `TypeOK`, and `ParseMatchesReference` (result and forest against a declarative, recursive reference) | passes; every sequence of at most 6 items |
| `lexer_positions` | `LexPositionsCorrect` | violated by `"\n\n,"` (finding) |
| `pipeline_spans` | `TypeOK` (the parser runs only on what the lexer returned); `SpansMonotone` (spans in (line, column) are ordered, siblings do not overlap, and a list or tuple strictly contains its children) | passes; 1,051,067 states |
| `pipeline_leaf_spans` | `LeafSpansCoverTokens` (spec 4.2: a leaf's span ends at column + token length - 1) | violated by `u1` (finding) |
| `interpreter_calls` | `TypeOK`; `ResultMatchesReference` (ok exactly for call trees that are recursion-free, depth-bounded, in budget, and use only bound, reserved or callable-contract variables); `FirstErrorReturned` (unless the budget cuts it short, the error returned is the call tree's first fault in evaluation order: a call's own checks, its arguments left to right, then a user body; and a value returned has been charged exactly the tree's cost) | passes; 10,125 programs, 55,395 states |
| `eval_all` | `TypeOK` (Ok only within the budget); `ResultMatchesReference` (result and `last_executed` equal a recursive in-order reference: first failure wins, charges on the running total, names bound once); `ExecuteAtomic` (an error leaves the fresh store empty; Ok leaves exactly every form's effects). | passes; 22,764 programs, 81,906 states |
| `values_limits` | `TypeOK` (list items admitted by the list type); `ValuesWithinLimits` (spec I4 over any chain of constructor calls) | passes; 37,727 states |
| `values_tuple_fields` | `TupleFieldsPresent` | violated: `from_data_typed` with `{a: int, b: int}` and only `a` (finding) |
| `map_checks` | `TypeOK` (the analysis stops at the first charge over budget); `SetLookupsWithinDeclared` (an accepted `set-entry` or `insert-entry` pays no more for its lookups than the map's declared types, though it charges the argument's type; caught when an optional admits any optional); `CostChargedBeforeTypeError` (an ill-typed `fetch-entry` key has paid both lookups and the type check) | passes; 15,242 states |

Every property of a passing run has a mutant in PROJECT.json. A mutant is a
plausible bug in the mapped definition, such as a dropped reset, an inverted
parity test or an off-by-one. TLC finds the property violated under each one.

### Bounds and why they suffice

- **ClarityBlock.**
  - Two contracts, b depending on a, so b's analysis fails until a's is saved.
  - Two keys and one value.
  - `Limit = 4`. A full deploy-and-call flow fits; other orders exceed it.
  - `MaxCost = Limit + 2` caps the totals explored past the limit.
- **Parser.** All item sequences of up to 6 items (300k inputs). These include nested
  mismatches, tuples with trailing separators, and every arm of the loop.
- **Lexer.** All texts of up to 6 characters. `"\n\n "`, `"1a"`, `")("` and an
  unmatched `\r` fit.
- **Pipeline.** All texts of up to 5 characters over `\n`, `,`, `:`, brackets,
  braces, a digit, `u` and `\r` (111,111 texts). `"{u:1}"`, `"(u1)"`, `"u\n{}"` and
  `"u1\nu"` fit, so there are nested spans over two lines. Spaces and other letters
  are left out: they take the same paths as `\n` and `u`, and the lexer run covers them.
  - `Limit = 5` with the tracker at 0 or 3 when `build_ast` is called: every text
    is parsed from 0, and from 3 texts over two characters fail `AST_PARSE`.
  - `MaxStackDepth = 1` stands in for the real cap: `"(())"` is rejected,
    `"({})"` and `"()()"` are not. The check is the same comparison.
- **Interpreter.**
  - Every assignment of {2 user, 1 native, 1 special, 1 undefined} functions to
    a fixed 5-node shape: main has two arguments, fa's body one.
  - This gives self and mutual recursion, and chains deeper than `MaxStack = 3`.
  - `MaxStack = 3` stands in for 64. The check is the same comparison.
  - `Limit = 6` lets some programs finish and others run out of budget.
  - The leaves may instead be variables: bound (costs 2), a callable contract (costs 1),
    unbound, or reserved (free). The second argument of main is a bound or
    unbound variable, an undefined function, the native or a user function, so
    a fault in the first argument meets one in the second. 10,125 programs in all.
    So errors are raised both inside arguments and inside bodies, and unwinding is
    exercised from each depth.
- **EvalAll.** Every program of up to 3 forms over 14 form kinds and 2 names.
  - So a name can be defined twice, and a failing data var can come after a write.
  - Costs: bind 1, create 1 or 2, eval 1, and `Limit = 4`. The budget runs out at
    the second or third form, in each kind of arm.
- **Values.**
  - `MaxSize = 8`, `MaxDepth = 3` and an int of size 2. Two or three nested
    constructor calls reach each limit, through each constructor kind.
  - Lists and buffers up to length 2 (buffers up to `MaxSize + 1`).
  - Two field names, so duplicate and missing names occur.
- **MapChecks.**
  - Three maps: one whose value type admits `none`, one whose value type sits at
    `MaxSize`, and one of another contract.
  - Argument types: the declared key and value, an ill-typed key, `none`, and an
    optional of a two-field tuple, larger than `m`'s value type and rejected by it.
    Each argument may be explicit or an implicit tuple.
  - `Limit = 12` lets one or two checks pass before the budget stops the analysis.

### Fairness

- No run checks a liveness property, and no fairness is assumed.
- The connection's operations are made by an arbitrary caller, and the code
  promises nothing about progress.
- `eval`, `eval_all` and the checkers are single-threaded functions whose
  loops are bounded by the program: that they return is a matter of the call
  tree and the form list being finite, which the model states by
  construction, not a question a property of the model would answer.
- The parser, lexer, interpreter, eval_all, value, and map-check runs stop in
  terminal states: the function returned, or an error ended it. That is why
  their cfgs say `CHECK_DEADLOCK FALSE`.

## Not modelled

- Identifier parsing (`QualifiedContractIdentifier::parse`, `TraitIdentifier::parse`,
  c32 principals) and the `Display` impls in `types/mod.rs`. These are string
  conversions with no state, and their literals are over 28 characters, beyond
  the lexer model's texts. One hazard is recorded for them: the qualified field
  matcher (`parser/mod.rs:105`) takes names of alphanumerics and `-` only, so a
  trait whose ClarityName has `?` or `!` cannot be named fully qualified.
- The exact size formulas of `signatures.rs`. It is not under `src/`. `Size` follows
  the spec's "wrapper adds 1", and scalars have abstract sizes.
- The lexer's literal conversions.
- The bodies of native and special functions, and the argument bindings of
  `DefinedFunction::apply`.
- Four disagreements found while modelling are kept here, not as runs. The
  project has one run per question and at most twelve runs:
  - `check_set_or_insert_entry` charges the second lookup with the value
    argument's type size (`maps.rs:118`). Spec 4.4 and `fetch-entry` use the map's
    declared value type. A model showed `(map-set m {a: 1} none)` paying lookups of
    2 and 2 where the declared types give 2 and 3. The `map_checks` run now
    checks the consequence that matters, `SetLookupsWithinDeclared`: an accepted
    write never pays more than the declared types cost.
  - Spec 4.2 says a tuple's children alternate, with `:` after each key and `,`
    after each value. `parse_lexed` only rejects a separator in the wrong place.
    It accepts `{a b}`, `{a::b}` and `{a b,,}`. `ParseMatchesReference` states
    exactly what is accepted.
  - Spec 4.2 states that `)` on a tuple gives ClosingParenthesisExpected. Its own
    example 3 and the code give ClosingTupleLiteralExpected.
  - The doc comments at `clarity.rs:331` and `:346` say that a *false* abort
    callback rolls back. The code rolls back on *true*, and `test_tx_roll_backs`
    expects that.
- DefinitionSorter, TraitsResolver and SugarExpander, and the analysis passes,
  which are not under `src/`. The first three act on define forms, trait
  references and sugared identifiers, which the Pipeline texts do not contain.
- The vector cost and u64 overflow.

These are stateless functions. Unit tests reach them, or their code is outside `src/`.

## Further work

1. Model the two-dimensional cost (runtime and read/write) and its overflow
   path in `ClarityBlock`. Overflow would also exercise the `CostOverflow` arm
   of `From<InterpreterError>`, which reports `ExecutionCost::max_value()`.
2. Compose EvalAll with ClarityBlock's `initialize_smart_contract`, so that an
   aborted initialization is seen through eval_all's effects.
3. DefinitionSorter from spec 4.3: a topological sort of the define forms with
   cycle rejection, checked against a reference over small dependency graphs.
   Its code is not under `src/`, and the Pipeline texts contain no define forms.
4. `PartialEq` for `ListData` and `TupleData` compares the data only, not the
   type signature (`types/mod.rs:222`). Two lists of different maximum length
   are equal values. This matters only where equality and type are both used.
