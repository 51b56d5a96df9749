----------------------------- MODULE MapChecks -----------------------------
(***************************************************************************)
(* The type checks of the map expressions in                              *)
(* src/src/vm/analysis/type_checker/natives/maps.rs: fetch-entry,        *)
(* fetch-contract-entry, delete-entry, set-entry and insert-entry.  One   *)
(* step is one check, as the TypeChecker meets the map expressions of a   *)
(* contract; the analysis cost accumulates over the checks, and the first *)
(* error ends the analysis (fail fast).                                   *)
(*                                                                         *)
(* A check is a sequence of steps run in the code's order: guards that    *)
(* return an error, and runtime_cost! charges (add, then check against   *)
(* the budget).  A cost function is taken as the identity on its input    *)
(* (they are monotone).  An argument expression is abstracted to the type *)
(* it checks to and whether it is an implicit tuple (name-value pairs,    *)
(* typed by check_special_tuple_cons and annotated in the type map).     *)
(***************************************************************************)
EXTENDS TypeSignatures

CONSTANTS
  Maps,        \* the contract's maps: name -> [key, value] (define-map)
  OtherMaps,   \* the maps of the other, deployed contract (analysis db)
  ArgTypes,    \* the types an argument expression may check to
  NotAtom,     \* a map-name argument that is not an atom
  Limit        \* the analysis cost budget

VARIABLES
  spent,     \* checker.cost_track: total charged
  result,    \* "ok", or the error that ended the analysis
  call,      \* the last check made: [op, map, key, value, returns]
  charged    \* the charges of the last check: <<[f, n], ...>>

vars == <<spent, result, call, charged>>

Args == [type : ArgTypes, implicit : BOOLEAN]
MapNameArgs == DOMAIN Maps \cup DOMAIN OtherMaps \cup {NotAtom}

Init ==
  /\ spent = 0 /\ result = "ok"
  /\ call = [op |-> "none"] /\ charged = <<>>

\* The steps of a check.
Charge(f, n) == [kind |-> "charge", f |-> f, n |-> n]
Guard(fails, e) == [kind |-> "guard", fails |-> fails, e |-> e]
NoStep == Guard(FALSE, "none")

\* Mutant: the budget checked against the total before the charge.
RunStepCheckFirst(acc, s) ==
  CASE acc.res # "ok" -> acc
    [] s.kind = "charge" ->
         [spent |-> acc.spent + s.n, log |-> Append(acc.log, [f |-> s.f, n |-> s.n]),
          res |-> IF acc.spent > Limit THEN "CostBalanceExceeded" ELSE "ok"]
    [] s.fails -> [acc EXCEPT !.res = s.e]
    [] OTHER -> acc

\* runtime_cost!: add, then fail if the total is over the budget.
RunStep(acc, s) ==
  CASE acc.res # "ok" -> acc
    [] s.kind = "charge" ->
         [spent |-> acc.spent + s.n, log |-> Append(acc.log, [f |-> s.f, n |-> s.n]),
          res |-> IF acc.spent + s.n > Limit THEN "CostBalanceExceeded" ELSE "ok"]
    [] s.fails -> [acc EXCEPT !.res = s.e]
    [] OTHER -> acc

\* Run the steps of one check and record its call, the type it returns
\* when it succeeds, and its charges.
Check(op, name, key, value, returns, steps) ==
  LET r == FoldLeft(RunStep, [spent |-> spent, res |-> "ok", log |-> <<>>], steps)
  IN  /\ result = "ok"
      /\ spent' = r.spent /\ result' = r.res /\ charged' = r.log
      /\ call' = [op |-> op, map |-> name, key |-> key, value |-> value,
                   returns |-> IF r.res = "ok" THEN returns ELSE NoType]

\* check_and_type_map_arg_tuple: an implicit tuple is annotated in the
\* type map, charged ANALYSIS_TYPE_ANNOTATE with its type size.
ArgTuple(arg) ==
  IF arg.implicit THEN Charge("ANALYSIS_TYPE_ANNOTATE", TypeSize(arg.type)) ELSE NoStep

\* get_map_type, with a placeholder for a name no map has (its guard has
\* failed before the placeholder is used).
MapType(maps, name) ==
  IF name \in DOMAIN maps THEN maps[name] ELSE [key |-> NoType, value |-> NoType]

\* analysis_typecheck_cost: ANALYSIS_TYPE_CHECK with the expected type's size.
TypeCheck(expected) == Charge("ANALYSIS_TYPE_CHECK", TypeSize(expected))

\* TypeSignature::new_option's checks, then the admission of the key.
FetchVerdict(decl, key) ==
  << Guard(SignatureError(OptType(decl.value)) # "none", SignatureError(OptType(decl.value))),
     Guard(~Admits(decl.key, key.type), "TypeError") >>

\* Mutant: the key's admission checked before the lookups are charged.
FetchStepsAdmitFirst(argc, name, key) ==
  LET decl == MapType(Maps, name) IN
  << Guard(argc < 2, "IncorrectArgumentCount"), Guard(name = NotAtom, "BadMapName"),
     ArgTuple(key), Guard(name \notin DOMAIN Maps, "NoSuchMap"),
     Guard(~Admits(decl.key, key.type), "TypeError"),
     Charge("ANALYSIS_TYPE_LOOKUP", TypeSize(decl.key)),
     Charge("ANALYSIS_TYPE_LOOKUP", TypeSize(decl.value)), TypeCheck(decl.key) >>
     \o FetchVerdict(decl, key)

FetchSteps(argc, name, key) ==
  LET decl == MapType(Maps, name) IN
  << Guard(argc < 2, "IncorrectArgumentCount"), Guard(name = NotAtom, "BadMapName"),
     ArgTuple(key), Guard(name \notin DOMAIN Maps, "NoSuchMap"),
     Charge("ANALYSIS_TYPE_LOOKUP", TypeSize(decl.key)),
     Charge("ANALYSIS_TYPE_LOOKUP", TypeSize(decl.value)), TypeCheck(decl.key) >>
     \o FetchVerdict(decl, key)

check_special_fetch_entry ==
  \E argc \in {1, 2}, name \in MapNameArgs, key \in Args :
    Check("fetch", name, key, key, OptType(MapType(Maps, name).value),
          FetchSteps(argc, name, key))

\* The contract argument must be a contract principal literal; the map
\* comes from the analysis db (NoSuchContract, NoSuchMap); one charge of
\* ANALYSIS_FETCH_CONTRACT_ENTRY with the key and value sizes added.
check_special_fetch_contract_entry ==
  \E argc \in {2, 3}, contract \in {"deployed", "unknown", "not_principal"},
     name \in MapNameArgs, key \in Args :
    LET decl == MapType(OtherMaps, name) IN
    Check("fetch_contract", name, key, key, OptType(decl.value),
      << Guard(argc < 3, "IncorrectArgumentCount"),
         Guard(contract = "not_principal", "ContractCallExpectName"),
         Guard(name = NotAtom, "BadMapName"), ArgTuple(key),
         Guard(contract = "unknown", "NoSuchContract"),
         Guard(name \notin DOMAIN OtherMaps, "NoSuchMap"),
         Charge("ANALYSIS_FETCH_CONTRACT_ENTRY", TypeSize(decl.key) + TypeSize(decl.value)),
         TypeCheck(decl.key) >> \o FetchVerdict(decl, key))

check_special_delete_entry ==
  \E argc \in {1, 2}, name \in MapNameArgs, key \in Args :
    LET decl == MapType(Maps, name) IN
    Check("delete", name, key, key, BoolType,
      << Guard(argc < 2, "IncorrectArgumentCount"), Guard(name = NotAtom, "BadMapName"),
         ArgTuple(key), Guard(name \notin DOMAIN Maps, "NoSuchMap"),
         Charge("ANALYSIS_TYPE_LOOKUP", TypeSize(decl.key)), TypeCheck(decl.key),
         Guard(~Admits(decl.key, key.type), "TypeError") >>)

\* check_set_or_insert_entry (set-entry and insert-entry): the second
\* lookup is charged with the size of the value argument's type.
check_set_or_insert_entry ==
  \E op \in {"set", "insert"}, argc \in {2, 3}, name \in MapNameArgs, key, value \in Args :
    LET decl == MapType(Maps, name) IN
    Check(op, name, key, value, BoolType,
      << Guard(argc < 3, "IncorrectArgumentCount"), Guard(name = NotAtom, "BadMapName"),
         ArgTuple(key), ArgTuple(value), Guard(name \notin DOMAIN Maps, "NoSuchMap"),
         Charge("ANALYSIS_TYPE_LOOKUP", TypeSize(decl.key)),
         Charge("ANALYSIS_TYPE_LOOKUP", TypeSize(value.type)),
         TypeCheck(decl.key), TypeCheck(decl.value),
         Guard(~Admits(decl.key, key.type), "TypeError"),
         Guard(~Admits(decl.value, value.type), "TypeError") >>)

Next ==
  \/ check_special_fetch_entry \/ check_special_fetch_contract_entry
  \/ check_special_delete_entry \/ check_set_or_insert_entry

Spec == Init /\ [][Next]_vars

-----------------------------------------------------------------------------
Charges == {"ANALYSIS_TYPE_ANNOTATE", "ANALYSIS_TYPE_LOOKUP", "ANALYSIS_TYPE_CHECK",
            "ANALYSIS_FETCH_CONTRACT_ENTRY"}

\* Types; the budget is checked after each charge, so the analysis stops
\* at the first charge that takes the total over it.
TypeOK ==
  /\ result \in {"ok", "IncorrectArgumentCount", "BadMapName", "NoSuchMap",
                 "NoSuchContract", "ContractCallExpectName", "TypeError",
                 "ValueTooLarge", "TypeSignatureTooDeep", "CostBalanceExceeded"}
  /\ \A i \in 1 .. Len(charged) : charged[i].f \in Charges
  /\ result = "ok" => spent <= Limit

\* Spec 4.4: the analysis cost of a map expression is charged whether or
\* not it type-checks: a key rejected with TypeError has paid the lookups
\* of the map's key and value types and the type check, as an accepted
\* one does.
CostChargedBeforeTypeError ==
  [][ (result' = "TypeError" /\ call'.op = "fetch") =>
        LET decl == Maps[call'.map] IN
        IsSuffix(<< [f |-> "ANALYSIS_TYPE_LOOKUP", n |-> TypeSize(decl.key)],
                    [f |-> "ANALYSIS_TYPE_LOOKUP", n |-> TypeSize(decl.value)],
                    [f |-> "ANALYSIS_TYPE_CHECK", n |-> TypeSize(decl.key)] >>, charged') ]_vars

\* The lookups check_set_or_insert_entry charges (maps.rs:118): the second
\* is charged with the size of the value argument's type, not of the map's
\* declared value type.  A set-entry or insert-entry that type-checks has
\* still paid no more for its lookups than the declared types cost, since
\* admits_type accepts only a type no larger than the one it checks
\* against; the cost of an accepted map write is bounded by the
\* define-map, whatever the argument expression.
LookupCost(log) ==
  FoldLeft(LAMBDA acc, c : acc + c.n, 0,
           SelectSeq(log, LAMBDA c : c.f = "ANALYSIS_TYPE_LOOKUP"))

SetLookupsWithinDeclared ==
  (result = "ok" /\ call.op \in {"set", "insert"}) =>
    LookupCost(charged) <= TypeSize(Maps[call.map].key) + TypeSize(Maps[call.map].value)

=============================================================================
