------------------------------- MODULE Values -------------------------------
(***************************************************************************)
(* The Value constructors of src/src/vm/types/mod.rs (some, okay, error,  *)
(* list_with_type, list_from, buff_from, TupleData::from_data,            *)
(* from_data_typed) and TupleData::get, applied one after another the way *)
(* an evaluation builds values out of the values it already holds.        *)
(*                                                                         *)
(* A value is a record by kind; integers, booleans and buffers carry only *)
(* what their type depends on.  A type signature is a record by kind as   *)
(* well, from TypeSignatures.                                             *)
(***************************************************************************)
EXTENDS TypeSignatures

CONSTANTS
  MaxLen      \* bound of the model: longest list or buffer type built

\* TypeSignature::type_of, with OptionalData::type_signature and
\* ResponseData::type_signature for the wrappers.
RECURSIVE TypeOf(_)
TypeOf(v) ==
  CASE v.k = "int"  -> IntType
    [] v.k = "bool" -> BoolType
    [] v.k = "buff" -> BuffType(v.len)
    [] v.k = "none" -> OptType(NoType)
    [] v.k = "some" -> OptType(TypeOf(v.v))
    [] v.k = "ok"   -> RespType(TypeOf(v.v), NoType)
    [] v.k = "err"  -> RespType(NoType, TypeOf(v.v))
    [] v.k \in {"list", "tuple"} -> v.type

-----------------------------------------------------------------------------
VARIABLES
  held,    \* the value the evaluation holds (the last one constructed)
  status   \* "ok", or the error the last constructor returned

vars == <<held, status>>

Literals == {[k |-> "int"], [k |-> "bool"], [k |-> "none"]}

Init == held \in Literals /\ status = "ok"

\* The values a constructor may be given: the one held, or a literal.
Args == {held} \cup Literals
ArgSeqs(lo) == UNION {[1 .. n -> Args] : n \in lo .. 2}

Return(r) ==
  IF r.ok THEN held' = r.v /\ UNCHANGED status
          ELSE status' = r.e /\ UNCHANGED held
Ok(v) == [ok |-> TRUE, v |-> v]
Err(e) == [ok |-> FALSE, e |-> e]

\* Value::size and Value::depth: those of the value's type signature.
ValueSize(v) == Size(TypeOf(v))
ValueDepth(v) == Depth(TypeOf(v))

\* Mutant: the depth test without the wrapper's own level.
WrapErrorShallow(v) ==
  IF ValueSize(v) + Wrapper > MaxSize THEN "ValueTooLarge"
  ELSE IF ValueDepth(v) > MaxDepth THEN "TypeSignatureTooDeep" ELSE "none"

\* some, okay and error: data.size() + WRAPPER_VALUE_SIZE > MAX_VALUE_SIZE,
\* then data.depth() + 1 > MAX_TYPE_DEPTH.
WrapError(v) ==
  IF ValueSize(v) + Wrapper > MaxSize THEN "ValueTooLarge"
  ELSE IF ValueDepth(v) + 1 > MaxDepth THEN "TypeSignatureTooDeep" ELSE "none"

Wrap(kind) ==
  /\ status = "ok"
  /\ Return(IF WrapError(held) # "none" THEN Err(WrapError(held))
            ELSE Ok([k |-> kind, v |-> held]))

some == Wrap("some")
okay == Wrap("ok")
error == Wrap("err")

\* list_with_type, given a ListTypeData built by ListTypeData::new_list
\* (whose checks it relies on for size and depth).
ExpectedListTypes ==
  {t \in {ListType(TypeOf(a), m) : a \in Args, m \in 1 .. MaxLen} : SignatureError(t) = "none"}

\* Mutant: the items are not checked against the expected item type.
ListWithTypeUnchecked(xs, t) ==
  IF t.max < Len(xs) THEN Err("FailureConstructingListWithType")
  ELSE Ok([k |-> "list", items |-> xs, type |-> t])

ListWithType(xs, t) ==
  IF \/ t.max < Len(xs)
     \/ \E i \in 1 .. Len(xs) : ~Admits(t.of, TypeOf(xs[i]))
    THEN Err("FailureConstructingListWithType")
    ELSE Ok([k |-> "list", items |-> xs, type |-> t])

list_with_type ==
  /\ status = "ok"
  /\ \E xs \in ArgSeqs(0), t \in ExpectedListTypes : Return(ListWithType(xs, t))

\* TypeSignature::construct_parent_list_type: the least supertype of the
\* items, folded from NoType; then ListTypeData::new_list's checks.
ParentItemType(xs) ==
  FoldLeft(LAMBDA acc, v :
             IF acc.ok /\ Compatible(acc.t, TypeOf(v))
               THEN [ok |-> TRUE, t |-> Unify(acc.t, TypeOf(v))]
               ELSE [ok |-> FALSE, t |-> acc.t],
           [ok |-> TRUE, t |-> NoType], xs)

ListFrom(xs) ==
  LET p == ParentItemType(xs)
      t == ListType(p.t, Len(xs))
  IN  CASE ~p.ok -> Err("TypeError")
        [] SignatureError(t) # "none" -> Err(SignatureError(t))
        [] OTHER -> Ok([k |-> "list", items |-> xs, type |-> t])

list_from ==
  /\ status = "ok"
  /\ \E xs \in ArgSeqs(0) : Return(ListFrom(xs))

\* buff_from: BufferLength::try_from rejects a length over MAX_VALUE_SIZE.
buff_from ==
  /\ status = "ok"
  /\ \E n \in 0 .. MaxSize + 1 :
       Return(IF n > MaxSize THEN Err("ValueTooLarge") ELSE Ok([k |-> "buff", len |-> n]))

(***************************************************************************)
(* TupleData::from_data: a name met twice is NameAlreadyUsed; the type    *)
(* map of the value types goes through TupleTypeSignature::try_from.     *)
(***************************************************************************)
Pairs == UNION {[1 .. n -> Names \X Args] : n \in 1 .. 2}
PairNames(ps) == {ps[i][1] : i \in 1 .. Len(ps)}
\* The value of the last pair with name n (BTreeMap::insert overwrites).
LastValue(ps, n) == ps[Max({i \in 1 .. Len(ps) : ps[i][1] = n})][2]

FromData(ps) ==
  LET t == TupleType([n \in PairNames(ps) |-> TypeOf(LastValue(ps, n))])
  IN  CASE \E i, j \in 1 .. Len(ps) : i < j /\ ps[i][1] = ps[j][1] -> Err("NameAlreadyUsed")
        [] SignatureError(t) # "none" -> Err(SignatureError(t))
        [] OTHER -> Ok([k |-> "tuple", data |-> [n \in PairNames(ps) |-> LastValue(ps, n)],
                        type |-> t])

from_data ==
  /\ status = "ok"
  /\ \E ps \in Pairs : Return(FromData(ps))

\* TupleData::from_data_typed: every name must be a field of the expected
\* type and its value admitted by the field's type; the data goes into the
\* map as it comes and the expected type is kept as the tuple's type.
ExpectedTupleTypes ==
  {t \in {TupleType(f) : f \in UNION {[N -> {TypeOf(a) : a \in Args}] : N \in SUBSET Names \ {{}}}} :
     SignatureError(t) = "none"}

FromDataTyped(ps, t) ==
  IF \E i \in 1 .. Len(ps) :
       \/ ps[i][1] \notin DOMAIN t.fields
       \/ ~Admits(t.fields[ps[i][1]], TypeOf(ps[i][2]))
    THEN Err("FailureConstructingTupleWithType")
    ELSE Ok([k |-> "tuple", data |-> [n \in PairNames(ps) |-> LastValue(ps, n)], type |-> t])

from_data_typed ==
  /\ status = "ok"
  /\ \E ps \in Pairs, t \in ExpectedTupleTypes : Return(FromDataTyped(ps, t))

\* TupleData::get: NoSuchTupleField when the data map lacks the name.
get ==
  /\ status = "ok" /\ held.k = "tuple"
  /\ \E n \in DOMAIN held.type.fields :
       Return(IF n \in DOMAIN held.data THEN Ok(held.data[n]) ELSE Err("NoSuchTupleField"))

Next ==
  \/ some \/ okay \/ error \/ list_with_type \/ list_from \/ buff_from
  \/ from_data \/ from_data_typed \/ get

Spec == Init /\ [][Next]_vars

-----------------------------------------------------------------------------
Errors == {"ValueTooLarge", "TypeSignatureTooDeep", "TypeError", "NameAlreadyUsed",
           "FailureConstructingListWithType", "FailureConstructingTupleWithType",
           "NoSuchTupleField"}

\* Types; a list value's items are admitted by its item type and fit its
\* maximum length (the checks of list_with_type and list_from).
TypeOK ==
  /\ status \in {"ok"} \cup Errors
  /\ held.k \in {"int", "bool", "buff", "none", "some", "ok", "err", "list", "tuple"}
  /\ held.k = "list" =>
       /\ Len(held.items) <= held.type.max
       /\ \A i \in 1 .. Len(held.items) : Admits(held.type.of, TypeOf(held.items[i]))

\* Spec invariant I4 and section 8: every value built through the public
\* constructors, one on top of another, has size <= MAX_VALUE_SIZE and
\* depth <= MAX_TYPE_DEPTH (so type_signature's `expect` never fires).
ValuesWithinLimits == SignatureError(TypeOf(held)) = "none"

\* A tuple's data map has exactly the fields its type signature names, so
\* get of a field the type declares (what the type checker allowed) finds
\* it.  from_data_typed checks each name given, never that every field of
\* the expected type is given.
TupleFieldsPresent ==
  held.k = "tuple" => DOMAIN held.data = DOMAIN held.type.fields

=============================================================================
