--------------------------- MODULE TypeSignatures ---------------------------
(***************************************************************************)
(* Type signatures of Clarity values: the operators of                    *)
(* src/src/vm/types/signatures.rs that types/mod.rs and the map type      *)
(* checks call.  That file is not under src/, so they are modelled from  *)
(* the spec (section 3: "Wrapper (some/ok/err) adds 1 to size"; depth     *)
(* counts nesting; admission is structural with NoType as bottom; buffer *)
(* and list lengths may be smaller).  A type is a record by kind.        *)
(***************************************************************************)
EXTENDS Naturals, FiniteSets, Sequences, SequencesExt

CONSTANTS
  Names,      \* tuple field names (ClarityName)
  MaxSize,    \* MAX_VALUE_SIZE
  MaxDepth,   \* MAX_TYPE_DEPTH
  IntSize     \* the size of an int (16 bytes in the code)

Wrapper == 1  \* WRAPPER_VALUE_SIZE

\* TypeSignature
NoType == [k |-> "none"]
IntType == [k |-> "int"]
BoolType == [k |-> "bool"]
BuffType(n) == [k |-> "buff", len |-> n]
OptType(t) == [k |-> "opt", of |-> t]
RespType(o, e) == [k |-> "resp", ok |-> o, err |-> e]
ListType(t, m) == [k |-> "list", of |-> t, max |-> m]
TupleType(f) == [k |-> "tuple", fields |-> f]

Scalars == {"none", "int", "bool", "buff"}

RECURSIVE Size(_)
Size(t) ==
  CASE t.k \in {"none", "bool"} -> 1
    [] t.k = "int"   -> IntSize
    [] t.k = "buff"  -> t.len
    [] t.k = "opt"   -> Size(t.of) + Wrapper
    [] t.k = "resp"  -> Max({Size(t.ok), Size(t.err)}) + Wrapper
    [] t.k = "list"  -> t.max * Size(t.of)
    [] t.k = "tuple" -> MapThenSumSet(LAMBDA n : Size(t.fields[n]), DOMAIN t.fields)

RECURSIVE Depth(_)
Depth(t) ==
  CASE t.k \in Scalars -> 1
    [] t.k \in {"opt", "list"} -> 1 + Depth(t.of)
    [] t.k = "resp"  -> 1 + Max({Depth(t.ok), Depth(t.err)})
    [] t.k = "tuple" -> 1 + Max({Depth(t.fields[n]) : n \in DOMAIN t.fields})

\* The checks of the TypeSignature constructors: ListTypeData::new_list
\* tests the depth first, the wrappers and tuples the size first.
SignatureError(t) ==
  LET tooLarge == Size(t) > MaxSize
      tooDeep == Depth(t) > MaxDepth
  IN  CASE t.k = "list" /\ tooDeep -> "TypeSignatureTooDeep"
        [] tooLarge -> "ValueTooLarge"
        [] tooDeep -> "TypeSignatureTooDeep"
        [] OTHER -> "none"

\* Mutant: an optional admits any optional, its inner type unchecked.
RECURSIVE AdmitsAnyOptional(_, _)
AdmitsAnyOptional(t, u) ==
  \/ t = u \/ u.k = "none"
  \/ t.k = u.k /\
     CASE t.k = "buff"  -> u.len <= t.len
       [] t.k = "opt"   -> TRUE
       [] t.k = "resp"  -> AdmitsAnyOptional(t.ok, u.ok) /\ AdmitsAnyOptional(t.err, u.err)
       [] t.k = "list"  -> u.max <= t.max /\ AdmitsAnyOptional(t.of, u.of)
       [] t.k = "tuple" -> DOMAIN t.fields = DOMAIN u.fields
                           /\ \A n \in DOMAIN t.fields : AdmitsAnyOptional(t.fields[n], u.fields[n])
       [] OTHER -> FALSE

\* t.admits_type(u): u is a subtype of t.
RECURSIVE Admits(_, _)
Admits(t, u) ==
  \/ t = u \/ u.k = "none"
  \/ t.k = u.k /\
     CASE t.k = "buff"  -> u.len <= t.len
       [] t.k = "opt"   -> Admits(t.of, u.of)
       [] t.k = "resp"  -> Admits(t.ok, u.ok) /\ Admits(t.err, u.err)
       [] t.k = "list"  -> u.max <= t.max /\ Admits(t.of, u.of)
       [] t.k = "tuple" -> DOMAIN t.fields = DOMAIN u.fields
                           /\ \A n \in DOMAIN t.fields : Admits(t.fields[n], u.fields[n])
       [] OTHER -> FALSE

\* least_supertype: defined when the two types are Compatible.
RECURSIVE Compatible(_, _), Unify(_, _)
Compatible(t, u) ==
  \/ t.k = "none" \/ u.k = "none"
  \/ t.k = u.k /\
     CASE t.k \in {"opt", "list"} -> Compatible(t.of, u.of)
       [] t.k = "resp"  -> Compatible(t.ok, u.ok) /\ Compatible(t.err, u.err)
       [] t.k = "tuple" -> DOMAIN t.fields = DOMAIN u.fields
                           /\ \A n \in DOMAIN t.fields : Compatible(t.fields[n], u.fields[n])
       [] OTHER -> TRUE
Unify(t, u) ==
  CASE t.k = "none" -> u
    [] u.k = "none" -> t
    [] t.k = "buff" -> BuffType(Max({t.len, u.len}))
    [] t.k = "opt"  -> OptType(Unify(t.of, u.of))
    [] t.k = "resp" -> RespType(Unify(t.ok, u.ok), Unify(t.err, u.err))
    [] t.k = "list" -> ListType(Unify(t.of, u.of), Max({t.max, u.max}))
    [] t.k = "tuple" -> TupleType([n \in DOMAIN t.fields |-> Unify(t.fields[n], u.fields[n])])
    [] OTHER -> t

\* type_size: the size of the signature itself (its nodes), which the
\* analysis cost functions are charged with.
RECURSIVE TypeSize(_)
TypeSize(t) ==
  CASE t.k \in Scalars -> 1
    [] t.k \in {"opt", "list"} -> 1 + TypeSize(t.of)
    [] t.k = "resp"  -> 1 + TypeSize(t.ok) + TypeSize(t.err)
    [] t.k = "tuple" -> 1 + MapThenSumSet(LAMBDA n : TypeSize(t.fields[n]), DOMAIN t.fields)

=============================================================================
