---------------------------- MODULE Interpreter ----------------------------
(***************************************************************************)
(* eval, lookup_function and apply of src/src/vm/mod.rs: how a call is    *)
(* looked up, checked for recursion and depth against the call stack,     *)
(* its arguments evaluated, a native function cost-charged, and the call  *)
(* stack entry removed again.                                             *)
(*                                                                         *)
(* A program is a forest of call nodes: Callee[n] is the function node n  *)
(* applies (a user, native or special function), Kids[n] its argument    *)
(* calls, Body[f] the root call of user function f's body and Main the   *)
(* top-level expression.  Literals and variables cost nothing the model   *)
(* tells apart and are left out.  The recursion of eval/apply is an      *)
(* explicit stack of frames, one per apply in progress.                  *)
(***************************************************************************)
EXTENDS Naturals, Sequences, SequencesExt

CONSTANTS
  Funcs,        \* user-defined functions (CallableType::UserFunction)
  Natives,      \* CallableType::NativeFunction
  Specials,     \* CallableType::SpecialFunction
  Unbound,      \* function names neither reserved nor defined by the contract
  Vars,         \* variable names an Atom node may hold
  Defined,      \* the ones bound in the local or contract context
  Reserved,     \* the reserved variables (block-height, tx-sender, ...)
  CallableContracts, \* names context.callable_contracts binds to a contract
  Programs,     \* the programs run: [callee, kids, body, main]
  MaxStack,     \* MAX_CALL_STACK_DEPTH
  Limit         \* the cost budget (runtime units)

ASSUME Defined \cup Reserved \cup CallableContracts \subseteq Vars
ASSUME Defined \cap Reserved = {} /\ CallableContracts \cap (Defined \cup Reserved) = {}

Callables == Funcs \cup Natives \cup Specials
ASSUME Unbound \cap (Callables \cup Vars) = {}

VARIABLES
  prog,       \* the program being executed
  callStack,  \* env.call_stack: the identifiers inserted, in order
  frames,     \* the applies in progress: [node, next, phase]
  spent,      \* the runtime cost charged so far
  result      \* "running", "ok", or the error returned (or unwinding)

vars == <<prog, callStack, frames, spent, result>>

Errors == {"CostBalanceExceeded", "CircularReference", "MaxStackDepthReached",
           "UndefinedVariable", "UndefinedFunction"}

Init ==
  /\ prog \in Programs
  /\ callStack = <<>>
  /\ frames = <<>>
  /\ spent = 0
  /\ result = "running"

Top == frames[Len(frames)]

(***************************************************************************)
(* The expression to evaluate next: Main before anything ran, the next    *)
(* argument of the top frame, or the body of the user function whose      *)
(* arguments are all evaluated.                                           *)
(***************************************************************************)
\* Mutant: the arguments taken from the last one back.
PendingCallRightToLeft ==
  IF frames = <<>> THEN prog.main
  ELSE IF Top.phase = "args" THEN prog.kids[Top.node][Len(prog.kids[Top.node]) + 1 - Top.next]
  ELSE prog.body[prog.callee[Top.node]]
PendingCall ==
  IF frames = <<>> THEN prog.main
  ELSE IF Top.phase = "args" THEN prog.kids[Top.node][Top.next]
  ELSE prog.body[prog.callee[Top.node]]

HasPending ==
  \/ frames = <<>>
  \/ frames # <<>> /\ Top.phase = "args" /\ Top.next <= Len(prog.kids[Top.node])
  \/ frames # <<>> /\ Top.phase = "body" /\ Top.next = 1

\* runtime_cost!: add, then check the total against the budget.
Charge(n) == spent + n
\* Mutant: the budget test fails a charge that reaches the limit exactly.
OverBudgetAtLimit(total) == total >= Limit
OverBudget(total) == total > Limit

\* Mutant: the depth test lets one more frame in.
StackFull(cs) == Len(cs) > MaxStack
\* `env.call_stack.depth() >= MAX_CALL_STACK_DEPTH`
StackFullAt(cs) == Len(cs) >= MaxStack

\* track_recursion && env.call_stack.contains(&identifier)
Recursive(g, cs) == g \in Funcs /\ g \in Range(cs)

\* A value returned to the caller: the parent moves on to its next
\* argument (or past its body), or the top-level expression is done.
ReturnValue(fs) ==
  IF fs = <<>> THEN result' = "ok" /\ frames' = fs
  ELSE frames' = [fs EXCEPT ![Len(fs)].next = @ + 1] /\ UNCHANGED result

(***************************************************************************)
(* eval of an Atom: lookup_variable.  A reserved name costs nothing; any  *)
(* other charges LOOKUP_VARIABLE_DEPTH, and a bound one then              *)
(* LOOKUP_VARIABLE_SIZE; a name of callable_contracts returns its        *)
(* contract principal with no further charge; an unbound one is          *)
(* UndefinedVariable.  Names starting with a digit or a quote             *)
(* (BadSymbolicRepresentation) do not reach eval: the lexer takes them    *)
(* as literals.                                                            *)
(***************************************************************************)
lookup_variable ==
  /\ result = "running" /\ HasPending
  /\ LET x == prog.callee[PendingCall] IN
     /\ x \in Vars
     /\ CASE x \in Reserved ->
              UNCHANGED spent /\ ReturnValue(frames)
         [] OverBudget(Charge(1)) ->
              spent' = Charge(1) /\ result' = "CostBalanceExceeded" /\ UNCHANGED frames
         [] x \in CallableContracts ->
              spent' = Charge(1) /\ ReturnValue(frames)
         [] x \notin Defined ->
              spent' = Charge(1) /\ result' = "UndefinedVariable" /\ UNCHANGED frames
         [] OverBudget(Charge(2)) ->
              spent' = Charge(2) /\ result' = "CostBalanceExceeded" /\ UNCHANGED frames
         [] OTHER ->
              spent' = Charge(2) /\ ReturnValue(frames)
  /\ UNCHANGED <<prog, callStack>>

\* lookup_function, after its LOOKUP_FUNCTION charge: the reserved
\* (native and special) functions, then the contract's user functions.
lookup_function(g) == g \in Natives \cup Specials \/ g \in Funcs

(***************************************************************************)
(* eval of a List: lookup_function (charges LOOKUP_FUNCTION), then apply: *)
(* the recursion check, the depth check, insert into the call stack and   *)
(* start on the arguments.  An error is returned to the caller, which    *)
(* unwinds.                                                               *)
(***************************************************************************)
eval_call ==
  /\ result = "running" /\ HasPending
  /\ LET n == PendingCall
         g == prog.callee[n]
     IN  /\ g \notin Vars
         /\ spent' = Charge(1)
         /\ CASE OverBudget(Charge(1)) ->
                   result' = "CostBalanceExceeded" /\ UNCHANGED <<callStack, frames>>
              [] ~lookup_function(g) ->
                   result' = "UndefinedFunction" /\ UNCHANGED <<callStack, frames>>
              [] Recursive(g, callStack) ->
                   result' = "CircularReference" /\ UNCHANGED <<callStack, frames>>
              [] StackFullAt(callStack) ->
                   result' = "MaxStackDepthReached" /\ UNCHANGED <<callStack, frames>>
              [] OTHER ->
                   /\ callStack' = Append(callStack, g)
                   /\ frames' = Append(frames, [node |-> n, next |-> 1, phase |-> "args"])
                   /\ UNCHANGED result
  /\ UNCHANGED prog

(***************************************************************************)
(* The top apply returns `res` (a value, or the error it got): it calls   *)
(* `env.call_stack.remove(&identifier, ..)?`, which pops the last entry  *)
(* (spec: the call stack "supports contains/push/pop") and cannot fail   *)
(* here, the stack holding at least this apply's own entry; then it      *)
(* returns to its caller.                                                 *)
(***************************************************************************)
ReturnFrom(res) ==
  /\ callStack' = Front(callStack)
  /\ IF res = "ok" THEN ReturnValue(Front(frames))
     ELSE result' = res /\ frames' = Front(frames)

ArgsDone == frames # <<>> /\ Top.phase = "args" /\ Top.next > Len(prog.kids[Top.node])

(***************************************************************************)
(* The arguments of a native function are evaluated: it is charged its    *)
(* cost function.  A cost error returns at once through `?`, before the   *)
(* call stack entry is removed: the frame is gone, its entry is not.      *)
(***************************************************************************)
\* Mutant: the native's cost error ignored (the `?` dropped).
apply_native_ignoring_cost ==
  /\ result = "running" /\ ArgsDone
  /\ prog.callee[Top.node] \in Natives
  /\ spent' = Charge(1)
  /\ ReturnFrom("ok")
  /\ UNCHANGED prog

apply_native ==
  /\ result = "running" /\ ArgsDone
  /\ prog.callee[Top.node] \in Natives
  /\ spent' = Charge(1)
  /\ IF OverBudget(Charge(1))
       THEN result' = "CostBalanceExceeded" /\ frames' = Front(frames)
            /\ UNCHANGED callStack
       ELSE ReturnFrom("ok")
  /\ UNCHANGED prog

apply_special ==
  /\ result = "running" /\ ArgsDone
  /\ prog.callee[Top.node] \in Specials
  /\ ReturnFrom("ok")
  /\ UNCHANGED <<prog, spent>>

\* A user function goes on to its body (DefinedFunction::apply).
apply_user_body ==
  /\ result = "running" /\ ArgsDone
  /\ prog.callee[Top.node] \in Funcs
  /\ frames' = [frames EXCEPT ![Len(frames)] = [@ EXCEPT !.phase = "body", !.next = 1]]
  /\ UNCHANGED <<prog, callStack, spent, result>>

apply_user_return ==
  /\ result = "running"
  /\ frames # <<>> /\ Top.phase = "body" /\ Top.next > 1
  /\ ReturnFrom("ok")
  /\ UNCHANGED <<prog, spent>>

\* An error returned into an apply in progress: from an argument (the
\* `Err(e)` arm), from a user function's body, or from a special function:
\* each removes its entry and passes the error on.
apply_error_return ==
  /\ result \in Errors /\ frames # <<>>
  /\ ReturnFrom(result)
  /\ UNCHANGED <<prog, spent>>

Next ==
  \/ lookup_variable \/ eval_call \/ apply_native \/ apply_special
  \/ apply_user_body \/ apply_user_return \/ apply_error_return

Spec == Init /\ [][Next]_vars


Done == result # "running" /\ frames = <<>>

-----------------------------------------------------------------------------
(***************************************************************************)
(* Reference: the first fault of a call tree, in the order eval meets    *)
(* them (a call's own checks, then its arguments left to right, then a   *)
(* user function's body): an unbound variable, an undefined function, a  *)
(* user function applied inside itself, or a chain of applies deeper     *)
(* than MaxStack; "none" when the tree has none.  Its cost is one        *)
(* LOOKUP_FUNCTION per call, one per native applied, two per bound       *)
(* variable looked up and one per callable contract.                      *)
(***************************************************************************)
\* The first of a sequence of faults that is one.
FirstOf(faults) == FoldLeft(LAMBDA acc, f : IF acc = "none" THEN f ELSE acc, "none", faults)

RECURSIVE FirstFault(_, _)
FirstFault(n, path) ==
  LET g == prog.callee[n]
      below == Append(path, g)
  IN  CASE g \in Vars ->
             IF g \in Defined \cup Reserved \cup CallableContracts THEN "none"
             ELSE "UndefinedVariable"
        [] g \notin Callables -> "UndefinedFunction"
        [] g \in Funcs /\ g \in Range(path) -> "CircularReference"
        [] Len(path) >= MaxStack -> "MaxStackDepthReached"
        [] OTHER ->
             FirstOf(<<FirstOf([k \in 1 .. Len(prog.kids[n]) |-> FirstFault(prog.kids[n][k], below)]),
                       IF g \in Funcs THEN FirstFault(prog.body[g], below) ELSE "none">>)

CallTreeOk(n, path) == FirstFault(n, path) = "none"

RECURSIVE CallTreeCost(_)
CallTreeCost(n) ==
  LET g == prog.callee[n] IN
  IF g \in Vars THEN (CASE g \in Reserved -> 0 [] g \in CallableContracts -> 1 [] OTHER -> 2) ELSE
  1 + FoldLeft(LAMBDA acc, k : acc + CallTreeCost(k), 0, prog.kids[n])
    + (IF g \in Natives THEN 1 ELSE 0)
    + (IF g \in Funcs THEN CallTreeCost(prog.body[g]) ELSE 0)

-----------------------------------------------------------------------------
\* Types of the variables; a charge past the budget ends the execution, so
\* the cost charged never goes more than one unit past the limit.
TypeOK ==
  /\ prog.main \in DOMAIN prog.callee
  /\ callStack \in Seq(Callables)
  /\ \A i \in 1 .. Len(frames) :
        frames[i].node \in DOMAIN prog.callee /\ frames[i].phase \in {"args", "body"}
  /\ spent \in 0 .. Limit + 1
  /\ result \in {"running", "ok"} \cup Errors

\* eval of the top-level expression returns a value exactly when its call
\* tree is free of recursion, fits in MAX_CALL_STACK_DEPTH and costs no
\* more than the budget: the checks of lookup_function and apply reject
\* nothing else and let nothing else through.
ResultMatchesReference ==
  Done => ((result = "ok") <=>
             (CallTreeOk(prog.main, <<>>) /\ CallTreeCost(prog.main) <= Limit))

\* apply evaluates the arguments left to right and `collect` stops at the
\* first error, which every caller's Err(e) arm passes on: an execution
\* that the budget does not cut short returns the first fault of the call
\* tree in evaluation order, and a value it returns has been charged
\* exactly the tree's cost, every argument once.
FirstErrorReturned ==
  Done /\ result # "CostBalanceExceeded" =>
    /\ result = IF FirstFault(prog.main, <<>>) = "none" THEN "ok"
                ELSE FirstFault(prog.main, <<>>)
    /\ result = "ok" => spent = CallTreeCost(prog.main)

=============================================================================
