---------------------------- MODULE ClarityBlock ----------------------------
(***************************************************************************)
(* The transactional envelope of src/src/vm/clarity.rs: a ClarityInstance *)
(* that owns the backing store (MarfedKV), the one ClarityBlockConnection *)
(* that may borrow it, the nested ClarityDatabase transaction each        *)
(* operation of the connection opens, and the LimitedCostTracker that     *)
(* moves between the connection, the analysis and the execution           *)
(* environment.                                                           *)
(*                                                                         *)
(* The caller is modelled as an arbitrary sequence of calls on the API,   *)
(* with the discipline the repository's tests follow: an analysis is      *)
(* saved only after analyze_smart_contract returned it in the same block  *)
(* and initialize_smart_contract returned Ok for it.                      *)
(*                                                                         *)
(* A store is abstracted to a record: the data keys the contracts write,  *)
(* the set of initialized contracts, and the set of contract analyses in  *)
(* the side store.  Every metered event charges one unit of runtime cost. *)
(***************************************************************************)
EXTENDS Naturals, FiniteSets

CONSTANTS
  Keys,       \* data keys a transaction may write
  Vals,       \* values written under a key
  Contracts,  \* contract identifiers (each with a fixed source text)
  Deps,       \* Deps[c]: the contracts c's source reaches with contract-call?
  Limit,      \* the block's runtime cost budget (begin_block_with_limit)
  MaxCost,    \* bound of the model: largest cost total explored
  Nil         \* absence: no value, no tracker, no operation, no contract

ASSUME Deps \in [Contracts -> SUBSET Contracts]
ASSUME Limit \in Nat /\ MaxCost \in Nat /\ MaxCost >= Limit + 2
ASSUME Nil \notin Vals \cup Contracts

VARIABLES
  instHasStore, \* ClarityInstance.datastore is Some
  connOpen,     \* a ClarityBlockConnection is alive (borrows the instance)
  panicked,     \* the process hit an expect/unwrap failure
  committed,    \* the store as of the last committed block (on disk)
  tip,          \* the open block's MARF tip
  costTrack,    \* ClarityBlockConnection.cost_track: a total, or Nil once taken
  op,           \* the with_* envelope in progress, or Nil
  spent,        \* history: runtime units charged in the open block
  analyzed,     \* caller: analyses analyze_smart_contract returned this block
  initOk,       \* caller: contracts initialize_smart_contract returned Ok for
  abortCb,      \* what the last abort_call_back returned (Nil: not called)
  returned      \* history: the Error class the last analysis or execution returned

vars == <<instHasStore, connOpen, panicked, committed, tip, costTrack, op,
          spent, analyzed, initOk, abortCb, returned>>

Costs == 0 .. MaxCost
Store == [data : [Keys -> Vals \cup {Nil}],
          contracts : SUBSET Contracts,
          analyses : SUBSET Contracts]
EmptyStore == [data |-> [k \in Keys |-> Nil], contracts |-> {}, analyses |-> {}]
OpKinds == {"init", "call", "withdb", "withdb_ro"}
Op == [kind : OpKinds, contract : Contracts \cup {Nil},
       writes : [Keys -> Vals \cup {Nil}], env : Costs \cup {Nil},
       failed : BOOLEAN, charged : BOOLEAN, costErr : BOOLEAN]

(***************************************************************************)
(* LimitedCostTracker::add_cost: the charge is added to the total first,  *)
(* then the total is compared with the limit; an exceeded total is kept   *)
(* and reported in CostBalanceExceeded(total, limit).                     *)
(***************************************************************************)
\* Mutant: the charge is not added to the total.
ChargedNotRecorded(total, n) == total
Charged(total, n) == total + n
\* Mutant: the limit is checked against the total before the charge.
ExceedsBeforeCharge(total) == total - 1 > Limit
Exceeds(total) == total > Limit

\* The nested transaction's writes applied on top of a store's data
\* (RollbackWrapper commit into the MARF tip).
ApplyWrites(data, writes) ==
  [k \in Keys |-> IF writes[k] = Nil THEN data[k] ELSE writes[k]]

\* Idle: a connection is open and no operation holds a borrow of it.
Idle == connOpen /\ op = Nil /\ ~panicked

-----------------------------------------------------------------------------
Init ==
  /\ instHasStore = TRUE
  /\ connOpen = FALSE
  /\ panicked = FALSE
  /\ committed = EmptyStore
  /\ tip = EmptyStore
  /\ costTrack = Nil
  /\ op = Nil
  /\ spent = 0
  /\ analyzed = {}
  /\ initOk = {}
  /\ abortCb = Nil
  /\ returned = Nil

(***************************************************************************)
(* ClarityInstance::begin_block / begin_block_with_limit: take the store  *)
(* (panic if a previous connection never gave it back), open the MARF tip *)
(* on the last committed block, and start a fresh cost tracker.           *)
(***************************************************************************)
\* Mutant: the connection borrows a copy of the store instead of taking it.
begin_block_cloning_store ==
  /\ ~connOpen /\ ~panicked
  /\ \/ /\ instHasStore
        /\ connOpen' = TRUE
        /\ tip' = committed
        /\ costTrack' = 0
        /\ spent' = 0
        /\ analyzed' = {}
        /\ initOk' = {}
        /\ UNCHANGED <<instHasStore, panicked, committed, op, abortCb, returned>>
     \/ /\ ~instHasStore
        /\ panicked' = TRUE
        /\ UNCHANGED <<instHasStore, connOpen, committed, tip, costTrack, op,
                       spent, analyzed, initOk, abortCb, returned>>

begin_block ==
  /\ ~connOpen /\ ~panicked
  /\ \/ /\ instHasStore
        /\ instHasStore' = FALSE
        /\ connOpen' = TRUE
        /\ tip' = committed
        /\ costTrack' = 0
        /\ spent' = 0
        /\ analyzed' = {}
        /\ initOk' = {}
        /\ UNCHANGED <<panicked, committed, op, abortCb, returned>>
     \/ /\ ~instHasStore
        /\ panicked' = TRUE
        /\ UNCHANGED <<instHasStore, connOpen, committed, tip, costTrack, op,
                       spent, analyzed, initOk, abortCb, returned>>

(***************************************************************************)
(* ClarityInstance::new over the persisted store, after a panic ended the *)
(* process: the uncommitted tip is gone, the committed blocks remain.     *)
(***************************************************************************)
new_instance ==
  /\ panicked
  /\ panicked' = FALSE
  /\ instHasStore' = TRUE
  /\ connOpen' = FALSE
  /\ op' = Nil
  /\ costTrack' = Nil
  /\ tip' = committed
  /\ spent' = 0
  /\ analyzed' = {}
  /\ initOk' = {}
  /\ UNCHANGED <<committed, abortCb, returned>>

(***************************************************************************)
(* ClarityInstance::destroy, between blocks: recover the store (panic if  *)
(* a connection took it and never gave it back); the caller then opens a *)
(* new instance over the returned store (ClarityInstance::new), which     *)
(* holds the committed blocks as before.                                  *)
(***************************************************************************)
destroy ==
  /\ ~connOpen /\ ~panicked
  /\ panicked' = ~instHasStore
  /\ UNCHANGED <<instHasStore, connOpen, committed, tip, costTrack, op, spent,
                 analyzed, initOk, abortCb, returned>>

(***************************************************************************)
(* The analysis passes as seen from the connection: the contract's        *)
(* contract-call? targets must have saved analyses (else NoSuchContract). *)
(***************************************************************************)
AnalysisSucceeds(c) == Deps[c] \subseteq tip.analyses

(***************************************************************************)
(* clarity::Error, as the connection's callers receive it.  build_ast's   *)
(* ParseError and run_analysis's CheckError are wrapped as they are, a    *)
(* cost error among them; an InterpreterError is matched by               *)
(* From<InterpreterError>, and Unchecked(CostBalanceExceeded(total,       *)
(* limit)) becomes CostError(total, limit).  CostOverflow cannot arise    *)
(* below MaxCost.                                                         *)
(***************************************************************************)
Classes == {"Ok", "Analysis", "Parse", "Interpreter", "BadTransaction", "CostError"}
Returns(class) == [class |-> class, total |-> Nil]

\* Mutant: the interpreter error passed through without the cost match.
ErrorFromUnmatched(o) == Returns("Interpreter")

\* The error of a failed execution; the total in CostBalanceExceeded is
\* the environment's tracker when the charge failed.
ErrorFrom(o) ==
  IF o.costErr THEN [class |-> "CostError", total |-> o.env] ELSE Returns("Interpreter")

(***************************************************************************)
(* ClarityBlockConnection::analyze_smart_contract.  build_ast charges     *)
(* AST_PARSE through cost_track.as_mut() (panic if the tracker is gone);  *)
(* then the tracker is taken and moved into run_analysis, which charges   *)
(* the analysis passes.  On success the tracker is taken back out of the  *)
(* ContractAnalysis and replaced; on an analysis error `?` returns and    *)
(* the tracker, owned by the failed analysis, is dropped with it.         *)
(***************************************************************************)
analyze_smart_contract(c) ==
  /\ Idle
  /\ \/ /\ costTrack = Nil
        /\ panicked' = TRUE
        /\ UNCHANGED <<costTrack, spent, analyzed, returned>>
     \/ /\ costTrack # Nil
        /\ costTrack + 2 <= MaxCost
        /\ LET parsed == Charged(costTrack, 1)
               checked == Charged(parsed, 1)
           IN \/ /\ Exceeds(parsed)
                 /\ costTrack' = parsed
                 /\ spent' = spent + 1
                 /\ returned' = Returns("Parse")
                 /\ UNCHANGED analyzed
              \/ /\ ~Exceeds(parsed)
                 /\ spent' = spent + 2
                 /\ IF ~Exceeds(checked) /\ AnalysisSucceeds(c)
                      THEN /\ costTrack' = checked
                           /\ analyzed' = analyzed \cup {c}
                           /\ returned' = Returns("Ok")
                      ELSE /\ costTrack' = Nil
                           /\ returned' = Returns("Analysis")
                           /\ UNCHANGED analyzed
        /\ UNCHANGED panicked
  /\ UNCHANGED <<instHasStore, connOpen, committed, tip, op, initOk, abortCb>>

(***************************************************************************)
(* ClarityBlockConnection::save_analysis: a nested side-store transaction *)
(* around insert_contract, which fails with ContractAlreadyExists.        *)
(***************************************************************************)
save_analysis(c) ==
  /\ Idle
  /\ c \in analyzed /\ c \in initOk
  /\ tip' = IF c \in tip.analyses THEN tip
            ELSE [tip EXCEPT !.analyses = @ \cup {c}]
  /\ UNCHANGED <<instHasStore, connOpen, panicked, committed, costTrack, op,
                 spent, analyzed, initOk, abortCb, returned>>


(***************************************************************************)
(* ClarityBlockConnection::with_abort_callback, entry: begin a nested     *)
(* ClarityDatabase transaction and move the cost tracker into a new       *)
(* OwnedEnvironment (panic if the tracker is gone).  Used by              *)
(* initialize_smart_contract (kind "init") and run_contract_call ("call").*)
(***************************************************************************)
BeginAbortCallback(kind, c) ==
  /\ Idle
  /\ \/ /\ costTrack = Nil
        /\ panicked' = TRUE
        /\ UNCHANGED <<costTrack, op, returned>>
     \/ /\ costTrack # Nil
        /\ op' = [kind |-> kind, contract |-> c, writes |-> [k \in Keys |-> Nil],
                  env |-> costTrack, failed |-> FALSE, charged |-> FALSE, costErr |-> FALSE]
        /\ costTrack' = Nil
        /\ UNCHANGED panicked
  /\ UNCHANGED <<instHasStore, connOpen, committed, tip, spent, analyzed,
                 initOk, abortCb, returned>>

initialize_smart_contract(c) == BeginAbortCallback("init", c)
run_contract_call(c) == BeginAbortCallback("call", c)

(***************************************************************************)
(* with_clarity_db / with_clarity_db_readonly, entry: begin a nested      *)
(* ClarityDatabase transaction; the closure gets no cost tracker.         *)
(***************************************************************************)
BeginWithClarityDb(kind) ==
  /\ Idle
  /\ op' = [kind |-> kind, contract |-> Nil, writes |-> [k \in Keys |-> Nil],
            env |-> Nil, failed |-> FALSE, charged |-> FALSE, costErr |-> FALSE]
  /\ UNCHANGED <<instHasStore, connOpen, panicked, committed, tip, costTrack,
                 spent, analyzed, initOk, abortCb, returned>>

with_clarity_db == BeginWithClarityDb("withdb")
with_clarity_db_readonly == BeginWithClarityDb("withdb_ro")

(***************************************************************************)
(* The closure running inside an envelope (the contract's evaluation, or  *)
(* the caller's closure): a write into the nested transaction, a metered  *)
(* event charged to the environment's tracker, or an error.               *)
(***************************************************************************)
Running == op # Nil /\ ~op.failed /\ ~panicked

db_write(k, v) ==
  /\ Running
  /\ op' = [op EXCEPT !.writes[k] = v]
  /\ UNCHANGED <<instHasStore, connOpen, panicked, committed, tip, costTrack,
                 spent, analyzed, initOk, abortCb, returned>>

runtime_cost ==
  /\ Running
  /\ op.env # Nil
  /\ Charged(op.env, 1) <= MaxCost
  /\ LET total == Charged(op.env, 1)
     IN op' = [op EXCEPT !.env = total, !.charged = TRUE,
                         !.failed = Exceeds(total), !.costErr = Exceeds(total)]
  /\ spent' = spent + 1
  /\ UNCHANGED <<instHasStore, connOpen, panicked, committed, tip, costTrack,
                 analyzed, initOk, abortCb, returned>>

runtime_error ==
  /\ Running
  /\ op' = [op EXCEPT !.failed = TRUE]
  /\ UNCHANGED <<instHasStore, connOpen, panicked, committed, tip, costTrack,
                 spent, analyzed, initOk, abortCb, returned>>

(***************************************************************************)
(* OwnedEnvironment::initialize_contract_from_ast fails with              *)
(* ContractAlreadyExists and execute_transaction with NoSuchContract; an  *)
(* execution returns Ok only after at least one metered event.            *)
(***************************************************************************)
ContractCheck(o) ==
  IF o.kind = "init" THEN o.contract \notin tip.contracts
                     ELSE o.contract \in tip.contracts

ExecutionOk(o) == ~o.failed /\ o.charged /\ ContractCheck(o)

\* The tip after committing an execution's nested transaction.
Committed(o) ==
  [tip EXCEPT !.data = ApplyWrites(@, o.writes),
              !.contracts = IF o.kind = "init" THEN @ \cup {o.contract} ELSE @]

(***************************************************************************)
(* with_abort_callback, exit: recover the database and the tracker from   *)
(* the environment and put the tracker back; on Ok call abort_call_back   *)
(* and roll back if it returns true, commit otherwise; on Err roll back.  *)
(* initialize_smart_contract returns Ok(asset_map) in both Ok cases.      *)
(***************************************************************************)
with_abort_callback_return ==
  /\ op # Nil /\ op.kind \in {"init", "call"} /\ ~panicked
  /\ op' = Nil
  /\ costTrack' = op.env
  /\ IF ExecutionOk(op)
       THEN /\ \E abort \in BOOLEAN :
                 /\ abortCb' = abort
                 /\ tip' = IF abort THEN tip ELSE Committed(op)
            /\ initOk' = IF op.kind = "init" THEN initOk \cup {op.contract}
                         ELSE initOk
       ELSE UNCHANGED <<tip, initOk, abortCb>>
  /\ returned' = IF ExecutionOk(op) THEN Returns("Ok") ELSE ErrorFrom(op)
  /\ UNCHANGED <<instHasStore, connOpen, panicked, committed, spent, analyzed>>

(***************************************************************************)
(* with_clarity_db commits on Ok and rolls back on Err;                   *)
(* with_clarity_db_readonly always rolls back.                            *)
(***************************************************************************)
with_clarity_db_return ==
  /\ op # Nil /\ op.kind \in {"withdb", "withdb_ro"} /\ ~panicked
  /\ op' = Nil
  /\ tip' = IF op.kind = "withdb" /\ ~op.failed
              THEN [tip EXCEPT !.data = ApplyWrites(@, op.writes)]
              ELSE tip
  /\ UNCHANGED <<instHasStore, connOpen, panicked, committed, costTrack, spent,
                 analyzed, initOk, abortCb, returned>>

(***************************************************************************)
(* commit_block / commit_to_block / commit_block_will_move: commit the    *)
(* MARF tip and the side store, give the store back to the instance, then *)
(* unwrap the cost tracker (panic if it is gone: the block is already     *)
(* committed).  The three differ only in the block hash committed to.    *)
(***************************************************************************)
\* Mutant: the MARF tip is committed but the side store is not.
commit_block_without_side_store ==
  /\ Idle
  /\ committed' = [tip EXCEPT !.analyses = committed.analyses]
  /\ instHasStore' = TRUE
  /\ connOpen' = FALSE
  /\ panicked' = (costTrack = Nil)
  /\ UNCHANGED <<tip, costTrack, op, spent, analyzed, initOk, abortCb, returned>>

commit_block ==
  /\ Idle
  /\ committed' = tip
  /\ instHasStore' = TRUE
  /\ connOpen' = FALSE
  /\ panicked' = (costTrack = Nil)
  /\ UNCHANGED <<tip, costTrack, op, spent, analyzed, initOk, abortCb, returned>>

\* rollback_block: drop the tip's writes and give the store back.
rollback_block ==
  /\ Idle
  /\ instHasStore' = TRUE
  /\ connOpen' = FALSE
  /\ UNCHANGED <<panicked, committed, tip, costTrack, op, spent, analyzed,
                 initOk, abortCb, returned>>

\* The caller drops the connection without commit or rollback (an early
\* return): the instance's store is never replaced.
drop_connection ==
  /\ Idle
  /\ connOpen' = FALSE
  /\ UNCHANGED <<instHasStore, panicked, committed, tip, costTrack, op, spent,
                 analyzed, initOk, abortCb, returned>>

-----------------------------------------------------------------------------
Next ==
  \/ begin_block
  \/ new_instance
  \/ destroy
  \/ \E c \in Contracts :
        \/ analyze_smart_contract(c)
        \/ save_analysis(c)
        \/ initialize_smart_contract(c)
        \/ run_contract_call(c)
  \/ with_clarity_db
  \/ with_clarity_db_readonly
  \/ \E k \in Keys, v \in Vals : db_write(k, v)
  \/ runtime_cost
  \/ runtime_error
  \/ with_abort_callback_return
  \/ with_clarity_db_return
  \/ commit_block
  \/ rollback_block
  \/ drop_connection

Spec == Init /\ [][Next]_vars

-----------------------------------------------------------------------------
\* Types of the variables, and the ownership of the datastore: begin_block
\* moves it out of the ClarityInstance (Option::take), so while a block
\* connection is open the instance does not hold it.
TypeOK ==
  /\ instHasStore \in BOOLEAN
  /\ connOpen => ~instHasStore    \* the datastore is moved, never shared
  /\ connOpen \in BOOLEAN
  /\ panicked \in BOOLEAN
  /\ committed \in Store
  /\ tip \in Store
  /\ costTrack \in Costs \cup {Nil}
  /\ op \in Op \cup {Nil}
  /\ spent \in Costs
  /\ analyzed \subseteq Contracts
  /\ initOk \subseteq Contracts
  /\ abortCb \in BOOLEAN \cup {Nil}
  /\ returned \in {Nil} \cup [class : Classes, total : Costs \cup {Nil}]


(***************************************************************************)
(* Refinement: the connection implements AtomicBlocks, with the persisted *)
(* store as the abstract store and the MARF tip of a live, non-panicked   *)
(* connection as the open block.  Every with_* envelope, save_analysis    *)
(* and analysis is a Transact or a stutter; commit_block is Commit;       *)
(* rollback_block, drop_connection and a panic are Abandon.               *)
(***************************************************************************)
Abstract == INSTANCE AtomicBlocks WITH
              store <- committed,
              pending <- IF connOpen /\ ~panicked THEN tip ELSE Nil

RefinesAtomicBlocks == Abstract!Spec

(***************************************************************************)
(* Cost accounting: whichever object owns the block's cost tracker (the   *)
(* connection, or the OwnedEnvironment an envelope moved it into) holds   *)
(* every runtime unit charged in the block so far, including the units of *)
(* parses, analyses and transactions that failed.  This is what           *)
(* with_abort_callback's recovery of the tracker before it looks at the   *)
(* result, and analyze_smart_contract's take_contract_cost_tracker, are   *)
(* for.                                                                    *)
(***************************************************************************)
TrackerHolder == IF op # Nil /\ op.env # Nil THEN op.env ELSE costTrack

CostAccounted ==
  (connOpen /\ ~panicked /\ TrackerHolder # Nil) => TrackerHolder = spent

(***************************************************************************)
(* The block budget gates execution: no initialize_smart_contract or      *)
(* run_contract_call commits its writes to the tip once the block's       *)
(* runtime cost, as recovered from the environment, exceeds the limit.    *)
(***************************************************************************)
ExecutionCommits ==
  /\ op # Nil /\ op.kind \in {"init", "call"} /\ op' = Nil
  /\ ExecutionOk(op) /\ abortCb' = FALSE

BudgetGatesExecution ==
  [][ExecutionCommits => costTrack' \in 0 .. Limit]_vars

(***************************************************************************)
(* The spec (4.5, 5): the cost tracker moves from the block connection    *)
(* into an analysis and back, never lost.  Whenever the connection is     *)
(* idle it holds its tracker.                                             *)
(***************************************************************************)
CostTrackerHome == Idle => costTrack # Nil

(***************************************************************************)
(* A caller that saves an analysis only after initialize_smart_contract   *)
(* returned Ok never leaves an analysis in the side store for a contract  *)
(* that was not initialized.                                              *)
(***************************************************************************)
AnalysisHasContract(s) == s.analyses \subseteq s.contracts

AnalysisImpliesContract ==
  AnalysisHasContract(committed) /\ (connOpen => AnalysisHasContract(tip))

(***************************************************************************)
(* Spec 5 and 6: an execution stopped by the block budget reports        *)
(* CostError(total, limit), so callers can tell it from a contract's      *)
(* error.  Whenever initialize_smart_contract or run_contract_call       *)
(* returns, it returns CostError exactly when it met a metered event      *)
(* while the block's runtime was over the limit, and the total reported   *)
(* is all the runtime charged in the block, failed analyses and          *)
(* transactions included: the tracker moved into the environment keeps   *)
(* the exceeded total, and From<InterpreterError> promotes it.            *)
(***************************************************************************)
ExecutionReturn == op # Nil /\ op.kind \in {"init", "call"} /\ op' = Nil /\ ~panicked

CostErrorReported ==
  [][ExecutionReturn =>
       /\ (returned'.class = "CostError") = (op.charged /\ spent > Limit)
       /\ returned'.class = "CostError" => returned'.total = spent]_vars

=============================================================================
