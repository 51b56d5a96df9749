---------------------------- MODULE AtomicBlocks ----------------------------
(***************************************************************************)
(* What the block connection promises its callers (spec section 5,       *)
(* "Ordering guarantees"): the persisted store moves only from one        *)
(* committed block to the next; a block's writes build on the state the   *)
(* block was opened on, become visible all at once when the block is      *)
(* committed, and vanish if it is rolled back or abandoned.  Contracts    *)
(* and analyses are only ever added within a block.                       *)
(***************************************************************************)
CONSTANTS Keys, Vals, Contracts, Nil

VARIABLES
  store,    \* the state every new block connection starts from
  pending   \* the open block's state, or Nil when no block is open

Store == [data : [Keys -> Vals \cup {Nil}],
          contracts : SUBSET Contracts,
          analyses : SUBSET Contracts]

Init ==
  /\ store = [data |-> [k \in Keys |-> Nil], contracts |-> {}, analyses |-> {}]
  /\ pending = Nil

Open ==
  /\ pending = Nil
  /\ pending' = store
  /\ UNCHANGED store

\* A transaction of the open block: any writes, no removal of a contract
\* or of an analysis.
Transact ==
  /\ pending # Nil
  /\ pending' \in Store
  /\ pending.contracts \subseteq pending'.contracts
  /\ pending.analyses \subseteq pending'.analyses
  /\ UNCHANGED store

Commit ==
  /\ pending # Nil
  /\ store' = pending
  /\ pending' = Nil

Abandon ==
  /\ pending # Nil
  /\ pending' = Nil
  /\ UNCHANGED store

Next == Open \/ Transact \/ Commit \/ Abandon

Spec == Init /\ [][Next]_<<store, pending>>
=============================================================================
