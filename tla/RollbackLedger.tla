--------------------------- MODULE RollbackLedger ---------------------------
(***************************************************************************)
(* The rollback ledger (metadataRollback: saveState and rollbackState, spec *)
(* 4.1; only its test registry/metadata_rollback_test.go is in src/) on    *)
(* the transactional key-value storage it writes to (spec section 6).      *)
(*                                                                         *)
(* Playing a block opens a storage transaction; before every write of a    *)
(* key the execution engine calls saveState, which stores the key's prior  *)
(* value under (block, counter, tx) and advances the block's counter.      *)
(* The commit makes the writes and the entries durable together.  Rolling  *)
(* back a block opens a transaction, restores the entries of the block in  *)
(* reverse counter order, discards them and commits.  A failed Set or a    *)
(* crash aborts the open transaction.                                      *)
(*                                                                         *)
(* A block is identified by its height: the entries of a rolled-back block *)
(* are discarded, so no two blocks of one height ever have entries.  The   *)
(* transaction hash of the storage key is left out: the counter alone      *)
(* orders the entries of a block.                                          *)
(***************************************************************************)
EXTENDS Integers, FiniteSets

CONSTANTS
    Keys,       \* registry keys (registry name, ecosystem and key together)
    Vals,       \* values a key may hold
    None,       \* the key does not exist (state.Value == "")
    InitKV,     \* the registry before the first block
    MaxBlocks,  \* bound on the number of played blocks
    MaxWrites,  \* bound on the saveState calls of one block
    Faults,     \* the failures the environment may inject
    MaxFaults   \* bound on the number of injected failures

FaultKinds ==
    { "Set",    \* tx.Set of the rollback entry fails in saveState
      "Crash" } \* the process stops; the open transaction is lost

ASSUME Faults \subseteq FaultKinds

Registries == [Keys -> Vals \cup {None}]

\* A rollback entry: the state record of saveState and its storage key.
Entries == [block : 1..MaxBlocks, counter : 1..MaxWrites, key : Keys,
            prev : Vals \cup {None}]

VARIABLES
    db,         \* committed storage: [kv, entries, tip]
    txn,        \* the open transaction's view of the storage (db when idle)
    op,         \* "idle", "play" (a block is played) or "rollback"
    txCounter,  \* metadataRollback.txCounter of the block being played
    pending,    \* the entries rollbackState has still to restore
    faults      \* failures injected so far

vars == <<db, txn, op, txCounter, pending, faults>>

Fault(f) == f \in Faults /\ faults < MaxFaults

Failed == faults' = faults + 1

EntriesOf(es, b) == {e \in es : e.block = b}

Init ==
    /\ db = [kv |-> InitKV, entries |-> {}, tip |-> 0]
    /\ txn = db
    /\ op = "idle"
    /\ txCounter = 0
    /\ pending = {}
    /\ faults = 0

\* A block is played in a new storage transaction with a new metadataRollback.
BeginPlay ==
    /\ op = "idle"
    /\ db.tip < MaxBlocks
    /\ op' = "play"
    /\ txCounter' = 0
    /\ UNCHANGED <<db, txn, pending, faults>>

\* Mutant: the counter is advanced twice before the entry is stored.
saveStateTwice(t, k, value) ==
    [t EXCEPT !.entries = @ \cup {[block |-> t.tip + 1, counter |-> txCounter + 2,
                                   key |-> k, prev |-> value]}]

\* saveState(block, tx, registry, key, value): the entry holding the prior
\* value is stored under the counter the call advances to.
saveState(t, k, value) ==
    [t EXCEPT !.entries = @ \cup {[block |-> t.tip + 1, counter |-> txCounter + 1,
                                   key |-> k, prev |-> value]}]

\* The execution engine writes v to k: saveState with k's prior value, then
\* the write, in the same transaction.  A failed saveState leaves the
\* counter as it was and fails the block; the caller rolls back the
\* storage transaction.
SetKey(k, v) ==
    /\ op = "play"
    /\ txCounter < MaxWrites
    /\ \/ /\ Fault("Set")
          /\ Failed
          /\ op' = "idle"
          /\ txn' = db
          /\ UNCHANGED txCounter
       \/ /\ txn' = [saveState(txn, k, txn.kv[k]) EXCEPT !.kv[k] = v]
          /\ txCounter' = txCounter + 1
          /\ UNCHANGED <<op, faults>>
    /\ UNCHANGED <<db, pending>>

\* The block is stored and the transaction committed.
CommitPlay ==
    /\ op = "play"
    /\ db' = [txn EXCEPT !.tip = @ + 1]
    /\ txn' = db'
    /\ op' = "idle"
    /\ UNCHANGED <<txCounter, pending, faults>>

\* rollbackState(block) of the newest block, in a transaction of its own.
BeginRollback ==
    /\ op = "idle"
    /\ db.tip > 0
    /\ op' = "rollback"
    /\ pending' = EntriesOf(db.entries, db.tip)
    /\ UNCHANGED <<db, txn, txCounter, faults>>

\* Mutant: the entries are restored in increasing counter order.
NextToRestoreOldest(es) == CHOOSE e \in es : \A f \in es : e.counter <= f.counter

\* The entry with the greatest counter is restored first.
NextToRestore(es) == CHOOSE e \in es : \A f \in es : f.counter <= e.counter

\* One entry is restored: the key gets its prior value back, or is deleted.
RestoreEntry ==
    LET e == NextToRestore(pending) IN
    /\ op = "rollback"
    /\ pending # {}
    /\ txn' = [txn EXCEPT !.kv[e.key] = e.prev]
    /\ pending' = pending \ {e}
    /\ UNCHANGED <<db, op, txCounter, faults>>

\* Every entry restored: the entries are discarded and the block leaves the
\* chain; the transaction commits.
FinishRollback ==
    /\ op = "rollback"
    /\ pending = {}
    /\ db' = [txn EXCEPT !.entries = @ \ EntriesOf(@, txn.tip),
                         !.tip = @ - 1]
    /\ txn' = db'
    /\ op' = "idle"
    /\ UNCHANGED <<txCounter, pending, faults>>

\* The process stops with a transaction open: storage keeps the last commit.
Crash ==
    /\ op # "idle"
    /\ Fault("Crash")
    /\ Failed
    /\ op' = "idle"
    /\ txn' = db
    /\ pending' = {}
    /\ UNCHANGED <<db, txCounter>>

Next ==
    \/ BeginPlay \/ CommitPlay \/ \E k \in Keys, v \in Vals : SetKey(k, v)
    \/ BeginRollback \/ RestoreEntry \/ FinishRollback
    \/ Crash

Spec == Init /\ [][Next]_vars

-----------------------------------------------------------------------------
TypeOK ==
    /\ db.kv \in Registries /\ db.entries \subseteq Entries
    /\ db.tip \in 0..MaxBlocks
    /\ txn.kv \in Registries /\ txn.entries \subseteq Entries
    /\ op \in {"idle", "play", "rollback"}
    /\ txCounter \in 0..MaxWrites
    /\ pending \subseteq Entries
    /\ faults \in 0..MaxFaults

(***************************************************************************)
(* Refinement mapping.  The registry block b found is what undoing the     *)
(* entries of the blocks from the tip down to b gives: for every key with  *)
(* an entry in a block, the prior value of its first entry there.          *)
(***************************************************************************)
Undo(kv, es) ==
    [k \in Keys |->
        LET ek == {e \in es : e.key = k} IN
        IF ek = {} THEN kv[k]
        ELSE (CHOOSE e \in ek : \A f \in ek : e.counter <= f.counter).prev]

RECURSIVE Unwind(_, _, _)
Unwind(kv, b, i) ==
    IF b < i THEN kv ELSE Unwind(Undo(kv, EntriesOf(db.entries, b)), b - 1, i)

SnapsOf == [i \in 1..db.tip |-> Unwind(db.kv, db.tip, i)]

Snapshot == INSTANCE SnapshotLedger WITH kv <- db.kv, snaps <- SnapsOf

\* The ledger implements the snapshot view of it: every committed state
\* change is a block played or the newest block rolled back to exactly the
\* registry it found, whatever keys its transactions wrote how often, and
\* whatever aborted in between.
SnapshotRefinement == Snapshot!Spec

=============================================================================
