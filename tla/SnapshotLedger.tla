--------------------------- MODULE SnapshotLedger ---------------------------
(***************************************************************************)
(* What the rollback ledger promises (spec 4.1 and "Rollback correctness" *)
(* of section 8), with no counters, entries or transactions: playing a     *)
(* block changes the registry and remembers the registry as the block     *)
(* found it; rolling back the newest block restores that registry.        *)
(* BlocksCollection uses this view of the ledger (its rbLedger).          *)
(***************************************************************************)
EXTENDS Integers, Sequences

CONSTANTS
    Keys,       \* registry keys (registry name, ecosystem and key together)
    Vals,       \* values a key may hold
    None,       \* the key does not exist
    InitKV,     \* the registry before the first block
    MaxBlocks   \* bound on the number of played blocks

VARIABLES
    kv,     \* the committed registry
    snaps   \* snaps[i]: the registry as block i found it

vars == <<kv, snaps>>

Registries == [Keys -> Vals \cup {None}]

Init ==
    /\ kv = InitKV
    /\ snaps = <<>>

\* A block is played and committed: the registry may change in any way.
PlayBlock ==
    /\ Len(snaps) < MaxBlocks
    /\ snaps' = Append(snaps, kv)
    /\ kv' \in Registries

\* The newest block is rolled back: the registry is as that block found it.
RollbackBlock ==
    /\ snaps # <<>>
    /\ kv' = snaps[Len(snaps)]
    /\ snaps' = SubSeq(snaps, 1, Len(snaps) - 1)

Next == PlayBlock \/ RollbackBlock

Spec == Init /\ [][Next]_vars

=============================================================================
