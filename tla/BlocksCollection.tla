-------------------------- MODULE BlocksCollection --------------------------
(***************************************************************************)
(* The chain synchronisation daemon of a go-apla node                      *)
(* (packages/daemons/blocks_collection.go): the single-flight entry point  *)
(* blocksCollection, the window loop of UpdateChain with playRawBlock, and *)
(* the fork repair ReplaceBlocksFromHost -> getBlocks -> RollbackBlock ->  *)
(* processBlocks.                                                          *)
(*                                                                         *)
(* Data abstraction.  A block is identified by the chain prefix that ends  *)
(* in it: two blocks at height i are the same block iff the two chains     *)
(* agree on 1..i (the hash of a block covers its previous header).  The    *)
(* key-value registry is abstracted to the sequence of blocks whose        *)
(* transactions it reflects, and the rollback ledger of a block to the     *)
(* registry as it was before the block was played: rollbackState restores  *)
(* exactly that state and discards the entries.                            *)
(***************************************************************************)
EXTENDS Integers, Sequences, FiniteSets

CONSTANTS
    Hosts,          \* the remote hosts (syspar.GetRemoteHosts)
    Triggers,       \* goroutines that may call BlocksCollection concurrently
    Vals,           \* block contents, as model values
    Genesis,        \* the first block, loaded by firstLoad on every node
    PeerChain,      \* PeerChain[h]: the chain host h serves at the start
    LocalInits,     \* the local chains the daemon may start with
    BlocksPerRequest, \* network.BlocksPerRequest: window size of UpdateChain
    RbBlocks,       \* syspar.GetRbBlocks1(): cap on blocks getBlocks collects
    MaxHeight,      \* bound on the height of the local chain
    MaxOwnBlocks,   \* bound on blocks the node itself produces under DBLock
    MaxPeerBlocks,  \* bound on blocks the network appends to the best chain
    Faults,         \* the failures the environment may inject
    MaxFaults,      \* bound on the number of injected failures
    NoHolder, None  \* model values: free lock, absent rollback record

FaultKinds ==
    { "NodesUnavailable",  \* HostWithMaxBlock finds no host
      "StreamError",       \* GetBlocksBodies fails to open a stream
      "WindowTruncate",    \* a forward stream closes early (connection drop)
      "PlayError",         \* PlaySafe of one block fails and rolls back
      "ForkTruncate",      \* the reverse stream of getBlocks closes early
      "ReplayError",       \* Play of a replacement block fails in processBlocks
      "SysUpdateError",    \* syspar.SysUpdate fails in processBlocks
      "LoadError",         \* InitialLoad fails (info block, first block file)
      "Crash" }            \* the node process stops and is restarted

ASSUME Faults \subseteq FaultKinds

VARIABLES
    chain,      \* block table + info block: the local chain, tip = Len(chain)
    registry,   \* the registry state, as the blocks it reflects
    rbLedger,   \* rbLedger[i]: registry before block i was played, or None
    bcOnRun,    \* the single-flight flag bcOnRun
    dbLock,     \* holder of the process-wide DBLock
    pc,         \* pc[t]: where goroutine t is in blocksCollection
    host, maxBlockID,    \* chosen by getHostWithMaxID
    blockID,    \* UpdateChain: first block of the current window
    next, last, \* the next block the open stream delivers, and its last one
    replaceCount, \* playRawBlock: minimum number of blocks getBlocks returns
    cands,      \* ReplaceBlocksFromHost: ids of the blocks getBlocks returned
    rbList,     \* ReplaceBlocksFromHost: local blocks still to roll back
    openTxns,   \* database transactions neither committed nor rolled back
    produced,   \* blocks the node has produced itself
    started,    \* InitialLoad has returned nil: the daemons run
    peers,      \* peers[h]: the chain host h serves now
    grown,      \* blocks the network has appended so far
    faults      \* failures injected so far

durable == <<chain, registry, rbLedger>>
passVars == <<host, maxBlockID, blockID, next, last, replaceCount, cands, rbList>>
network == <<peers, grown>>
vars == <<durable, bcOnRun, dbLock, pc, passVars, openTxns, produced, network,
          started, faults>>

Tip == Len(chain)

Prefix(s, n) == SubSeq(s, 1, n)

\* The local block n and the peer's block n are the same block (hashes match).
Agree(c1, c2, n) == n <= Len(c1) /\ n <= Len(c2) /\ Prefix(c1, n) = Prefix(c2, n)

\* An injected failure of kind f may happen in this step.
Fault(f) == f \in Faults /\ faults < MaxFaults

Heights == 1..MaxHeight

\* A block played on the registry records the state it found (saveState).
LedgerOf(c) == [i \in Heights |-> IF 2 <= i /\ i <= Len(c) THEN Prefix(c, i - 1)
                                                           ELSE None]

Init ==
    /\ chain \in LocalInits
    /\ registry = chain
    /\ rbLedger = LedgerOf(chain)
    /\ bcOnRun = 0
    /\ dbLock = NoHolder
    /\ pc = [t \in Triggers |-> "idle"]
    /\ host = CHOOSE h \in Hosts : TRUE
    /\ maxBlockID = 0 /\ blockID = 0 /\ next = 0 /\ last = 0
    /\ replaceCount = 0 /\ cands = <<>> /\ rbList = <<>>
    /\ openTxns = 0 /\ produced = 0 /\ faults = 0
    /\ peers = PeerChain /\ grown = 0
    /\ started = FALSE

Goto(t, l) == pc' = [pc EXCEPT ![t] = l]

\* This step takes one injected failure.
Failed == faults' = faults + 1

(***************************************************************************)
(* InitialLoad, before the daemons start (and again after a restart).     *)
(* needLoad reads the info block; an empty chain (BlockID 0) is loaded by  *)
(* firstLoad under DBLock: loadFirstBlock reads the first block file,     *)
(* only logs a read error, and inserts what it read with                  *)
(* InsertBlockWOForks, which fails on the empty content of a failed read. *)
(* A failed InitialLoad stops the node, which is started again.           *)
(***************************************************************************)
needLoad == Tip = 0

\* The first block has no predecessor, so it gets no rollback record.
loadFirstBlock ==
    /\ chain' = <<Genesis>>
    /\ registry' = <<Genesis>>

\* firstLoad: loadFirstBlock with DBLock held for the whole step.
firstLoad == dbLock = NoHolder /\ loadFirstBlock

InitialLoad ==
    /\ ~started
    /\ \/ /\ Fault("LoadError")     \* infoBlock.Get, or ReadFile then Insert
          /\ Failed
          /\ UNCHANGED <<durable, started>>
       \/ /\ needLoad
          /\ firstLoad
          /\ started' = TRUE
          /\ UNCHANGED <<rbLedger, faults>>
       \/ /\ ~needLoad
          /\ started' = TRUE
          /\ UNCHANGED <<durable, faults>>
    /\ UNCHANGED <<bcOnRun, dbLock, pc, passVars, openTxns, produced, network>>

(***************************************************************************)
(* blocksCollection: the compare-and-swap on bcOnRun.  A goroutine that    *)
(* loses it returns nil at once.                                           *)
(***************************************************************************)
StartPass(t) ==
    /\ started
    /\ pc[t] = "idle"
    /\ bcOnRun = 0
    /\ bcOnRun' = 1
    /\ Goto(t, "host")
    /\ UNCHANGED <<durable, dbLock, passVars, openTxns, produced, faults, network, started>>

PassBusy(t) ==
    /\ started
    /\ pc[t] = "idle"
    /\ bcOnRun = 1
    /\ UNCHANGED vars

(***************************************************************************)
(* getHostWithMaxID: banNode is disabled, so no host is ever filtered out; *)
(* HostWithMaxBlock returns a host reporting the greatest height or        *)
(* ErrNodesUnavailable.  Then the info block is read, before DBLock, and   *)
(* the pass returns when the local tip is already at maxBlockID.           *)
(***************************************************************************)
BestHosts == {h \in Hosts : \A g \in Hosts : Len(peers[g]) <= Len(peers[h])}

getHostWithMaxID(t) ==
    /\ pc[t] = "host"
    /\ \/ /\ Fault("NodesUnavailable")
          /\ Failed
          /\ Goto(t, "finish")
          /\ UNCHANGED <<host, maxBlockID>>
       \/ \E h \in BestHosts :
            /\ host' = h
            /\ maxBlockID' = Len(peers[h])
            /\ Goto(t, IF Tip >= Len(peers[h]) THEN "finish" ELSE "lock")
            /\ UNCHANGED faults
    /\ UNCHANGED <<durable, bcOnRun, dbLock, blockID, next, last, replaceCount,
                   cands, rbList, openTxns, produced, network, started>>

LockDB(t) ==
    /\ pc[t] = "lock"
    /\ dbLock = NoHolder
    /\ dbLock' = t
    /\ Goto(t, "uc")
    /\ UNCHANGED <<durable, bcOnRun, passVars, openTxns, produced, faults, network, started>>

\* The deferred functions: DBUnlock (when held) and the reset of bcOnRun.
Finish(t) ==
    /\ pc[t] = "finish"
    /\ dbLock' = IF dbLock = t THEN NoHolder ELSE dbLock
    /\ bcOnRun' = 0
    /\ Goto(t, "idle")
    /\ maxBlockID' = 0 /\ blockID' = 0 /\ next' = 0 /\ last' = 0
    /\ replaceCount' = 0 /\ cands' = <<>> /\ rbList' = <<>>
    /\ UNCHANGED <<durable, host, openTxns, produced, faults, network, started>>

(***************************************************************************)
(* UpdateChain: read the tip again under the lock, then fetch windows of   *)
(* BlocksPerRequest blocks starting at tip+1 until maxBlockID.             *)
(***************************************************************************)
UpdateChain(t) ==
    /\ pc[t] = "uc"
    /\ blockID' = Tip + 1
    /\ Goto(t, "window")
    /\ UNCHANGED <<durable, bcOnRun, dbLock, host, maxBlockID, next, last,
                   replaceCount, cands, rbList, openTxns, produced, faults, network, started>>

\* The end of the peer's stream for a window starting at b.
WindowEnd(b) == IF b + BlocksPerRequest - 1 < Len(peers[host])
                THEN b + BlocksPerRequest - 1 ELSE Len(peers[host])

\* The for loop's condition, and GetBlocksBodies(host, blockID, false): the
\* peer streams blocks blockID.. up to a window; the stream may close early.
OpenWindow(t) ==
    /\ pc[t] = "window"
    /\ \/ /\ blockID > maxBlockID
          /\ Goto(t, "finish")
          /\ UNCHANGED <<next, last, faults>>
       \/ /\ blockID <= maxBlockID
          /\ Fault("StreamError")
          /\ Failed
          /\ Goto(t, "finish")
          /\ UNCHANGED <<next, last>>
       \/ /\ blockID <= maxBlockID
          /\ \/ /\ last' = WindowEnd(blockID)
                /\ UNCHANGED faults
             \/ /\ Fault("WindowTruncate")
                /\ last' \in blockID - 1 .. WindowEnd(blockID) - 1
                /\ Failed
          /\ next' = blockID
          /\ Goto(t, "play")
    /\ UNCHANGED <<durable, bcOnRun, dbLock, host, maxBlockID, blockID,
                   replaceCount, cands, rbList, openTxns, produced, network, started>>

\* The stream is exhausted: the next window starts BlocksPerRequest further,
\* however many blocks this one delivered.
WindowDone(t) ==
    /\ pc[t] = "play"
    /\ next > last
    /\ blockID' = blockID + BlocksPerRequest
    /\ Goto(t, "window")
    /\ UNCHANGED <<durable, bcOnRun, dbLock, host, maxBlockID, next, last,
                   replaceCount, cands, rbList, openTxns, produced, faults, network, started>>

\* bl.Check() and bl.PlaySafe() of the peer's block n, whose previous header
\* is the local block n-1: the producer's signature covers the previous
\* header, so it verifies only when the two chains agree up to n-1.  PlaySafe
\* plays, stores the block and advances the info block in one transaction.
CheckAndPlaySafe(t, n) ==
    \/ /\ ~Agree(chain, peers[host], n - 1)
       /\ Goto(t, "finish")
       /\ UNCHANGED <<durable, next, faults>>
    \/ /\ Agree(chain, peers[host], n - 1)
       /\ Fault("PlayError")
       /\ Failed
       /\ Goto(t, "finish")
       /\ UNCHANGED <<durable, next>>
    \/ /\ Agree(chain, peers[host], n - 1)
       /\ chain' = Append(chain, peers[host][n])
       /\ registry' = Append(registry, peers[host][n])
       /\ rbLedger' = [rbLedger EXCEPT ![n] = registry]
       /\ next' = n + 1
       /\ Goto(t, "play")
       /\ UNCHANGED faults

(***************************************************************************)
(* playRawBlock of the next streamed block.  ProcessBlockWhere-            *)
(* PrevFromBlockchainTable fails when the previous block is not stored.    *)
(* When the block's previous hash does not match the local block n-1       *)
(* (CheckHash), the fork is repaired first with replaceCount 1, or 2 when  *)
(* the mismatch is ErrIncorrectRollbackHash.                               *)
(***************************************************************************)
playRawBlock(t) ==
    /\ pc[t] = "play"
    /\ next <= last
    /\ \/ /\ next - 1 > Tip
          /\ Goto(t, "finish")
          /\ UNCHANGED <<durable, next, replaceCount, faults>>
       \/ /\ next - 1 <= Tip
          /\ Agree(chain, peers[host], next - 1)
          /\ CheckAndPlaySafe(t, next)
          /\ UNCHANGED replaceCount
       \/ /\ next - 1 <= Tip
          /\ ~Agree(chain, peers[host], next - 1)
          /\ replaceCount' \in {1, 2}
          /\ Goto(t, "getblocks")
          /\ UNCHANGED <<durable, next, faults>>
    /\ UNCHANGED <<bcOnRun, dbLock, host, maxBlockID, blockID, last, cands,
                   rbList, openTxns, produced, network, started>>

(***************************************************************************)
(* getBlocks(d, minCount): read the peer's blocks d, d-1, ... from a       *)
(* reverse stream of which only the first avail items arrive.  Each block  *)
(* is kept; the search stops at the first block whose signature verifies  *)
(* over the local previous header once minCount blocks are kept, or when   *)
(* RbBlocks blocks are kept.  Block 1 has no stored predecessor, so        *)
(* processing it fails.  The guard "blockID < 2" tests d, not nextBlockID. *)
(***************************************************************************)
\* Variant that stops after minCount blocks without checking any signature.
RECURSIVE GetBlocksLoopUnsigned(_, _, _, _, _)
GetBlocksLoopUnsigned(d, nextBlockID, minCount, blocks, avail) ==
    IF avail = 0 \/ d < 2 \/ Len(blocks) >= RbBlocks
    THEN [err |-> FALSE, ids |-> blocks]
    ELSE IF nextBlockID < 2
    THEN [err |-> TRUE, ids |-> <<>>]
    ELSE LET kept == Append(blocks, nextBlockID)
         IN IF Len(kept) >= minCount
            THEN [err |-> FALSE, ids |-> kept]
            ELSE GetBlocksLoopUnsigned(d, nextBlockID - 1, minCount, kept, avail - 1)

RECURSIVE GetBlocksLoop(_, _, _, _, _)
GetBlocksLoop(d, nextBlockID, minCount, blocks, avail) ==
    IF avail = 0 \/ d < 2 \/ Len(blocks) >= RbBlocks
    THEN [err |-> FALSE, ids |-> blocks]
    ELSE IF nextBlockID < 2
    THEN [err |-> TRUE, ids |-> <<>>]
    ELSE LET kept == Append(blocks, nextBlockID)
         IN IF Agree(chain, peers[host], nextBlockID - 1) /\ Len(kept) >= minCount
            THEN [err |-> FALSE, ids |-> kept]
            ELSE GetBlocksLoop(d, nextBlockID - 1, minCount, kept, avail - 1)

getBlocks(d, minCount, avail) == GetBlocksLoop(d, d, minCount, <<>>, avail)

\* block.GetBlocksFrom(from, "desc", 0): the stored blocks above from, newest first.
\* Variant that lists the blocks to roll back oldest first.
GetBlocksFromAscending(from) == [i \in 1..(Tip - from) |-> from + i]

\* Variant with an off-by-one: the block "from" itself is rolled back too.
GetBlocksFromInclusive(from) == [i \in 1..(Tip - from + 1) |-> Tip - i + 1]

GetBlocksFrom(from) == [i \in 1..(Tip - from) |-> Tip - i + 1]

(***************************************************************************)
(* ReplaceBlocksFromHost(host, d, replaceCount), up to the rollbacks: the  *)
(* blocks from getBlocks, CleanCache and MarkVerifiedAndNotUsed-           *)
(* TransactionsUnverified (no modelled state), the starting id taken from  *)
(* the oldest block received, and the local blocks to roll back.           *)
(***************************************************************************)
ReplaceBlocksFromHost(t) ==
    /\ pc[t] = "getblocks"
    /\ LET d == next - 1 IN
       \/ /\ Fault("StreamError")
          /\ Failed
          /\ Goto(t, "finish")
          /\ UNCHANGED <<cands, rbList>>
       \/ \E avail \in 0..d :
            LET r == getBlocks(d, replaceCount, avail)
                start == IF r.ids # <<>> THEN r.ids[Len(r.ids)] ELSE d
            IN /\ avail < d => Fault("ForkTruncate")
               /\ faults' = IF avail < d THEN faults + 1 ELSE faults
               /\ IF r.err
                  THEN /\ Goto(t, "finish")
                       /\ UNCHANGED <<cands, rbList>>
                  ELSE /\ cands' = r.ids
                       /\ rbList' = GetBlocksFrom(start - 1)
                       /\ Goto(t, "rollback")
    /\ UNCHANGED <<durable, bcOnRun, dbLock, host, maxBlockID, blockID, next,
                   last, replaceCount, openTxns, produced, network, started>>

(***************************************************************************)
(* rollback.RollbackBlock of the next local block, newest first.  It takes *)
(* no transaction of the caller: its rollbackState is committed on its     *)
(* own, before processBlocks starts a transaction.                         *)
(***************************************************************************)
RollbackBlock(t) ==
    /\ pc[t] = "rollback"
    /\ rbList # <<>>
    /\ LET i == Head(rbList) IN
       /\ registry' = IF rbLedger[i] # None THEN rbLedger[i] ELSE registry
       /\ rbLedger' = [rbLedger EXCEPT ![i] = None]
    /\ rbList' = Tail(rbList)
    /\ UNCHANGED <<chain, bcOnRun, dbLock, pc, host, maxBlockID, blockID, next,
                   last, replaceCount, cands, openTxns, produced, faults, network, started>>

(***************************************************************************)
(* processBlocks(blocks) in one transaction, oldest block first: the       *)
(* previous header of every block but the oldest is re-linked to the      *)
(* block before it; each block is checked and played; the info block is    *)
(* set to the newest one; all are inserted; commit.  A failing Check or    *)
(* Play rolls the transaction back.  A failing syspar.SysUpdate returns    *)
(* without rolling back or committing it.  The oldest block's previous     *)
(* header is the stored local one, so its signature verifies only when the *)
(* chains agree below it.                                                  *)
(***************************************************************************)
processBlocks(t) ==
    /\ pc[t] = "rollback"
    /\ rbList = <<>>
    /\ LET d == next - 1
           c == IF cands # <<>> THEN cands[Len(cands)] ELSE d + 1
           replay == SubSeq(peers[host], c, d)
       IN
       \/ /\ cands = <<>> \/ Agree(chain, peers[host], c - 1)
          /\ chain' = Prefix(chain, c - 1) \o replay
          /\ registry' = registry \o replay
          /\ rbLedger' = [i \in Heights |->
                            IF c <= i /\ i <= d
                            THEN registry \o SubSeq(peers[host], c, i - 1)
                            ELSE rbLedger[i]]
          /\ Goto(t, "playcont")
          /\ UNCHANGED <<openTxns, faults>>
       \/ /\ cands # <<>>
          /\ ~Agree(chain, peers[host], c - 1)
          /\ Goto(t, "finish")
          /\ UNCHANGED <<durable, openTxns, faults>>
       \/ /\ cands # <<>>
          /\ Agree(chain, peers[host], c - 1)
          /\ Fault("ReplayError")
          /\ Failed
          /\ Goto(t, "finish")
          /\ UNCHANGED <<durable, openTxns>>
       \/ /\ cands # <<>>
          /\ Agree(chain, peers[host], c - 1)
          /\ Fault("SysUpdateError")
          /\ Failed
          /\ openTxns' = openTxns + 1
          /\ Goto(t, "finish")
          /\ UNCHANGED durable
    /\ UNCHANGED <<bcOnRun, dbLock, passVars, produced, network, started>>

\* The rest of playRawBlock after a replacement: the previous header is read
\* again from the block table, then Check and PlaySafe.
PlayAfterReplace(t) ==
    /\ pc[t] = "playcont"
    /\ CheckAndPlaySafe(t, next)
    /\ UNCHANGED <<bcOnRun, dbLock, host, maxBlockID, blockID, last,
                   replaceCount, cands, rbList, openTxns, produced, network, started>>

(***************************************************************************)
(* Another subsystem that writes the chain under DBLock: the node's own    *)
(* block generator, which plays and stores a block of its own on the tip. *)
(* It holds the lock for the whole step.                                   *)
(***************************************************************************)
ProduceBlock ==
    /\ started
    /\ dbLock = NoHolder
    /\ produced < MaxOwnBlocks
    /\ Tip < MaxHeight
    /\ \E v \in Vals :
         /\ chain' = Append(chain, v)
         /\ registry' = Append(registry, v)
         /\ rbLedger' = [rbLedger EXCEPT ![Tip + 1] = registry]
    /\ produced' = produced + 1
    /\ UNCHANGED <<bcOnRun, dbLock, pc, passVars, openTxns, faults, network, started>>

(***************************************************************************)
(* The network: the hosts on the best chain append a block of the network *)
(* (HostWithMaxBlock and the streams read the chains as they are then).   *)
(***************************************************************************)
NetworkGrows ==
    /\ grown < MaxPeerBlocks
    /\ \E h \in BestHosts, v \in Vals :
         /\ Len(peers[h]) < MaxHeight
         /\ peers' = [peers EXCEPT ![h] = Append(@, v)]
    /\ grown' = grown + 1
    /\ UNCHANGED <<durable, bcOnRun, dbLock, pc, passVars, openTxns, produced,
                   started, faults>>

(***************************************************************************)
(* The node process stops and restarts: what was committed stays, the      *)
(* in-memory flag, lock and pass are gone, and the database server aborts *)
(* the transactions of the lost connections.                               *)
(***************************************************************************)
Crash ==
    /\ Fault("Crash")
    /\ Failed
    /\ bcOnRun' = 0
    /\ dbLock' = NoHolder
    /\ pc' = [t \in Triggers |-> "idle"]
    /\ maxBlockID' = 0 /\ blockID' = 0 /\ next' = 0 /\ last' = 0
    /\ replaceCount' = 0 /\ cands' = <<>> /\ rbList' = <<>>
    /\ openTxns' = 0
    /\ started' = FALSE
    /\ UNCHANGED <<durable, host, produced, network>>

Pass(t) ==
    \/ StartPass(t) \/ getHostWithMaxID(t) \/ LockDB(t)
    \/ UpdateChain(t) \/ OpenWindow(t) \/ WindowDone(t) \/ playRawBlock(t)
    \/ ReplaceBlocksFromHost(t) \/ RollbackBlock(t) \/ processBlocks(t)
    \/ PlayAfterReplace(t) \/ Finish(t)

Next == InitialLoad \/ ProduceBlock \/ NetworkGrows \/ Crash \/ \E t \in Triggers : Pass(t) \/ PassBusy(t)

\* The daemon calls BlocksCollection on every tick, and a running pass is
\* never descheduled for ever: weak fairness of every goroutine's steps.
\* The network keeps producing blocks until its bound, and a stopped node
\* is started again: weak fairness of NetworkGrows and InitialLoad.
Spec == Init /\ [][Next]_vars /\ \A t \in Triggers : WF_vars(Pass(t))
                              /\ WF_vars(NetworkGrows) /\ WF_vars(InitialLoad)

-----------------------------------------------------------------------------
PCs == {"idle", "host", "lock", "uc", "window", "play", "getblocks",
        "rollback", "playcont", "finish"}

TypeOK ==
    /\ chain \in Seq(Vals \cup {Genesis}) /\ Len(chain) <= MaxHeight
    /\ registry \in Seq(Vals \cup {Genesis})
    /\ rbLedger \in [Heights -> Seq(Vals \cup {Genesis}) \cup {None}]
    /\ bcOnRun \in {0, 1}
    /\ dbLock \in Triggers \cup {NoHolder}
    /\ pc \in [Triggers -> PCs]
    /\ host \in Hosts
    /\ replaceCount \in 0..2
    /\ cands \in Seq(2..MaxHeight) /\ rbList \in Seq(2..MaxHeight)
    /\ openTxns \in Nat /\ produced \in 0..MaxOwnBlocks /\ faults \in 0..MaxFaults
    /\ peers \in [Hosts -> Seq(Vals \cup {Genesis})] /\ grown \in 0..MaxPeerBlocks
    /\ started \in BOOLEAN

\* The registry reflects exactly the stored chain, and every stored block
\* above the first keeps the rollback record that undoes it, whenever no
\* goroutine holds DBLock (the state other subsystems see): fork repair,
\* rollbacks, failed streams and failed plays never leave the registry out
\* of step with the block table.
ConsistentAtRest ==
    dbLock = NoHolder =>
        /\ registry = chain
        /\ \A i \in 2..Tip : rbLedger[i] = Prefix(chain, i - 1)

\* Every database transaction processBlocks starts is committed or rolled
\* back before the pass returns.
NoLeakedTransaction == openTxns = 0

\* The chain the best hosts agree on.
SyncedWithBest == \E h \in BestHosts : Agree(chain, peers[h], Len(peers[h]))

\* Once injected failures stop and the network has grown, repeated passes
\* bring the local chain to a best host's chain, whatever fork the node
\* started on: a fork as long as the best chain, which a pass leaves alone
\* (the tip is not below maxBlockID), is repaired once the network grows
\* past it, and a host that grows after it was chosen is caught up with.
EventuallySynced == <>[]SyncedWithBest

=============================================================================
