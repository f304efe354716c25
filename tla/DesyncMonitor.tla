--------------------------- MODULE DesyncMonitor ---------------------------
(***************************************************************************)
(* The desync monitor tool (tools/desync_monitor/main.go) watching nodes   *)
(* that run the chain synchronisation of BlocksCollection.                 *)
(*                                                                         *)
(* One round of monitor(): query.MaxBlockIDs asks every listed node for    *)
(* its tip; minElement takes the lowest; query.BlockInfo asks every node   *)
(* for that block; the nodes are grouped by the block's rollbacks hash,    *)
(* and more than one group is mailed as an alert.  main() runs one round,  *)
(* or one per tick in daemon mode.  The nodes change between the two       *)
(* queries and between rounds: they produce blocks and adopt a longer      *)
(* peer's chain, as BlocksCollection does (see sync_liveness).             *)
(*                                                                         *)
(* As in BlocksCollection a block is identified by the chain prefix that   *)
(* ends in it, and the rollbacks hash of a block by the block itself.      *)
(***************************************************************************)
EXTENDS Integers, Sequences, FiniteSets

CONSTANTS
    Nodes,          \* the nodes of the network
    ConfNodesList,  \* NodesList of config.toml: a sequence of nodes
    NodesListFlag,  \* the -nodesList flag, or NoFlag
    ConfDaemonMode, \* Daemon.DaemonMode of config.toml
    DaemonModeFlag, \* the -daemonMode flag, or NoFlag
    NoFlag,         \* model value: flag not given on the command line
    Vals,           \* block contents, as model values
    InitChains,     \* the chains the nodes may start with, [Nodes -> Seq]
    MaxHeight,      \* bound on the height of a node's chain
    MaxProduced,    \* bound on the blocks the nodes produce in a behaviour
    MaxInt64,       \* math.MaxInt64, abstracted to a number above MaxHeight
    Faults,         \* the failures the environment may inject
    MaxFaults       \* bound on the number of injected failures

FaultKinds ==
    { "MaxBlockIDs",  \* query.MaxBlockIDs returns an error
      "BlockInfo",    \* query.BlockInfo returns an error
      "Smtp" }        \* smtp.SendMail fails; sendEmail only logs it

ASSUME Faults \subseteq FaultKinds /\ MaxInt64 > MaxHeight

VARIABLES
    chain,     \* chain[n]: the chain node n stores
    mpc,       \* "maxids" (round starts), "info" (tips known), or "exit"
    maxIDs,    \* the slice query.MaxBlockIDs returned in this round
    outcome,   \* how the last round ended: "none" while it runs, "synced",
               \* "alerted" (unsynced, mail sent), "lost" (unsynced, mail
               \* failed), "failed" (a query failed)
    produced,  \* blocks produced so far
    faults     \* failures injected so far

vars == <<chain, mpc, maxIDs, outcome, produced, faults>>

Fault(f) == f \in Faults /\ faults < MaxFaults

Failed == faults' = faults + 1

Prefix(s, n) == SubSeq(s, 1, n)

RangeOf(s) == {s[i] : i \in DOMAIN s}

(***************************************************************************)
(* flagsOverrideConfig: a flag given on the command line replaces the      *)
(* value of config.toml.  Only the two settings the control depends on.   *)
(***************************************************************************)
NodesList == IF NodesListFlag = NoFlag THEN ConfNodesList ELSE NodesListFlag

DaemonMode == IF DaemonModeFlag = NoFlag THEN ConfDaemonMode ELSE DaemonModeFlag

Listed == RangeOf(NodesList)

\* Mutant: the running minimum starts at 0 instead of math.MaxInt64.
RECURSIVE MinElementFromZero(_)
MinElementFromZero(slice) ==
    IF slice = <<>> THEN 0
    ELSE LET rest == MinElementFromZero(Tail(slice))
         IN IF Head(slice) < rest THEN Head(slice) ELSE rest

\* minElement: the running minimum, starting at math.MaxInt64.
RECURSIVE minElement(_)
minElement(slice) ==
    IF slice = <<>> THEN MaxInt64
    ELSE LET rest == minElement(Tail(slice))
         IN IF Head(slice) < rest THEN Head(slice) ELSE rest

\* Mutant: the last node of the list is not asked.
TipsOfButLast(list) == [i \in 1..(Len(list) - 1) |-> Len(chain[list[i]])]

\* query.MaxBlockIDs(conf.NodesList): the tips, in list order.
TipsOf(list) == [i \in DOMAIN list |-> Len(chain[list[i]])]

\* The rollbacks hash node n reports for block h: the block itself.
RollbacksHash(n, h) == Prefix(chain[n], h)

\* hash2Node, reduced to its keys: the distinct hashes of the replies.
hash2Node(h) == {RollbacksHash(n, h) : n \in Listed}

\* Mutant: an alert needs three groups instead of two.
UnsyncedAtThree(hashes) == Cardinality(hashes) > 2

\* len(hash2Node) <= 1 means "nodes synced"; otherwise an alert is mailed.
Unsynced(hashes) == Cardinality(hashes) > 1

\* main: the daemon starts the next round on the next tick; a single
\* request ends the process.
EndRound == mpc' = IF DaemonMode THEN "maxids" ELSE "exit"

\* sendEmail: a failed SendMail is logged and the round ends anyway.
sendEmail(sent, lost) ==
    \/ /\ Fault("Smtp")
       /\ Failed
       /\ outcome' = lost
    \/ /\ outcome' = sent
       /\ UNCHANGED faults

Init ==
    /\ chain \in InitChains
    /\ mpc = "maxids"
    /\ maxIDs = <<>>
    /\ outcome = "none"
    /\ produced = 0
    /\ faults = 0

(***************************************************************************)
(* monitor, first query: the tips of the listed nodes, in list order.  An  *)
(* error is mailed and ends the round.                                     *)
(***************************************************************************)
MaxBlockIDs ==
    /\ mpc = "maxids"
    /\ \/ /\ Fault("MaxBlockIDs")
          /\ Failed
          /\ outcome' = "failed"
          /\ EndRound
          /\ UNCHANGED maxIDs
       \/ /\ maxIDs' = TipsOf(NodesList)
          /\ outcome' = "none"
          /\ mpc' = "info"
          /\ UNCHANGED faults
    /\ UNCHANGED <<chain, produced>>

(***************************************************************************)
(* monitor, second query: block minElement(maxIDs) of every listed node,   *)
(* grouped by rollbacks hash.  The chains may have changed since the tips  *)
(* were read.                                                              *)
(***************************************************************************)
BlockInfo ==
    LET hashes == hash2Node(minElement(maxIDs)) IN
    /\ mpc = "info"
    /\ \/ /\ Fault("BlockInfo")
          /\ Failed
          /\ outcome' = "failed"
       \/ /\ ~Unsynced(hashes)
          /\ outcome' = "synced"
          /\ UNCHANGED faults
       \/ /\ Unsynced(hashes)
          /\ sendEmail("alerted", "lost")
    /\ EndRound
    /\ UNCHANGED <<chain, maxIDs, produced>>

Monitor == MaxBlockIDs \/ BlockInfo

(***************************************************************************)
(* The nodes.  A node adopts the chain of a longest node when it is        *)
(* behind it (the entry condition of BlocksCollection), and a node may     *)
(* produce a block on its own chain.                                       *)
(***************************************************************************)
Longest == {m \in Nodes : \A k \in Nodes : Len(chain[k]) <= Len(chain[m])}

Sync(n) ==
    /\ \E m \in Longest :
         /\ Len(chain[n]) < Len(chain[m])
         /\ chain' = [chain EXCEPT ![n] = chain[m]]
    /\ UNCHANGED <<mpc, maxIDs, outcome, produced, faults>>

Produce(n) ==
    /\ Len(chain[n]) < MaxHeight
    /\ produced < MaxProduced
    /\ \E v \in Vals : chain' = [chain EXCEPT ![n] = Append(@, v)]
    /\ produced' = produced + 1
    /\ UNCHANGED <<mpc, maxIDs, outcome, faults>>

Next == Monitor \/ \E n \in Nodes : Sync(n) \/ Produce(n)

\* The daemon ticks for ever, and every node's sync daemon eventually
\* catches up with a longer chain (sync_liveness of BlocksCollection).
Spec == Init /\ [][Next]_vars /\ WF_vars(Monitor) /\ \A n \in Nodes : WF_vars(Sync(n))

-----------------------------------------------------------------------------
TypeOK ==
    /\ \A n \in Nodes : chain[n] \in Seq(Vals) /\ Len(chain[n]) <= MaxHeight
    /\ mpc \in {"maxids", "info", "exit"}
    /\ maxIDs \in [DOMAIN NodesList -> 0..MaxHeight] \cup {<<>>}
    /\ outcome \in {"none", "synced", "alerted", "lost", "failed"}
    /\ produced \in 0..MaxProduced /\ faults \in 0..MaxFaults

\* Reference definition of the minimum of a slice; math.MaxInt64 for none.
RefMin(s) == IF s = <<>> THEN MaxInt64
             ELSE CHOOSE x \in RangeOf(s) : \A y \in RangeOf(s) : x <= y

\* Every slice of at most Len(NodesList) tips up to MaxHeight.
Slices == UNION {[1..k -> 0..MaxHeight] : k \in 0..Len(NodesList)}

\* minElement returns the least tip of the slice this round received, and of
\* every slice of up to Len(NodesList) tips, and math.MaxInt64 for an empty
\* node list.
MinElementIsMin == \A s \in Slices \cup {maxIDs} : minElement(s) = RefMin(s)

\* Two listed nodes hold different blocks at a height both have reached.
Forked == \E n, m \in Listed :
            LET h == IF Len(chain[n]) < Len(chain[m]) THEN Len(chain[n])
                     ELSE Len(chain[m])
            IN Prefix(chain[n], h) # Prefix(chain[m], h)

\* In daemon mode, a fork between listed nodes that lasts for ever is
\* mailed again and again: lagging nodes catch up, so the lowest tip the
\* monitor compares at eventually reaches the fork.
ForkAlerted == <>[]Forked => []<>(outcome = "alerted")

\* A round that logs "nodes synced" is right: no two listed nodes hold
\* different blocks at a common height when the verdict is given.
SyncedVerdictSound == [][outcome # "synced" /\ outcome' = "synced" => ~Forked']_vars

=============================================================================
