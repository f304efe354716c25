----------------------------- MODULE MCTxClient -----------------------------
(* Instantiates TxClient for TLC: one client that waits for its block, one *)
(* with "nowait", and one for each error the client or sendTx detects.    *)
(* A txinfo request asks about c1 and c2, or about a malformed hash.       *)
EXTENDS TxClient, TLC

CONSTANTS c1, c2, c3, c4, c5, badHash

\* c3's form has a malformed value; c4's private key is invalid.
MCFormValid == [c \in {c1, c2, c3, c4, c5} |-> c # c3]
MCKeyValid == [c \in {c1, c2, c3, c4, c5} |-> c # c4]

\* c5's transaction is larger than MaxTxSize.
MCTxSize == [c \in {c1, c2, c3, c4, c5} |-> IF c = c5 THEN 2 ELSE 1]

MCNoWait == [c \in {c1, c2, c3, c4, c5} |-> c = c2]

\* c1 and c2 are looked up one after the other while blocks are played;
\* the malformed hash fails the single and the list handler alike.
MCTxInfoBatches == {<<c1, c2>>, <<badHash>>}

=============================================================================
