-------------------------- MODULE MCRollbackLedger --------------------------
(* Instantiates RollbackLedger for TLC: two keys that start absent, two   *)
(* values, two blocks of up to three writes each.                         *)
EXTENDS RollbackLedger, TLC

CONSTANTS k1, k2, v1, v2

MCInitKV == [k \in {k1, k2} |-> None]

=============================================================================
