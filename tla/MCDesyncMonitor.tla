-------------------------- MODULE MCDesyncMonitor --------------------------
(* Instantiates DesyncMonitor for TLC: three nodes, all listed; the daemon *)
(* mode is set by the flag over config.toml.                               *)
EXTENDS DesyncMonitor, TLC

CONSTANTS n1, n2, n3, g, a, b

MCConfNodesList == <<n1, n2, n3>>

\* The -nodesList flag of the single-request run: two of the nodes.
MCNodesListFlag == <<n3, n1>>

\* In step; n1 and n2 forked at height 3 while n3 lags at 2; n3 forked from
\* the others at height 2.
MCInitChains ==
    { [n \in {n1, n2, n3} |-> <<g, a>>],
      (n1 :> <<g, a, b>>) @@ (n2 :> <<g, a, a>>) @@ (n3 :> <<g, a>>),
      (n1 :> <<g, a>>) @@ (n2 :> <<g, a>>) @@ (n3 :> <<g, b, b>>) }

MCVals == {g, a, b}

=============================================================================
