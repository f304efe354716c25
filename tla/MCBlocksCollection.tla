------------------------ MODULE MCBlocksCollection ------------------------
(* Instantiates BlocksCollection for TLC: two hosts on different forks, two *)
(* daemon goroutines, windows of two blocks.                               *)
EXTENDS BlocksCollection, TLC

CONSTANTS g, a, b, h1, h2, t1, t2

\* h1 serves the longest chain; h2 a shorter fork from height 2.
MCPeerChain == (h1 :> <<g, a, a, b>>) @@ (h2 :> <<g, b, b>>)

\* Local chains empty (a new node), behind, on h2's fork, on a fork of h1
\* from height 3, or on a fork of h1 from height 3 as long as h1's chain.
MCLocalInits == {<<>>, <<g>>, <<g, a>>, <<g, b, b>>, <<g, a, b>>, <<g, a, b, b>>}

MCVals == {a, b}

=============================================================================
