--------------------------- MODULE MCStopNetwork ---------------------------
(* Instantiates StopNetwork for TLC: five peers, one valid certificate sent *)
(* by two of them, one listed as used, one that does not parse and one     *)
(* that fails validation.                                                  *)
EXTENDS StopNetwork, TLC

CONSTANTS s1, s2, s3, s4, s5, c1, c2, c3, c4

MCCertOf == (s1 :> c1) @@ (s2 :> c1) @@ (s3 :> c2) @@ (s4 :> c3) @@ (s5 :> c4)

\* c3 stands for bytes ParseCert refuses; c4 parses but does not validate.
MCParsable == {c1, c2, c4}

\* c2 validates too: only the used list keeps it out.
MCBundle == {c1, c2}

MCUsed == {c2}

=============================================================================
