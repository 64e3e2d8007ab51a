------------------------------- MODULE MCEzNet -------------------------------
(* Small instances of EzNet.                                                 *)
EXTENDS EzNet

CONSTANTS s1, s2, c1, k1, k2

\* The largest reserved port and the smallest port that is not.
MCPorts == {1023, 1024}

=============================================================================
