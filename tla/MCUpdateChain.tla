---------------------------- MODULE MCUpdateChain ----------------------------
(* Two clients of version 1 and a relay; releases 1 to 3, of which the last    *)
(* may replace the first and be withdrawn again.                               *)
EXTENDS UpdateChain

CONSTANTS c1, c2

MCRelease == 1..3
=============================================================================
