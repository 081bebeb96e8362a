------------------------------- MODULE MCStore -------------------------------
(* Three paths over two contents: the last two are hard links of one        *)
(* another and hold what the first holds; the third is stale.               *)
EXTENDS Store, TLC

CONSTANTS g1, g2, c1, c2

MCPaths == 1..3
MCHomeInodes == 1..4
MCColdInodes == 5..6
MCStarts == {[inode |-> <<1, 2, 2>>, content |-> <<c1, c1, c1, c1>>]}
=============================================================================
