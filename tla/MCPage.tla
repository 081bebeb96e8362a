------------------------------- MODULE MCPage -------------------------------
(* One job, the page that launches it, a client that stops it.             *)
EXTENDS Page, TLC

CONSTANTS j1, a, k1, f1

OneRef == [j \in Jobs |-> a]

=============================================================================
